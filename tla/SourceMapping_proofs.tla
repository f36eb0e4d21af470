-------------------------- MODULE SourceMapping_proofs --------------------------
(***************************************************************************)
(* Theorems about SourceMapping: for any modules, of any number of files,  *)
(* functions and instructions, and whichever files come and go, the tables *)
(* number what they are given densely and for good, in order; a row of the *)
(* mutation table leads through the mapping file to its instruction; and   *)
(* what is collected is what may be mutated.                               *)
(***************************************************************************)
EXTENDS SourceMapping, FiniteSetTheorems, TLAPS

\* The functions that the mapping is to have: those with a body here, of a file
\* that may be mutated.
Mapped == {n \in DOMAIN functions : HasSource(n) /\ ~ IsRestricted(n)}

Declares(n, x) == \E k \in DOMAIN Code(n) : Code(n)[k].declares = x

\* An Info refers to the right Info of another table.
OwnerIs(kind, x, owner) ==
  /\ kind = "function" =>
       /\ functions[x].file \in DOMAIN mapping["file"].ids
       /\ owner = mapping["file"].ids[functions[x].file]
  /\ kind = "instruction" =>
       x[2] \in DOMAIN mapping["function"].ids /\ owner = mapping["function"].ids[x[2]]
  /\ kind = "variable" =>
       \E n \in DOMAIN mapping["function"].ids :
         /\ Declares(n, x) /\ owner = mapping["function"].ids[n]
         /\ \A m \in DOMAIN mapping["function"].ids : Declares(m, x) => n <= m

\* A table is a vector and a map with the same things, each at its number.
IsTable(t) ==
  /\ t = [infos |-> t.infos, ids |-> t.ids]
  /\ t.ids = [x \in DOMAIN t.ids |-> t.ids[x]]
  /\ IsSequence(t.infos)
  /\ IsFiniteSet(DOMAIN t.ids) /\ Cardinality(DOMAIN t.ids) = Len(t.infos)
  /\ \A x \in DOMAIN t.ids :
       /\ t.ids[x] \in Nat /\ t.ids[x] < Len(t.infos)
       /\ t.infos[t.ids[x] + 1].thing = x /\ t.infos[t.ids[x] + 1].id = t.ids[x]
  /\ \A k \in DOMAIN t.infos :
       t.infos[k].thing \in DOMAIN t.ids /\ t.ids[t.infos[k].thing] = k - 1

TablesInv ==
  /\ mapping = [kind \in Kinds |-> mapping[kind]]
  /\ \A kind \in Kinds :
       /\ IsTable(mapping[kind])
       /\ \A x \in DOMAIN mapping[kind].ids :
            OwnerIs(kind, x, mapping[kind].infos[mapping[kind].ids[x] + 1].owner)

\* What may be in the queue: values; of a function, at its end, the file and the
\* function; of an instruction, the instruction first and its variable last.
QueueInv ==
  /\ IsSequence(todo)
  /\ \A j \in DOMAIN todo : todo[j].kind \in Kinds
  /\ next = 0 => \A j \in DOMAIN todo : todo[j].kind = "value"
  /\ next = 1 => \A j \in DOMAIN todo :
       \/ todo[j].kind = "value" /\ j < Len(todo) - 1
       \/ todo[j] = Thing("file", functions[at].file) /\ j = Len(todo) - 1
       \/ todo[j] = Thing("function", at) /\ j = Len(todo)
  /\ next > 1 => \A j \in DOMAIN todo :
       LET variable == Code(at)[next - 1].declares IN
       \/ todo[j].kind = "value" /\ (j = Len(todo) => variable = None)
       \/ todo[j] = Thing("instruction", Instruction(at, next - 1)) /\ j = 1 /\ Len(todo) > 1
       \/ todo[j] = Thing("variable", variable) /\ j = Len(todo) /\ variable # None

InstructionPending == todo # <<>> /\ todo[1].kind = "instruction"

\* Of function n, the instructions that have been registered, and those whose
\* variables have.
Registered(n) ==
  {k \in DOMAIN Code(n) :
     n < at \/ (n = at /\ (k + 1 < next \/ (k + 1 = next /\ ~ InstructionPending)))}

Complete(n) ==
  {k \in DOMAIN Code(n) : n < at \/ (n = at /\ (k + 1 < next \/ (k + 1 = next /\ todo = <<>>)))}

\* How far the mapping has been built.
BuiltInv ==
  /\ DOMAIN mapping["function"].ids =
       {n \in Mapped : n < at \/ (n = at /\ (next > 1 \/ (next = 1 /\ todo = <<>>)))}
  /\ DOMAIN mapping["instruction"].ids =
       UNION {{Instruction(n, k) : k \in Registered(n)} : n \in Mapped}
  /\ DOMAIN mapping["file"].ids \subseteq {functions[n].file : n \in Mapped}
  /\ next = 1 /\ Len(todo) = 1 => functions[at].file \in DOMAIN mapping["file"].ids
  /\ \A n \in Mapped : \A k \in Complete(n) :
       Code(n)[k].declares # None => Code(n)[k].declares \in DOMAIN mapping["variable"].ids

\* Where the run is: in a function while it is built; past the last one when the
\* mapping has been.
PlaceInv ==
  /\ module \in Modules /\ phase \in Phases /\ gone \subseteq existing
  /\ at \in 1 .. Len(functions) + 1 /\ next \in Nat
  /\ next > 0 => at \in Mapped /\ next <= Len(Code(at)) + 1
  /\ phase # "build" => todo = <<>>
  /\ phase \notin {"build", "threw"} => at = Len(functions) + 1 /\ next = 0

\* Every path that build() has asked for existed when the run began.
PathsInv ==
  /\ \A n \in DOMAIN functions : n < at /\ HasSource(n) => Path(n) \in existing
  /\ next > 0 => Path(at) \in existing
  /\ \A f \in DOMAIN mapping["file"].ids : PathOf[f] \in existing

\* What has been saved, collected and looked up.
SavedInv ==
  /\ phase = "build" => saved = None
  /\ phase \in {"collect", "mutate", "done"} =>
       saved = [files        |-> RowsOf("file"),
                functions    |-> RowsOf("function"),
                instructions |-> RowsOf("instruction")]
  /\ phase \notin {"mutate", "done"} => collected = {} /\ rows = {}
  /\ collected \subseteq DOMAIN mapping["instruction"].ids
  /\ \A r \in rows :
       r.instruction \in collected /\ r.id = mapping["instruction"].ids[r.instruction]

IInv ==
  /\ PlaceInv /\ TablesInv /\ QueueInv /\ BuiltInv /\ PathsInv /\ SavedInv
  /\ CollectsMutable /\ ThrowsEarly
  /\ saved \in Contents \cup {None, Truncated}

-------------------------------------------------------------------------------
(* Sequences.                                                              *)

\* What has places from 1 on is a sequence.
LEMMA SequenceIs ==
  ASSUME NEW s
  PROVE  /\ \A S : s \in Seq(S) => IsSequence(s)
         /\ IsSequence(s) => /\ Len(s) \in Nat /\ DOMAIN s = 1 .. Len(s)
                             /\ s = <<>> <=> Len(s) = 0
<1>1. ASSUME NEW S, s \in Seq(S) PROVE s \in Seq(Range(s))
  <2>1. Len(s) \in Nat /\ DOMAIN s = 1 .. Len(s) /\ s = [j \in 1 .. Len(s) |-> s[j]]
    BY <1>1
  <2>2. \A j \in 1 .. Len(s) : s[j] \in Range(s)
    BY <2>1 DEF Range
  <2> QED
    BY <2>1, <2>2
<1>2. ASSUME s \in Seq(Range(s))
      PROVE  Len(s) \in Nat /\ DOMAIN s = 1 .. Len(s) /\ (s = <<>> <=> Len(s) = 0)
  <2> HIDE DEF Range
  <2> QED
    BY <1>2
<1> QED
  BY <1>1, <1>2 DEF IsSequence

LEMMA AppendedIs ==
  ASSUME NEW s, IsSequence(s), NEW e
  PROVE  /\ IsSequence(Append(s, e)) /\ Len(Append(s, e)) = Len(s) + 1
         /\ Append(s, e)[Len(s) + 1] = e
         /\ \A j \in 1 .. Len(s) : Append(s, e)[j] = s[j]
<1> DEFINE S == Range(s) \cup {e}
<1>1. s \in Seq(S) /\ e \in S
  BY DEF IsSequence
<1> HIDE DEF S
<1>2. Append(s, e) \in Seq(S)
  BY <1>1
<1>3. IsSequence(Append(s, e))
  BY <1>2, SequenceIs, Zenon
<1> QED
  BY <1>1, <1>2, <1>3

LEMMA TailIs ==
  ASSUME NEW s, IsSequence(s), s # <<>>
  PROVE  /\ IsSequence(Tail(s)) /\ Len(s) \in Nat /\ Len(s) > 0 /\ Len(Tail(s)) = Len(s) - 1
         /\ Head(s) = s[1]
         /\ \A j \in 1 .. Len(s) - 1 : Tail(s)[j] = s[j + 1]
<1> DEFINE S == Range(s)
<1>1. s \in Seq(S)
  BY DEF IsSequence
<1> HIDE DEF S
<1>2. Tail(s) \in Seq(S)
  BY <1>1
<1>3. IsSequence(Tail(s))
  BY <1>2, SequenceIs, Zenon
<1> QED
  BY <1>1, <1>2, <1>3

LEMMA JoinedIs ==
  ASSUME NEW s, IsSequence(s), NEW t, IsSequence(t)
  PROVE  /\ IsSequence(s \o t) /\ Len(s \o t) = Len(s) + Len(t)
         /\ \A j \in 1 .. Len(s) + Len(t) :
              (s \o t)[j] = IF j <= Len(s) THEN s[j] ELSE t[j - Len(s)]
<1> DEFINE S == Range(s) \cup Range(t)
<1>1. s \in Seq(S) /\ t \in Seq(S)
  BY DEF IsSequence
<1> HIDE DEF S
<1>2. s \o t \in Seq(S)
  BY <1>1
<1>3. IsSequence(s \o t)
  BY <1>2, SequenceIs, Zenon
<1> QED
  BY <1>1, <1>2, <1>3

\* A function on the first numbers is a list of its values.
LEMMA ListIs ==
  ASSUME NEW S, NEW n \in Nat, NEW f, f = [k \in 1 .. n |-> f[k]],
         \A k \in 1 .. n : f[k] \in S
  PROVE  f \in Seq(S)
OBVIOUS

\* The things of a kind that a sequence lists.
LEMMA EachIs ==
  ASSUME NEW kind, NEW n \in Nat, NEW xs, DOMAIN xs = 1 .. n
  PROVE  /\ IsSequence(Each(kind, xs)) /\ Len(Each(kind, xs)) = n
         /\ \A j \in 1 .. n : Each(kind, xs)[j].kind = kind
<1> DEFINE S == {Thing(kind, xs[j]) : j \in 1 .. n}
<1>1. Each(kind, xs) = [j \in 1 .. n |-> Thing(kind, xs[j])]
  BY DEF Each
<1>2. \A j \in 1 .. n : Thing(kind, xs[j]) \in S /\ Thing(kind, xs[j]).kind = kind
  BY DEF Thing
<1> HIDE DEF S
<1>3. Each(kind, xs) \in Seq(S)
  BY <1>1, <1>2
<1>4. IsSequence(Each(kind, xs))
  BY <1>3, SequenceIs, Zenon
<1> QED
  BY <1>1, <1>2, <1>3, <1>4

\* What the modules' assumption says of the one that is mapped.
LEMMA ModuleIs ==
  ASSUME PlaceInv
  PROVE  /\ Len(functions) \in Nat /\ DOMAIN functions = 1 .. Len(functions)
         /\ Mapped \subseteq DOMAIN functions
         /\ \A n \in DOMAIN functions :
              /\ functions[n].file \in DOMAIN PathOf \cup {None} /\ functions[n].formals \in Nat
              /\ Len(Code(n)) \in Nat /\ DOMAIN Code(n) = 1 .. Len(Code(n))
              /\ \A k \in DOMAIN Code(n) : IsInstruction(Code(n)[k])
<1>1. IsSequence(functions) /\ \A n \in DOMAIN functions : IsFunction(functions[n])
  BY ModulesAssumption DEF PlaceInv, functions
<1>2. \A n \in DOMAIN functions :
        /\ functions[n].file \in DOMAIN PathOf \cup {None} /\ functions[n].formals \in Nat
        /\ IsSequence(Code(n)) /\ \A k \in DOMAIN Code(n) : IsInstruction(Code(n)[k])
  BY <1>1 DEF IsFunction, Code
<1>3. ASSUME NEW n \in DOMAIN functions
      PROVE  Len(Code(n)) \in Nat /\ DOMAIN Code(n) = 1 .. Len(Code(n))
  BY <1>2, SequenceIs
<1>4. Len(functions) \in Nat /\ DOMAIN functions = 1 .. Len(functions)
  BY <1>1, SequenceIs
<1> QED
  BY <1>2, <1>3, <1>4 DEF Mapped

-------------------------------------------------------------------------------
(* The tables.                                                             *)

\* A table with one more thing in it.
LEMMA CreateIs ==
  ASSUME NEW kind, IsTable(mapping[kind]), NEW x, x \notin DOMAIN mapping[kind].ids,
         NEW t, t = create(kind, x)
  PROVE  /\ IsTable(t)
         /\ DOMAIN t.ids = DOMAIN mapping[kind].ids \cup {x}
         /\ t.ids[x] = Cardinality(DOMAIN mapping[kind].ids)
         /\ t.infos[t.ids[x] + 1].owner = Owner(kind, x)
         /\ \A y \in DOMAIN mapping[kind].ids :
              /\ t.ids[y] = mapping[kind].ids[y]
              /\ t.infos[t.ids[y] + 1] = mapping[kind].infos[mapping[kind].ids[y] + 1]
<1> DEFINE ids   == mapping[kind].ids
           infos == mapping[kind].infos
           info  == Info(Len(infos), x, Owner(kind, x))
<1>1. /\ IsSequence(infos) /\ Len(infos) \in Nat /\ DOMAIN infos = 1 .. Len(infos)
      /\ IsFiniteSet(DOMAIN ids) /\ Cardinality(DOMAIN ids) = Len(infos)
      /\ \A y \in DOMAIN ids :
           /\ ids[y] \in Nat /\ ids[y] < Len(infos)
           /\ infos[ids[y] + 1].thing = y /\ infos[ids[y] + 1].id = ids[y]
      /\ \A k \in DOMAIN infos : infos[k].thing \in DOMAIN ids /\ ids[infos[k].thing] = k - 1
  BY SequenceIs DEF IsTable
<1>2. /\ t = [infos |-> t.infos, ids |-> t.ids] /\ t.infos = Append(infos, info)
      /\ t.ids = [y \in DOMAIN ids \cup {x} |-> IF y \in DOMAIN ids THEN ids[y] ELSE Len(infos)]
  BY DEF create, Emplaced
<1>3. /\ info.thing = x /\ info.id = Len(infos) /\ info.owner = Owner(kind, x)
  BY DEF Info
<1>4. x \notin DOMAIN ids
  OBVIOUS
<1> HIDE DEF ids, infos, info
<1>5. /\ IsSequence(t.infos) /\ Len(t.infos) = Len(infos) + 1
      /\ t.infos[Len(infos) + 1] = info /\ \A k \in 1 .. Len(infos) : t.infos[k] = infos[k]
      /\ DOMAIN t.infos = 1 .. Len(infos) + 1
  <2>1. IsSequence(t.infos) /\ Len(t.infos) = Len(infos) + 1
        /\ t.infos[Len(infos) + 1] = info /\ \A k \in 1 .. Len(infos) : t.infos[k] = infos[k]
    BY <1>1, <1>2, AppendedIs
  <2> QED
    BY <2>1, SequenceIs
<1>6. IsFiniteSet(DOMAIN t.ids) /\ Cardinality(DOMAIN t.ids) = Len(infos) + 1
  <2>1. DOMAIN t.ids = DOMAIN ids \cup {x}
    BY <1>2
  <2> QED
    BY <1>1, <1>4, <2>1, FS_AddElement
<1>7. \A y \in DOMAIN ids : /\ t.ids[y] = ids[y]
                            /\ t.infos[t.ids[y] + 1] = infos[ids[y] + 1]
  BY <1>1, <1>2, <1>5
<1>8. t.ids[x] = Len(infos) /\ t.infos[t.ids[x] + 1] = info
  BY <1>2, <1>4, <1>5
<1>9. \A y \in DOMAIN t.ids :
        /\ t.ids[y] \in Nat /\ t.ids[y] < Len(t.infos)
        /\ t.infos[t.ids[y] + 1].thing = y /\ t.infos[t.ids[y] + 1].id = t.ids[y]
  BY <1>1, <1>2, <1>3, <1>5, <1>7, <1>8
<1>10. \A k \in DOMAIN t.infos : t.infos[k].thing \in DOMAIN t.ids /\ t.ids[t.infos[k].thing] = k - 1
  <2>1. ASSUME NEW k \in 1 .. Len(infos)
        PROVE  t.infos[k].thing \in DOMAIN t.ids /\ t.ids[t.infos[k].thing] = k - 1
    BY <1>1, <1>2, <1>5, <2>1
  <2>2. t.infos[Len(infos) + 1].thing \in DOMAIN t.ids /\ t.ids[t.infos[Len(infos) + 1].thing] = Len(infos)
    BY <1>2, <1>3, <1>5, <1>8
  <2> QED
    BY <1>1, <1>5, <2>1, <2>2
<1>11. t.ids = [y \in DOMAIN t.ids |-> t.ids[y]]
  BY <1>2
<1>12. IsTable(t)
  BY <1>2, <1>5, <1>6, <1>9, <1>10, <1>11 DEF IsTable
<1> QED
  BY <1>1, <1>2, <1>3, <1>7, <1>8, <1>12 DEF ids, infos

\* Different instructions have different names.
LEMMA InstructionIs ==
  ASSUME NEW n, NEW k, NEW m, NEW l
  PROVE  /\ Instruction(n, k)[2] = n /\ Instruction(n, k)[3] = k
         /\ Instruction(n, k) = Instruction(m, l) => n = m /\ k = l
BY DEF Instruction

\* The head of the queue tells where the building is.
LEMMA HeadIs ==
  ASSUME PlaceInv, QueueInv, todo # <<>>
  PROVE  /\ Head(todo) = todo[1] /\ todo[1].kind \in Kinds
         /\ todo[1].kind = "file" =>
              next = 1 /\ todo[1].thing = functions[at].file /\ Len(todo) = 2
         /\ todo[1].kind = "function" => next = 1 /\ todo[1].thing = at /\ Len(todo) = 1
         /\ todo[1].kind = "instruction" =>
              next > 1 /\ todo[1].thing = Instruction(at, next - 1) /\ Len(todo) > 1
         /\ todo[1].kind = "variable" =>
              /\ next > 1 /\ Len(todo) = 1
              /\ todo[1].thing = Code(at)[next - 1].declares /\ todo[1].thing # None
<1>1. /\ Head(todo) = todo[1] /\ Len(todo) \in Nat /\ Len(todo) > 0 /\ DOMAIN todo = 1 .. Len(todo)
      /\ 1 \in DOMAIN todo /\ next \in Nat
  BY TailIs, SequenceIs DEF QueueInv, PlaceInv
<1>2. todo[1].kind \in Kinds
  BY <1>1 DEF QueueInv
<1>3. next = 0 => todo[1].kind = "value"
  BY <1>1 DEF QueueInv
<1>4. next = 1 => \/ todo[1].kind = "value"
                  \/ todo[1] = Thing("file", functions[at].file) /\ Len(todo) = 2
                  \/ todo[1] = Thing("function", at) /\ Len(todo) = 1
  BY <1>1 DEF QueueInv
<1>5. next > 1 => \/ todo[1].kind = "value"
                  \/ todo[1] = Thing("instruction", Instruction(at, next - 1)) /\ Len(todo) > 1
                  \/ /\ todo[1] = Thing("variable", Code(at)[next - 1].declares) /\ Len(todo) = 1
                     /\ Code(at)[next - 1].declares # None
  BY <1>1 DEF QueueInv
<1>6. \A kind, x : Thing(kind, x).kind = kind /\ Thing(kind, x).thing = x
  BY DEF Thing
<1> QED
  BY <1>1, <1>2, <1>3, <1>4, <1>5, <1>6

\* The tables of everything but the head of the queue are as they were, and its
\* table as well if the thing is there.
Registers(kind, x) ==
  /\ mapping' = [k \in Kinds |-> mapping'[k]]
  /\ \A k \in Kinds \ {kind} : mapping'[k] = mapping[k]
  /\ x \in DOMAIN mapping[kind].ids => mapping'[kind] = mapping[kind]
  /\ x \notin DOMAIN mapping[kind].ids => mapping'[kind] = create(kind, x)

\* No function and no instruction comes up twice.
LEMMA NotTwice ==
  ASSUME PlaceInv, QueueInv, BuiltInv, todo # <<>>,
         todo[1].kind \in {"function", "instruction"}
  PROVE  todo[1].thing \notin DOMAIN mapping[todo[1].kind].ids
<1>1. CASE todo[1].kind = "function"
  BY <1>1, HeadIs DEF BuiltInv, PlaceInv
<1>2. CASE todo[1].kind = "instruction"
  <2>1. todo[1].thing = Instruction(at, next - 1) /\ next - 1 \notin Registered(at)
    BY <1>2, HeadIs DEF Registered, InstructionPending, PlaceInv
  <2>2. ASSUME NEW n \in Mapped, NEW k \in Registered(n)
        PROVE  todo[1].thing # Instruction(n, k)
    BY <2>1, InstructionIs
  <2> QED
    BY <1>2, <2>2 DEF BuiltInv
<1> QED
  BY <1>1, <1>2

LEMMA RegisterIs ==
  ASSUME PlaceInv, TablesInv, QueueInv, BuiltInv, Register
  PROVE  /\ todo # <<>> /\ todo' = Tail(todo) /\ UNCHANGED << input, gone, phase, at, next, saved, collected, rows >>
         /\ todo[1].kind \in Kinds /\ Registers(todo[1].kind, todo[1].thing)
<1> DEFINE kind == todo[1].kind
           x    == todo[1].thing
<1>1. todo # <<>> /\ todo' = Tail(todo) /\ UNCHANGED << input, gone, phase, at, next, saved, collected, rows >>
  BY DEF Register
<1>2. Head(todo) = todo[1] /\ kind \in Kinds
  BY <1>1, HeadIs
<1>3. kind \in {"function", "instruction"} => x \notin DOMAIN mapping[kind].ids
  BY <1>1, NotTwice
<1>4. mapping' = [mapping EXCEPT ![kind] =
                    IF kind \in {"function", "instruction"}
                    THEN create(kind, x) ELSE getOrCreate(kind, x)]
  BY <1>2 DEF Register
<1>5. mapping = [k \in Kinds |-> mapping[k]]
  BY DEF TablesInv
<1> HIDE DEF kind, x
<1>6. Registers(kind, x)
  BY <1>2, <1>3, <1>4, <1>5 DEF Registers, getOrCreate
<1> QED
  BY <1>1, <1>2, <1>6 DEF kind, x

\* A registration keeps every table and every number in it.
LEMMA TablesGrow ==
  ASSUME TablesInv, NEW kind \in Kinds, NEW x, Registers(kind, x)
  PROVE  /\ \A k \in Kinds : IsTable(mapping'[k])
         /\ DOMAIN mapping'[kind].ids = DOMAIN mapping[kind].ids \cup {x}
         /\ \A k \in Kinds \ {kind} : mapping'[k] = mapping[k]
         /\ \A k \in Kinds : \A y \in DOMAIN mapping[k].ids :
              /\ y \in DOMAIN mapping'[k].ids
              /\ mapping'[k].ids[y] = mapping[k].ids[y]
              /\ mapping'[k].infos[mapping'[k].ids[y] + 1]
                   = mapping[k].infos[mapping[k].ids[y] + 1]
         /\ x \notin DOMAIN mapping[kind].ids =>
              /\ mapping'[kind].ids[x] = Cardinality(DOMAIN mapping[kind].ids)
              /\ mapping'[kind].infos[mapping'[kind].ids[x] + 1].owner = Owner(kind, x)
<1>1. \A k \in Kinds : IsTable(mapping[k])
  BY DEF TablesInv
<1>2. CASE x \in DOMAIN mapping[kind].ids
  BY <1>1, <1>2 DEF Registers
<1>3. CASE x \notin DOMAIN mapping[kind].ids
  <2>1. mapping'[kind] = create(kind, x)
    BY <1>3 DEF Registers
  <2>2. /\ IsTable(mapping'[kind])
        /\ DOMAIN mapping'[kind].ids = DOMAIN mapping[kind].ids \cup {x}
        /\ mapping'[kind].ids[x] = Cardinality(DOMAIN mapping[kind].ids)
        /\ mapping'[kind].infos[mapping'[kind].ids[x] + 1].owner = Owner(kind, x)
        /\ \A y \in DOMAIN mapping[kind].ids :
             /\ mapping'[kind].ids[y] = mapping[kind].ids[y]
             /\ mapping'[kind].infos[mapping'[kind].ids[y] + 1]
                  = mapping[kind].infos[mapping[kind].ids[y] + 1]
    BY <1>1, <1>3, <2>1, CreateIs
  <2> QED
    BY <1>1, <1>3, <2>2 DEF Registers
<1> QED
  BY <1>2, <1>3

-------------------------------------------------------------------------------
(* Registering keeps the invariant.                                        *)

\* The Info of a thing that is registered refers to the right other one, and no
\* registration changes which one that is.
LEMMA RegisterTables ==
  ASSUME PlaceInv, TablesInv, QueueInv, BuiltInv, Register
  PROVE  TablesInv'
<1>0. PICK kind, x : kind = todo[1].kind /\ x = todo[1].thing
  OBVIOUS
<1>1. /\ todo # <<>> /\ UNCHANGED << module, restrictToFiles, at, next >>
      /\ kind \in Kinds /\ Registers(kind, x)
  BY <1>0, RegisterIs DEF input
<1>2. /\ kind = "function" => x = at /\ Len(todo) = 1 /\ next = 1
      /\ kind = "instruction" => next > 1 /\ x = Instruction(at, next - 1)
      /\ kind = "variable" =>
           next > 1 /\ x = Code(at)[next - 1].declares /\ x # None
  BY <1>0, <1>1, HeadIs
<1>3. /\ \A k \in Kinds : IsTable(mapping'[k])
      /\ DOMAIN mapping'[kind].ids = DOMAIN mapping[kind].ids \cup {x}
      /\ \A k \in Kinds \ {kind} : mapping'[k] = mapping[k]
      /\ \A k \in Kinds : \A y \in DOMAIN mapping[k].ids :
           /\ y \in DOMAIN mapping'[k].ids
           /\ mapping'[k].ids[y] = mapping[k].ids[y]
           /\ mapping'[k].infos[mapping'[k].ids[y] + 1]
                = mapping[k].infos[mapping[k].ids[y] + 1]
      /\ x \notin DOMAIN mapping[kind].ids =>
           mapping'[kind].infos[mapping'[kind].ids[x] + 1].owner = Owner(kind, x)
  BY <1>1, TablesGrow
<1>4. mapping' = [k \in Kinds |-> mapping'[k]]
  BY <1>1 DEF Registers
<1>5. /\ \A n \in DOMAIN mapping["function"].ids : n \in Nat /\ n <= at
      /\ at \in Nat /\ next \in Nat
      /\ next > 1 => at \in DOMAIN mapping["function"].ids /\ next - 1 \in DOMAIN Code(at)
  <2>1. at \in Nat /\ next \in Nat
    BY DEF PlaceInv
  <2>2. \A n \in Mapped : n \in Nat
    BY ModuleIs
  <2>3. next > 1 => next - 1 \in DOMAIN Code(at)
    <3>1. next > 1 => at \in Mapped /\ next <= Len(Code(at)) + 1
      BY <2>1 DEF PlaceInv
    <3> QED
      BY <2>1, <3>1, ModuleIs
  <2> QED
    BY <2>1, <2>2, <2>3 DEF BuiltInv, PlaceInv
<1>6. ASSUME NEW k \in Kinds, NEW y \in DOMAIN mapping[k].ids, NEW owner, OwnerIs(k, y, owner)
      PROVE  OwnerIs(k, y, owner)'
  <2>1. CASE k = "function"
    BY <1>1, <1>3, <1>6, <2>1 DEF OwnerIs, Kinds, functions
  <2>2. CASE k = "instruction"
    BY <1>1, <1>3, <1>6, <2>2 DEF OwnerIs, Kinds
  <2>3. CASE k = "variable"
    <3>1. PICK n \in DOMAIN mapping["function"].ids :
            /\ Declares(n, y) /\ owner = mapping["function"].ids[n]
            /\ \A m \in DOMAIN mapping["function"].ids : Declares(m, y) => n <= m
      BY <1>6, <2>3 DEF OwnerIs
    <3>2. \A m \in DOMAIN mapping'["function"].ids : m \in DOMAIN mapping["function"].ids \/ m = at
      BY <1>2, <1>3 DEF Kinds
    <3>3. n \in DOMAIN mapping'["function"].ids /\ owner = mapping'["function"].ids[n]
      BY <1>3, <3>1 DEF Kinds
    <3>4. \A m : Declares(m, y)' <=> Declares(m, y)
      BY <1>1 DEF Declares, Code, functions
    <3>5. \A m \in DOMAIN mapping'["function"].ids : Declares(m, y) => n <= m
      BY <1>5, <3>1, <3>2
    <3> QED
      BY <2>3, <3>1, <3>3, <3>4, <3>5 DEF OwnerIs
  <2>4. CASE k \notin {"function", "instruction", "variable"}
    BY <2>4 DEF OwnerIs
  <2> QED
    BY <2>1, <2>2, <2>3, <2>4
<1>7. ASSUME x \notin DOMAIN mapping[kind].ids, NEW owner, owner = Owner(kind, x)
      PROVE  OwnerIs(kind, x, owner)'
  <2>1. CASE kind = "function"
    <3>1. functions[x].file \in DOMAIN mapping["file"].ids
      BY <1>0, <1>1, <1>2, <2>1 DEF BuiltInv
    <3>2. mapping'["file"] = mapping["file"]
      BY <1>3, <2>1 DEF Kinds
    <3> QED
      BY <1>1, <1>7, <2>1, <3>1, <3>2 DEF OwnerIs, Owner, functions
  <2>2. CASE kind = "instruction"
    <3>1. x[2] = at /\ mapping'["function"] = mapping["function"]
      BY <1>2, <1>3, <2>2, InstructionIs DEF Kinds
    <3> QED
      BY <1>2, <1>5, <1>7, <2>2, <3>1 DEF OwnerIs, Owner
  <2>3. CASE kind = "variable"
    <3>1. mapping'["function"] = mapping["function"] /\ Owner(kind, x) = mapping["function"].ids[at]
      BY <1>3, <2>3 DEF Kinds, Owner
    <3>2. at \in DOMAIN mapping["function"].ids /\ Declares(at, x)
      BY <1>2, <1>5, <2>3 DEF Declares
    <3>3. ASSUME NEW m \in DOMAIN mapping["function"].ids, Declares(m, x) PROVE at <= m
      <4>1. SUFFICES ASSUME m < at PROVE FALSE
        BY <1>5
      <4>2. PICK k \in DOMAIN Code(m) : Code(m)[k].declares = x
        BY <3>3 DEF Declares
      <4>3. m \in Mapped /\ k \in Complete(m)
        BY <4>1, <4>2 DEF BuiltInv, Complete
      <4> QED
        BY <1>2, <1>7, <2>3, <4>2, <4>3 DEF BuiltInv
    <3>4. \A m : Declares(m, x)' <=> Declares(m, x)
      BY <1>1 DEF Declares, Code, functions
    <3> QED
      BY <1>7, <2>3, <3>1, <3>2, <3>3, <3>4 DEF OwnerIs
  <2>4. CASE kind \notin {"function", "instruction", "variable"}
    BY <2>4 DEF OwnerIs
  <2> QED
    BY <2>1, <2>2, <2>3, <2>4
<1>8. ASSUME NEW k \in Kinds, NEW y \in DOMAIN mapping'[k].ids,
             NEW owner, owner = mapping'[k].infos[mapping'[k].ids[y] + 1].owner
      PROVE  OwnerIs(k, y, owner)'
  <2>1. CASE y \in DOMAIN mapping[k].ids
    <3>1. owner = mapping[k].infos[mapping[k].ids[y] + 1].owner
      BY <1>3, <1>8, <2>1
    <3>2. OwnerIs(k, y, owner)
      BY <2>1, <3>1 DEF TablesInv
    <3> QED
      BY <1>6, <2>1, <3>2
  <2>2. CASE y \notin DOMAIN mapping[k].ids
    <3>1. k = kind /\ y = x /\ x \notin DOMAIN mapping[kind].ids
      BY <1>3, <2>2
    <3>2. owner = Owner(kind, x)
      BY <1>3, <1>8, <3>1
    <3> QED
      BY <1>7, <3>1, <3>2
  <2> QED
    BY <2>1, <2>2
<1>9. \A k \in Kinds : \A y \in DOMAIN mapping'[k].ids :
        OwnerIs(k, y, mapping[k].infos[mapping[k].ids[y] + 1].owner)'
  <2> SUFFICES ASSUME NEW k \in Kinds, NEW y \in DOMAIN mapping'[k].ids
               PROVE  OwnerIs(k, y, mapping[k].infos[mapping[k].ids[y] + 1].owner)'
    OBVIOUS
  <2>1. PICK owner : owner = mapping'[k].infos[mapping'[k].ids[y] + 1].owner
    OBVIOUS
  <2>2. OwnerIs(k, y, owner)'
    BY <1>8, <2>1
  <2> QED
    BY <2>1, <2>2 DEF OwnerIs
<1> QED
  BY <1>3, <1>4, <1>9 DEF TablesInv

\* What is left of the queue.
LEMMA RegisterQueue ==
  ASSUME PlaceInv, TablesInv, QueueInv, BuiltInv, Register
  PROVE  QueueInv'
<1>1. /\ todo # <<>> /\ todo' = Tail(todo) /\ UNCHANGED << module, at, next >>
  BY RegisterIs DEF input
<1>2. /\ IsSequence(todo') /\ Len(todo) \in Nat /\ Len(todo') = Len(todo) - 1
      /\ \A j \in 1 .. Len(todo) - 1 : todo'[j] = todo[j + 1]
  BY <1>1, TailIs DEF QueueInv
<1>3. DOMAIN todo = 1 .. Len(todo) /\ DOMAIN todo' = 1 .. Len(todo) - 1
  BY <1>2, SequenceIs DEF QueueInv
<1>4. ASSUME NEW j \in DOMAIN todo'
      PROVE  j + 1 \in DOMAIN todo /\ todo'[j] = todo[j + 1] /\ j + 1 # 1 /\ j \in Nat
  BY <1>2, <1>3
<1>5. next' = 0 => \A j \in DOMAIN todo' : todo'[j].kind = "value"
  BY <1>1, <1>4 DEF QueueInv
<1>6. next' = 1 => \A j \in DOMAIN todo' :
        \/ todo'[j].kind = "value" /\ j < Len(todo') - 1
        \/ todo'[j] = Thing("file", functions[at].file) /\ j = Len(todo') - 1
        \/ todo'[j] = Thing("function", at) /\ j = Len(todo')
  BY <1>1, <1>2, <1>4 DEF QueueInv
<1>7. next' > 1 => \A j \in DOMAIN todo' :
        \/ todo'[j].kind = "value" /\ (j = Len(todo') => Code(at)[next - 1].declares = None)
        \/ /\ todo'[j] = Thing("variable", Code(at)[next - 1].declares)
           /\ j = Len(todo') /\ Code(at)[next - 1].declares # None
  BY <1>1, <1>2, <1>4 DEF QueueInv
<1>8. \A j \in DOMAIN todo' : todo'[j].kind \in Kinds
  BY <1>4 DEF QueueInv
<1> QED
  BY <1>1, <1>2, <1>5, <1>6, <1>7, <1>8 DEF QueueInv, Code, Thing, functions

\* The head of the queue is the one thing that was not there and is to be.
LEMMA RegisterBuilt ==
  ASSUME PlaceInv, TablesInv, QueueInv, BuiltInv, Register
  PROVE  BuiltInv'
<1>0. PICK kind, x : kind = todo[1].kind /\ x = todo[1].thing
  OBVIOUS
<1>1. /\ todo # <<>> /\ todo' = Tail(todo) /\ UNCHANGED << module, restrictToFiles, at, next >>
      /\ kind \in Kinds /\ Registers(kind, x)
  BY <1>0, RegisterIs DEF input
<1>2. /\ kind = "file" => next = 1 /\ x = functions[at].file /\ Len(todo) = 2
      /\ kind = "function" => next = 1 /\ x = at /\ Len(todo) = 1
      /\ kind = "instruction" => next > 1 /\ x = Instruction(at, next - 1) /\ Len(todo) > 1
      /\ kind = "variable" =>
           /\ next > 1 /\ Len(todo) = 1
           /\ x = Code(at)[next - 1].declares /\ x # None
  BY <1>0, <1>1, HeadIs
<1>3. /\ DOMAIN mapping'[kind].ids = DOMAIN mapping[kind].ids \cup {x}
      /\ \A k \in Kinds \ {kind} : mapping'[k] = mapping[k]
      /\ \A k \in Kinds : DOMAIN mapping[k].ids \subseteq DOMAIN mapping'[k].ids
  BY <1>1, TablesGrow
<1>4. /\ Len(todo) \in Nat /\ Len(todo') = Len(todo) - 1 /\ Len(todo) > 0
      /\ \A j \in 1 .. Len(todo) - 1 : todo'[j] = todo[j + 1]
      /\ DOMAIN todo = 1 .. Len(todo)
      /\ todo' = <<>> <=> Len(todo) = 1
  <2>1. /\ Len(todo) \in Nat /\ Len(todo') = Len(todo) - 1 /\ Len(todo) > 0
        /\ \A j \in 1 .. Len(todo) - 1 : todo'[j] = todo[j + 1]
        /\ IsSequence(todo') /\ IsSequence(todo)
    BY <1>1, TailIs DEF QueueInv
  <2>2. (todo' = <<>> <=> Len(todo') = 0) /\ DOMAIN todo = 1 .. Len(todo)
    BY <2>1, SequenceIs
  <2> QED
    BY <2>1, <2>2
<1>5. /\ UNCHANGED functions /\ Mapped' = Mapped /\ Mapped \subseteq DOMAIN functions
      /\ \A n : Code(n)' = Code(n) /\ at \in Nat /\ next \in Nat
      /\ \A n \in Mapped : n \in Nat /\ DOMAIN Code(n) \subseteq Nat
      /\ next > 0 => at \in Mapped
      /\ next > 1 => next - 1 \in DOMAIN Code(at)
  <2>1. UNCHANGED functions /\ Mapped' = Mapped /\ \A n : Code(n)' = Code(n)
    BY <1>1 DEF functions, Mapped, HasSource, IsRestricted, Path, Code
  <2>2. at \in Nat /\ next \in Nat /\ (next > 0 => at \in Mapped /\ next <= Len(Code(at)) + 1)
    BY DEF PlaceInv
  <2> QED
    BY <2>1, <2>2, ModuleIs
<1>6. ~ InstructionPending'
  <2>1. \A j \in DOMAIN todo : j # 1 => todo[j].kind # "instruction"
    <3>1. \A f, n, v : Thing("file", f).kind = "file" /\ Thing("function", n).kind = "function"
                         /\ Thing("variable", v).kind = "variable"
      BY DEF Thing
    <3>2. CASE next = 0
      BY <3>2 DEF QueueInv
    <3>3. CASE next = 1
      BY <3>1, <3>3 DEF QueueInv
    <3>4. CASE next > 1
      BY <3>1, <3>4 DEF QueueInv
    <3> QED
      BY <1>5, <3>2, <3>3, <3>4
  <2>2. todo' # <<>> => todo'[1] = todo[2] /\ 2 \in DOMAIN todo
    BY <1>4
  <2> QED
    BY <2>1, <2>2 DEF InstructionPending
<1>7. DOMAIN mapping'["function"].ids =
        {n \in Mapped : n < at \/ (n = at /\ (next > 1 \/ (next = 1 /\ todo' = <<>>)))}
  <2>1. CASE kind = "function"
    <3>1. DOMAIN mapping["function"].ids = {n \in Mapped : n < at}
      BY <1>1, <1>2, <2>1 DEF BuiltInv
    <3> QED
      BY <1>2, <1>3, <1>4, <1>5, <2>1, <3>1
  <2>2. CASE kind # "function"
    <3>1. mapping'["function"] = mapping["function"]
      BY <1>3, <2>2 DEF Kinds
    <3>2. next = 1 => todo' # <<>>
      <4>1. ASSUME next = 1, Len(todo) = 1 PROVE FALSE
        <5>1. todo[1].kind = "value" => 1 < 1 - 1
          BY <1>4, <4>1 DEF QueueInv, Thing
        <5>2. kind = "value"
          BY <1>1, <1>2, <2>2, <4>1 DEF Kinds
        <5> QED
          BY <1>0, <5>1, <5>2
      <4> QED
        BY <1>4, <4>1
    <3> QED
      BY <1>1, <3>1, <3>2 DEF BuiltInv
  <2> QED
    BY <2>1, <2>2
<1>8. DOMAIN mapping'["instruction"].ids =
        UNION {{Instruction(n, k) : k \in Registered(n)'} : n \in Mapped}
  <2>1. CASE kind = "instruction"
    <3>1. \A n : n # at => Registered(n)' = Registered(n)
      BY <1>1, <1>5 DEF Registered
    <3>2. Registered(at)' = Registered(at) \cup {next - 1} /\ at \in Mapped
      <4>1. InstructionPending
        BY <1>0, <1>1, <2>1 DEF InstructionPending
      <4>2. /\ Registered(at) = {k \in DOMAIN Code(at) : k + 1 < next}
            /\ Registered(at)' = {k \in DOMAIN Code(at) : k + 1 < next \/ k + 1 = next}
        BY <1>1, <1>5, <1>6, <4>1 DEF Registered
      <4>3. at \in Mapped /\ next - 1 \in DOMAIN Code(at) /\ DOMAIN Code(at) \subseteq Nat
        BY <1>2, <1>5, <2>1
      <4> QED
        BY <1>5, <4>2, <4>3
    <3>3. DOMAIN mapping'["instruction"].ids = DOMAIN mapping["instruction"].ids \cup {Instruction(at, next - 1)}
      BY <1>2, <1>3, <2>1
    <3>4. DOMAIN mapping["instruction"].ids = UNION {{Instruction(n, k) : k \in Registered(n)} : n \in Mapped}
      BY DEF BuiltInv
    <3> DEFINE Now(n) == Registered(n)'
               Was(n) == Registered(n)
               i      == Instruction(at, next - 1)
    <3>5. /\ \A n : n # at => Now(n) = Was(n)
          /\ Now(at) = Was(at) \cup {next - 1} /\ at \in Mapped
      BY <3>1, <3>2
    <3> HIDE DEF Now, Was
    <3>6. UNION {{Instruction(n, k) : k \in Now(n)} : n \in Mapped}
            = (UNION {{Instruction(n, k) : k \in Was(n)} : n \in Mapped}) \cup {i}
      <4>1. ASSUME NEW n \in Mapped, NEW k \in Now(n)
            PROVE  k \in Was(n) \/ Instruction(n, k) = i
        BY <3>5
      <4>2. ASSUME NEW n \in Mapped, NEW k \in Was(n)
            PROVE  k \in Now(n)
        BY <3>5
      <4>3. next - 1 \in Now(at)
        BY <3>5
      <4> HIDE DEF i
      <4>4. i \in UNION {{Instruction(n, k) : k \in Now(n)} : n \in Mapped}
        BY <3>5, <4>3 DEF i
      <4> QED
        BY <4>1, <4>2, <4>4
    <3> QED
      BY <3>3, <3>4, <3>6 DEF Now, Was
  <2>2. CASE kind # "instruction"
    <3>1. mapping'["instruction"] = mapping["instruction"]
      BY <1>3, <2>2 DEF Kinds
    <3>2. ~ InstructionPending
      BY <1>0, <2>2 DEF InstructionPending
    <3>3. \A n : Registered(n)' = Registered(n)
      BY <1>1, <1>5, <1>6, <3>2 DEF Registered
    <3> QED
      BY <3>1, <3>3 DEF BuiltInv
  <2> QED
    BY <2>1, <2>2
<1>9. /\ DOMAIN mapping'["file"].ids \subseteq {functions[n].file : n \in Mapped}
      /\ next = 1 /\ Len(todo') = 1 => functions[at].file \in DOMAIN mapping'["file"].ids
  <2>1. CASE kind = "file"
    <3>1. at \in Mapped /\ functions[at].file \in DOMAIN mapping'["file"].ids
      BY <1>2, <1>3, <1>5, <2>1
    <3> QED
      BY <1>2, <1>3, <2>1, <3>1 DEF BuiltInv
  <2>2. CASE kind # "file"
    <3>1. mapping'["file"] = mapping["file"]
      BY <1>3, <2>2 DEF Kinds
    <3>2. ~ (next = 1 /\ Len(todo) = 2)
      <4>1. ASSUME next = 1, Len(todo) = 2 PROVE FALSE
        <5>1. todo[1].kind = "file" \/ (todo[1].kind = "value" /\ 1 < 2 - 1) \/ 1 = 2
          BY <1>4, <4>1 DEF QueueInv, Thing
        <5> QED
          BY <1>0, <2>2, <5>1
      <4> QED
        BY <4>1
    <3> QED
      BY <1>4, <3>1, <3>2 DEF BuiltInv
  <2> QED
    BY <2>1, <2>2
<1>10. ASSUME NEW n \in Mapped, NEW k \in Complete(n)', Code(n)[k].declares # None
       PROVE  Code(n)[k].declares \in DOMAIN mapping'["variable"].ids
  <2>1. CASE k \in Complete(n)
    <3>1. Code(n)[k].declares \in DOMAIN mapping["variable"].ids
      BY <1>10, <2>1 DEF BuiltInv
    <3> QED
      BY <1>3, <3>1 DEF Kinds
  <2>2. CASE k \notin Complete(n)
    <3>1. n = at /\ k + 1 = next /\ todo' = <<>> /\ k \in Nat /\ k \in DOMAIN Code(at)
      BY <1>1, <1>5, <2>2 DEF Complete
    <3>2. k = next - 1 /\ Len(todo) = 1 /\ next > 1
      <4>1. k # 0
        BY <1>5, <3>1, ModuleIs
      <4> QED
        BY <1>4, <1>5, <3>1, <4>1
    <3>3. todo[1] = Thing("variable", Code(at)[next - 1].declares)
      <4>1. 1 \in DOMAIN todo /\ Code(at)[next - 1].declares # None
        BY <1>4, <1>10, <3>1, <3>2
      <4> QED
        BY <3>2, <4>1 DEF QueueInv
    <3>4. kind = "variable" /\ x = Code(n)[k].declares
      BY <1>0, <3>1, <3>2, <3>3 DEF Thing
    <3> QED
      BY <1>3, <3>4
  <2> QED
    BY <2>1, <2>2
<1> QED
  BY <1>1, <1>5, <1>7, <1>8, <1>9, <1>10 DEF BuiltInv

\* While the mapping is built nothing is written.
LEMMA BuildingWritesNothing ==
  ASSUME IInv, phase = "build", phase' \in {"build", "save", "threw"},
         UNCHANGED << input, gone, saved, collected, rows >>
  PROVE  SavedInv' /\ CollectsMutable' /\ ThrowsEarly' /\ saved' \in Contents \cup {None, Truncated}
BY DEF IInv, SavedInv, CollectsMutable, ThrowsEarly

LEMMA RegisterStep == IInv /\ Register => IInv'
<1> SUFFICES ASSUME IInv, Register PROVE IInv'
  OBVIOUS
<1> USE DEF IInv
<1>0. PICK kind, x : kind = todo[1].kind /\ x = todo[1].thing
  OBVIOUS
<1>1. /\ todo # <<>> /\ UNCHANGED << input, gone, phase, at, next, saved, collected, rows >>
      /\ kind \in Kinds /\ Registers(kind, x)
  BY <1>0, RegisterIs
<1>2. phase = "build"
  BY <1>1 DEF PlaceInv
<1>3. PlaceInv'
  BY <1>1, <1>2 DEF PlaceInv, input, Mapped, HasSource, IsRestricted, Path, Code, functions
<1>4. PathsInv'
  <2>1. mapping'["file"] = mapping["file"] \/ kind = "file"
    BY <1>1 DEF Registers, Kinds
  <2>2. ASSUME kind = "file"
        PROVE  DOMAIN mapping'["file"].ids \subseteq DOMAIN mapping["file"].ids \cup {functions[at].file}
                 /\ next > 0
    BY <1>0, <1>1, <2>2, HeadIs, TablesGrow
  <2>3. \A f \in DOMAIN mapping'["file"].ids : PathOf[f] \in existing
    BY <2>1, <2>2 DEF PathsInv, Path
  <2> QED
    BY <1>1, <2>3 DEF PathsInv, input, HasSource, Path, functions
<1>5. SavedInv' /\ CollectsMutable' /\ ThrowsEarly' /\ saved' \in Contents \cup {None, Truncated}
  BY <1>1, <1>2, BuildingWritesNothing
<1> QED
  BY <1>3, <1>4, <1>5, RegisterTables, RegisterQueue, RegisterBuilt

-------------------------------------------------------------------------------
(* Building goes on.                                                       *)

\* What every step but a registration leaves alone.
LEMMA TablesKept ==
  ASSUME TablesInv, UNCHANGED << module, restrictToFiles, mapping >>
  PROVE  /\ TablesInv' /\ UNCHANGED functions /\ Mapped' = Mapped
         /\ \A n : Code(n)' = Code(n) /\ HasSource(n)' = HasSource(n) /\ Path(n)' = Path(n)
                     /\ IsRestricted(n)' = IsRestricted(n)
<1>1. UNCHANGED functions
  BY DEF functions
<1>2. \A n : /\ Code(n)' = Code(n) /\ HasSource(n)' = HasSource(n)
             /\ Path(n)' = Path(n) /\ IsRestricted(n)' = IsRestricted(n)
  BY <1>1 DEF Code, HasSource, Path, IsRestricted
<1>3. \A kind, x, owner : OwnerIs(kind, x, owner)' <=> OwnerIs(kind, x, owner)
  BY <1>1, <1>2 DEF OwnerIs, Declares
<1>4. TablesInv'
  <2>1. \A kind \in Kinds : \A x \in DOMAIN mapping[kind].ids :
          OwnerIs(kind, x, mapping[kind].infos[mapping[kind].ids[x] + 1].owner)'
    <3> SUFFICES ASSUME NEW kind \in Kinds, NEW x \in DOMAIN mapping[kind].ids
                 PROVE  OwnerIs(kind, x, mapping[kind].infos[mapping[kind].ids[x] + 1].owner)'
      OBVIOUS
    <3>1. PICK owner : owner = mapping[kind].infos[mapping[kind].ids[x] + 1].owner
      OBVIOUS
    <3>2. OwnerIs(kind, x, owner)'
      BY <1>3, <3>1 DEF TablesInv
    <3> QED
      BY <3>1, <3>2 DEF OwnerIs
  <2> QED
    BY <2>1 DEF TablesInv
<1>5. Mapped' = Mapped
  BY <1>1, <1>2 DEF Mapped
<1> QED
  BY <1>1, <1>2, <1>4, <1>5

\* A function that is not to be mapped is passed over.
LEMMA SkipStep ==
  ASSUME IInv, SkipFunction \/ SkipRestricted
  PROVE  IInv'
<1> USE DEF IInv
<1>1. /\ phase = "build" /\ todo = <<>> /\ next = 0 /\ at <= Len(functions)
      /\ at' = at + 1 /\ at \notin Mapped
      /\ HasSource(at) => Path(at) \in existing
      /\ UNCHANGED << input, gone, phase, next, todo, mapping, saved, collected, rows >>
  BY DEF SkipFunction, SkipRestricted, AtFunction, Building, Elsewhere, Exists, Mapped
<1>2. /\ TablesInv' /\ UNCHANGED functions /\ Mapped' = Mapped
      /\ \A n : Code(n)' = Code(n) /\ HasSource(n)' = HasSource(n) /\ Path(n)' = Path(n)
  BY <1>1, TablesKept DEF input
<1>3. /\ at \in Nat /\ Len(functions) \in Nat /\ DOMAIN functions = 1 .. Len(functions)
      /\ \A n \in Mapped : n \in Nat /\ n # at /\ DOMAIN Code(n) \subseteq Nat \ {0}
  BY <1>1, ModuleIs DEF PlaceInv
<1>4. PlaceInv'
  BY <1>1, <1>2, <1>3 DEF PlaceInv, input
<1>5. QueueInv'
  BY <1>1 DEF QueueInv
<1>6. PathsInv'
  BY <1>1, <1>2, <1>3 DEF PathsInv, input
<1>7. \A n \in Mapped : Registered(n)' = Registered(n) /\ Complete(n)' = Complete(n)
  <2>1. \A n \in Mapped : n < at + 1 <=> n < at
    BY <1>3
  <2>2. ASSUME NEW n \in Mapped, NEW k \in DOMAIN Code(n) PROVE ~ (k + 1 < 0) /\ k + 1 # 0
    BY <1>3
  <2> QED
    BY <1>1, <1>2, <1>3, <2>1, <2>2 DEF Registered, Complete
<1>8. BuiltInv'
  <2>1. {n \in Mapped : n < at'} = {n \in Mapped : n < at}
    BY <1>1, <1>3
  <2>2. UNION {{Instruction(n, k) : k \in Registered(n)'} : n \in Mapped}
          = UNION {{Instruction(n, k) : k \in Registered(n)} : n \in Mapped}
    BY <1>7
  <2> QED
    BY <1>1, <1>2, <1>7, <2>1, <2>2 DEF BuiltInv
<1> QED
  BY <1>1, <1>2, <1>4, <1>5, <1>6, <1>8, BuildingWritesNothing

\* The values, the file and the function that are to be registered for a function.
LEMMA BeginFunctionStep == IInv /\ BeginFunction => IInv'
<1> SUFFICES ASSUME IInv, BeginFunction PROVE IInv'
  OBVIOUS
<1> USE DEF IInv
<1> DEFINE formals == [a \in 1 .. functions[at].formals |-> Formal(at, a)]
           values == Each("value", formals)
           rest   == << Thing("file", functions[at].file), Thing("function", at) >>
<1>1. /\ phase = "build" /\ todo = <<>> /\ next = 0 /\ at <= Len(functions)
      /\ HasSource(at) /\ ~ IsRestricted(at) /\ Path(at) \in existing
      /\ next' = 1 /\ todo' = values \o rest
      /\ UNCHANGED << input, gone, phase, at, mapping, saved, collected, rows >>
  BY DEF BeginFunction, AtFunction, Building, Elsewhere, IsMapped, Exists
<1>2. /\ TablesInv' /\ UNCHANGED functions /\ Mapped' = Mapped
      /\ \A n : Code(n)' = Code(n) /\ HasSource(n)' = HasSource(n) /\ Path(n)' = Path(n)
  BY <1>1, TablesKept DEF input
<1>3. /\ at \in Mapped /\ functions[at].formals \in Nat /\ Len(Code(at)) \in Nat
      /\ \A n \in Mapped : n \in Nat /\ DOMAIN Code(n) \subseteq Nat \ {0}
  BY <1>1, ModuleIs DEF PlaceInv, Mapped
<1>4. /\ IsSequence(values) /\ Len(values) \in Nat
      /\ \A j \in 1 .. Len(values) : values[j].kind = "value"
  <2>1. DOMAIN formals = 1 .. functions[at].formals
    OBVIOUS
  <2> HIDE DEF formals
  <2>2. PICK n \in Nat : n = functions[at].formals
    BY <1>3
  <2>3. IsSequence(values) /\ Len(values) = n /\ \A j \in 1 .. n : values[j].kind = "value"
    <3>1. DOMAIN formals = 1 .. n
      BY <2>1, <2>2
    <3> QED
      BY <3>1, EachIs, Zenon
  <2> QED
    BY <2>3
<1>5. /\ IsSequence(rest) /\ Len(rest) = 2
      /\ rest[1] = Thing("file", functions[at].file) /\ rest[2] = Thing("function", at)
  <2>1. rest \in Seq({Thing("file", functions[at].file), Thing("function", at)})
    OBVIOUS
  <2>2. IsSequence(rest)
    BY <2>1, SequenceIs, Zenon
  <2> QED
    BY <2>2
<1> HIDE DEF values, rest
<1>6. /\ IsSequence(todo') /\ Len(todo') = Len(values) + 2 /\ DOMAIN todo' = 1 .. Len(values) + 2
      /\ \A j \in 1 .. Len(values) + 2 :
           todo'[j] = IF j <= Len(values) THEN values[j] ELSE rest[j - Len(values)]
  <2>1. /\ IsSequence(todo') /\ Len(todo') = Len(values) + 2
        /\ \A j \in 1 .. Len(values) + 2 :
             todo'[j] = IF j <= Len(values) THEN values[j] ELSE rest[j - Len(values)]
    <3>1. /\ IsSequence(values \o rest) /\ Len(values \o rest) = Len(values) + Len(rest)
          /\ \A j \in 1 .. Len(values) + Len(rest) :
               (values \o rest)[j] = IF j <= Len(values) THEN values[j] ELSE rest[j - Len(values)]
      BY <1>4, <1>5, JoinedIs, Zenon
    <3> QED
      BY <1>1, <1>5, <3>1
  <2> QED
    BY <2>1, SequenceIs
<1>7. PlaceInv'
  BY <1>1, <1>2, <1>3 DEF PlaceInv, input
<1>8. QueueInv'
  <2>1. ASSUME NEW j \in DOMAIN todo'
        PROVE  \/ todo'[j].kind = "value" /\ j < Len(todo') - 1
               \/ todo'[j] = Thing("file", functions[at].file) /\ j = Len(todo') - 1
               \/ todo'[j] = Thing("function", at) /\ j = Len(todo')
    <3>1. CASE j <= Len(values)
      BY <1>4, <1>6, <3>1
    <3>2. CASE j = Len(values) + 1
      BY <1>4, <1>5, <1>6, <3>2
    <3>3. CASE j = Len(values) + 2
      BY <1>4, <1>5, <1>6, <3>3
    <3> QED
      BY <1>4, <1>6, <3>1, <3>2, <3>3
  <2>2. \A j \in DOMAIN todo' : todo'[j].kind \in Kinds
    BY <2>1 DEF Thing, Kinds
  <2> QED
    BY <1>1, <1>2, <1>6, <2>1, <2>2 DEF QueueInv, Thing
<1>9. PathsInv'
  BY <1>1, <1>2 DEF PathsInv, input
<1>10. \A n \in Mapped : Registered(n)' = Registered(n) /\ Complete(n)' = Complete(n)
  <2>1. ASSUME NEW n \in Mapped, NEW k \in DOMAIN Code(n)
        PROVE  ~ (k + 1 < 0) /\ k + 1 # 0 /\ ~ (k + 1 < 1) /\ k + 1 # 1
    BY <1>3
  <2> QED
    BY <1>1, <1>2, <2>1 DEF Registered, Complete
<1>11. BuiltInv'
  <2>1. todo' # <<>> /\ Len(todo') # 1
    BY <1>4, <1>6, SequenceIs
  <2>2. UNION {{Instruction(n, k) : k \in Registered(n)'} : n \in Mapped}
          = UNION {{Instruction(n, k) : k \in Registered(n)} : n \in Mapped}
    BY <1>10
  <2> QED
    BY <1>1, <1>2, <1>10, <2>1, <2>2 DEF BuiltInv
<1> QED
  BY <1>1, <1>2, <1>7, <1>8, <1>9, <1>11, BuildingWritesNothing

\* The instruction, its values and its variable are to be registered.
LEMMA BuildInstructionStep == IInv /\ BuildInstruction => IInv'
<1> SUFFICES ASSUME IInv, BuildInstruction PROVE IInv'
  OBVIOUS
<1> USE DEF IInv
<1>0. PICK i, ins : i = Instruction(at, next) /\ ins = Code(at)[next]
  OBVIOUS
<1> DEFINE first  == << Thing("instruction", i), Thing("value", i) >>
           uses   == [o \in DOMAIN ins.operands |-> Use(at, next, o)]
           values == Each("value", uses)
           last   == IF ins.declares = None THEN <<>> ELSE << Thing("variable", ins.declares) >>
<1>1. /\ phase = "build" /\ todo = <<>> /\ next > 0 /\ next <= Len(Code(at))
      /\ next' = next + 1 /\ todo' = (first \o values) \o last
      /\ UNCHANGED << input, gone, phase, at, mapping, saved, collected, rows >>
  BY <1>0 DEF BuildInstruction, AtInstruction, Building, Elsewhere
<1>2. /\ TablesInv' /\ UNCHANGED functions /\ Mapped' = Mapped
      /\ \A n : Code(n)' = Code(n) /\ HasSource(n)' = HasSource(n) /\ Path(n)' = Path(n)
  BY <1>1, TablesKept DEF input
<1>3. /\ at \in Mapped /\ at \in Nat /\ next \in Nat /\ next' > 1
      /\ next \in DOMAIN Code(at) /\ Len(Code(at)) \in Nat
      /\ \A n \in Mapped : n \in Nat /\ DOMAIN Code(n) \subseteq Nat \ {0}
  <2> HIDE DEF first, uses, values, last
  <2>1. at \in Mapped /\ at \in Nat /\ next \in Nat
    BY <1>1 DEF PlaceInv
  <2>2. Len(Code(at)) \in Nat /\ DOMAIN Code(at) = 1 .. Len(Code(at))
    BY <2>1, ModuleIs
  <2>3. \A n \in Mapped : n \in Nat /\ DOMAIN Code(n) \subseteq Nat \ {0}
    BY ModuleIs
  <2> QED
    BY <1>1, <2>1, <2>2, <2>3
<1>4. /\ IsSequence(values) /\ Len(values) \in Nat
      /\ \A j \in 1 .. Len(values) : values[j].kind = "value"
  <2>1. IsSequence(ins.operands)
    BY <1>0, <1>3, ModuleIs DEF IsInstruction
  <2>2. PICK n \in Nat : n = Len(ins.operands) /\ DOMAIN ins.operands = 1 .. n
    BY <2>1, SequenceIs
  <2>3. IsSequence(values) /\ Len(values) = n /\ \A j \in 1 .. n : values[j].kind = "value"
    <3>1. DOMAIN uses = 1 .. n
      BY <2>2
    <3> HIDE DEF uses
    <3> QED
      BY <3>1, EachIs, Zenon
  <2> QED
    BY <2>3
<1>5. /\ IsSequence(first) /\ Len(first) = 2
      /\ first[1] = Thing("instruction", i) /\ first[2] = Thing("value", i)
  <2>1. first \in Seq({Thing("instruction", i), Thing("value", i)})
    OBVIOUS
  <2>2. IsSequence(first)
    BY <2>1, SequenceIs, Zenon
  <2> QED
    BY <2>2
<1>6. /\ IsSequence(last) /\ Len(last) = IF ins.declares = None THEN 0 ELSE 1
      /\ ins.declares # None => last[1] = Thing("variable", ins.declares)
  <2> DEFINE v == Thing("variable", ins.declares)
  <2>1. last = IF ins.declares = None THEN <<>> ELSE << v >>
    OBVIOUS
  <2> HIDE DEF v, last
  <2>2. last \in Seq({v})
    <3>1. CASE ins.declares = None
      BY <2>1, <3>1
    <3>2. CASE ins.declares # None
      BY <2>1, <3>2
    <3> QED
      BY <3>1, <3>2
  <2>3. IsSequence(last)
    BY <2>2, SequenceIs, Zenon
  <2>4. Len(last) = (IF ins.declares = None THEN 0 ELSE 1) /\ (ins.declares # None => last[1] = v)
    BY <2>1
  <2> QED
    BY <2>3, <2>4 DEF v
<1> HIDE DEF first, uses, values, last
<1>7. /\ IsSequence(first \o values) /\ Len(first \o values) = 2 + Len(values)
      /\ \A j \in 1 .. 2 + Len(values) :
           (first \o values)[j] = IF j <= 2 THEN first[j] ELSE values[j - 2]
  <2>1. /\ IsSequence(first \o values) /\ Len(first \o values) = Len(first) + Len(values)
        /\ \A j \in 1 .. Len(first) + Len(values) :
             (first \o values)[j] = IF j <= Len(first) THEN first[j] ELSE values[j - Len(first)]
    BY <1>4, <1>5, JoinedIs, Zenon
  <2> QED
    BY <1>5, <2>1
<1> DEFINE most == first \o values
<1>8. /\ IsSequence(todo') /\ Len(todo') = 2 + Len(values) + Len(last)
      /\ DOMAIN todo' = 1 .. 2 + Len(values) + Len(last)
      /\ \A j \in 1 .. 2 + Len(values) + Len(last) :
           todo'[j] = IF j <= 2 + Len(values) THEN most[j] ELSE last[j - (2 + Len(values))]
  <2>1. IsSequence(most) /\ Len(most) = 2 + Len(values) /\ todo' = most \o last
    BY <1>1, <1>7
  <2> HIDE DEF most
  <2>2. /\ IsSequence(most \o last) /\ Len(most \o last) = Len(most) + Len(last)
        /\ \A j \in 1 .. Len(most) + Len(last) :
             (most \o last)[j] = IF j <= Len(most) THEN most[j] ELSE last[j - Len(most)]
    BY <1>6, <2>1, JoinedIs, Zenon
  <2>3. DOMAIN todo' = 1 .. Len(todo')
    BY <2>1, <2>2, SequenceIs
  <2> QED
    BY <2>1, <2>2, <2>3
<1>9. /\ todo' # <<>> /\ Len(todo') > 1 /\ todo'[1] = Thing("instruction", i)
  <2>1. 1 \in DOMAIN todo' /\ Len(todo') > 1
    BY <1>4, <1>6, <1>8
  <2> QED
    BY <1>4, <1>5, <1>7, <1>8, <2>1
<1>10. PlaceInv'
  BY <1>1, <1>2, <1>3 DEF PlaceInv, input
<1>11. QueueInv'
  <2>1. ASSUME NEW j \in DOMAIN todo'
        PROVE  \/ todo'[j].kind = "value" /\ (j = Len(todo') => ins.declares = None)
               \/ todo'[j] = Thing("instruction", i) /\ j = 1 /\ Len(todo') > 1
               \/ todo'[j] = Thing("variable", ins.declares) /\ j = Len(todo') /\ ins.declares # None
    <3>1. CASE j = 1
      BY <1>9, <3>1
    <3>2. CASE j > 1 /\ j <= 2 + Len(values)
      <4>1. todo'[j] = IF j = 2 THEN Thing("value", i) ELSE values[j - 2]
        BY <1>4, <1>5, <1>7, <1>8, <3>2
      <4>2. todo'[j].kind = "value"
        BY <1>4, <1>8, <3>2, <4>1 DEF Thing
      <4>3. ins.declares # None => j # Len(todo')
        BY <1>4, <1>6, <1>8, <3>2
      <4> QED
        BY <4>2, <4>3
    <3>3. CASE j > 2 + Len(values)
      <4>1. ins.declares # None /\ j = 3 + Len(values) /\ j = Len(todo')
        BY <1>4, <1>6, <1>8, <3>3
      <4>2. j - (2 + Len(values)) = 1
        BY <1>4, <4>1
      <4>3. todo'[j] = last[1]
        BY <1>8, <3>3, <4>2, <1>4
      <4> QED
        BY <1>6, <4>1, <4>3
    <3> QED
      BY <1>4, <1>8, <3>1, <3>2, <3>3
  <2>2. \A j \in DOMAIN todo' : todo'[j].kind \in Kinds
    BY <2>1 DEF Thing, Kinds
  <2>3. next' - 1 = next
    BY <1>1, <1>3
  <2>4. i = Instruction(at, next - 1)' /\ ins = Code(at)'[next' - 1]
    BY <1>0, <1>1, <1>2, <2>3 DEF Instruction, Code
  <2>5. IsSequence(todo)' /\ ~ (next' = 0) /\ ~ (next' = 1)
    BY <1>3, <1>8 DEF IsSequence
  <2>6. ASSUME NEW j \in DOMAIN todo', NEW variable, variable = Code(at)'[next' - 1].declares
        PROVE  \/ todo'[j].kind = "value" /\ (j = Len(todo') => variable = None)
               \/ todo'[j] = Thing("instruction", Instruction(at, next - 1)') /\ j = 1 /\ Len(todo') > 1
               \/ todo'[j] = Thing("variable", variable) /\ j = Len(todo') /\ variable # None
    BY <2>1, <2>4, <2>6
  <2> QED
    BY <2>2, <2>5, <2>6 DEF QueueInv, Thing
<1>12. PathsInv'
  BY <1>1, <1>2, <1>3 DEF PathsInv, input
<1>13. InstructionPending'
  BY <1>9 DEF InstructionPending, Thing
<1>14. \A n \in Mapped : Registered(n)' = Registered(n) /\ Complete(n)' = Complete(n)
  <2>1. ASSUME NEW n \in Mapped, NEW k \in DOMAIN Code(n)
        PROVE  k + 1 < next + 1 <=> k + 1 < next \/ k + 1 = next
    BY <1>3
  <2>2. ~ InstructionPending
    BY <1>1 DEF InstructionPending
  <2> QED
    BY <1>1, <1>2, <1>9, <1>13, <2>1, <2>2 DEF Registered, Complete
<1>15. BuiltInv'
  <2>1. next' # 1 /\ (next > 1 \/ next = 1)
    BY <1>1, <1>3
  <2>2. UNION {{Instruction(n, k) : k \in Registered(n)'} : n \in Mapped}
          = UNION {{Instruction(n, k) : k \in Registered(n)} : n \in Mapped}
    BY <1>14
  <2> QED
    BY <1>1, <1>2, <1>3, <1>14, <2>1, <2>2 DEF BuiltInv
<1> QED
  BY <1>1, <1>2, <1>10, <1>11, <1>12, <1>15, BuildingWritesNothing

\* All of the function has been registered.
LEMMA EndFunctionStep == IInv /\ EndFunction => IInv'
<1> SUFFICES ASSUME IInv, EndFunction PROVE IInv'
  OBVIOUS
<1> USE DEF IInv
<1>1. /\ phase = "build" /\ todo = <<>> /\ next > 0 /\ next > Len(Code(at))
      /\ at' = at + 1 /\ next' = 0
      /\ UNCHANGED << input, gone, phase, todo, mapping, saved, collected, rows >>
  BY DEF EndFunction, Building, Elsewhere
<1>2. /\ TablesInv' /\ UNCHANGED functions /\ Mapped' = Mapped
      /\ \A n : Code(n)' = Code(n) /\ HasSource(n)' = HasSource(n) /\ Path(n)' = Path(n)
  BY <1>1, TablesKept DEF input
<1>3. /\ at \in Mapped /\ at \in Nat /\ next \in Nat /\ next = Len(Code(at)) + 1
      /\ Len(functions) \in Nat /\ DOMAIN functions = 1 .. Len(functions)
      /\ at \in DOMAIN functions /\ DOMAIN Code(at) = 1 .. Len(Code(at))
      /\ \A n \in Mapped : n \in Nat /\ DOMAIN Code(n) \subseteq Nat \ {0}
  <2>1. at \in Mapped /\ at \in Nat /\ next \in Nat /\ next <= Len(Code(at)) + 1
    BY <1>1 DEF PlaceInv
  <2> QED
    BY <1>1, <2>1, ModuleIs
<1>4. PlaceInv'
  BY <1>1, <1>2, <1>3 DEF PlaceInv, input
<1>5. QueueInv'
  BY <1>1 DEF QueueInv
<1>6. PathsInv'
  BY <1>1, <1>2, <1>3 DEF PathsInv, input
<1>7. \A n \in Mapped : Registered(n)' = Registered(n) /\ Complete(n)' = Complete(n)
  <2>1. \A n \in Mapped : n < at + 1 <=> n < at \/ n = at
    BY <1>3
  <2>2. ASSUME NEW n \in Mapped, NEW k \in DOMAIN Code(n)
        PROVE  /\ ~ (k + 1 < 0) /\ k + 1 # 0
               /\ n = at => k + 1 < next \/ k + 1 = next
    BY <1>3
  <2>3. ~ InstructionPending
    BY <1>1 DEF InstructionPending
  <2> QED
    BY <1>1, <1>2, <2>1, <2>2, <2>3 DEF Registered, Complete
<1>8. BuiltInv'
  <2>1. {n \in Mapped : n < at'} = {n \in Mapped : n < at \/ n = at}
    <3>1. \A n \in Mapped : n < at' <=> n < at \/ n = at
      BY <1>1, <1>3
    <3> QED
      BY <3>1
  <2>2. next > 1 \/ next = 1
    BY <1>1, <1>3
  <2>3. UNION {{Instruction(n, k) : k \in Registered(n)'} : n \in Mapped}
          = UNION {{Instruction(n, k) : k \in Registered(n)} : n \in Mapped}
    BY <1>7
  <2> QED
    BY <1>1, <1>2, <1>7, <2>1, <2>2, <2>3 DEF BuiltInv
<1> QED
  BY <1>1, <1>2, <1>4, <1>5, <1>6, <1>8, BuildingWritesNothing

-------------------------------------------------------------------------------
(* What follows the building.                                              *)

LEMMA PlaceKept ==
  ASSUME PlaceInv, TablesInv, QueueInv, BuiltInv, PathsInv,
         UNCHANGED << input, at, next, todo, mapping >>
  PROVE  /\ TablesInv' /\ QueueInv' /\ BuiltInv' /\ PathsInv'
         /\ UNCHANGED functions /\ Mapped' = Mapped
         /\ \A n : Code(n)' = Code(n) /\ HasSource(n)' = HasSource(n) /\ Path(n)' = Path(n)
                     /\ IsRestricted(n)' = IsRestricted(n)
         /\ \A kind \in {"file", "function", "instruction"} : RowsOf(kind)' = RowsOf(kind)
<1>1. /\ TablesInv' /\ UNCHANGED functions /\ Mapped' = Mapped
      /\ \A n : Code(n)' = Code(n) /\ HasSource(n)' = HasSource(n) /\ Path(n)' = Path(n)
                  /\ IsRestricted(n)' = IsRestricted(n)
  BY TablesKept DEF input
<1>2. QueueInv'
  BY <1>1 DEF QueueInv, Code
<1>3. BuiltInv'
  <2>1. InstructionPending' <=> InstructionPending
    BY DEF InstructionPending
  <2>2. \A n : Registered(n)' = Registered(n) /\ Complete(n)' = Complete(n)
    BY <1>1, <2>1 DEF Registered, Complete
  <2> QED
    BY <1>1, <2>2 DEF BuiltInv
<1>4. PathsInv'
  BY <1>1 DEF PathsInv, input
<1>5. \A kind \in {"file", "function", "instruction"} : RowsOf(kind)' = RowsOf(kind)
  BY <1>1 DEF RowsOf, FileRow, FunctionRow, InstructionRow
<1> QED
  BY <1>1, <1>2, <1>3, <1>4, <1>5

\* Every Info, where it is and whose it is.
LEMMA InfoIs ==
  ASSUME TablesInv, NEW kind \in Kinds, NEW k \in DOMAIN mapping[kind].infos,
         NEW info, info = mapping[kind].infos[k]
  PROVE  /\ k \in Nat /\ info.id = k - 1 /\ info.id \in Nat
         /\ info.thing \in DOMAIN mapping[kind].ids
         /\ OwnerIs(kind, info.thing, info.owner)
<1>1. /\ info.thing \in DOMAIN mapping[kind].ids /\ mapping[kind].ids[info.thing] = k - 1
      /\ k \in Nat
  <2>1. IsTable(mapping[kind])
    BY DEF TablesInv
  <2>2. IsSequence(mapping[kind].infos)
    BY <2>1 DEF IsTable
  <2>3. k \in Nat
    BY <2>2, SequenceIs
  <2> QED
    BY <2>1, <2>3 DEF IsTable
<1>2. mapping[kind].ids[info.thing] + 1 = k
  BY <1>1
<1>3. info.id = k - 1 /\ info.id \in Nat
  <2>1. \A x \in DOMAIN mapping[kind].ids :
          /\ mapping[kind].ids[x] \in Nat
          /\ mapping[kind].infos[mapping[kind].ids[x] + 1].id = mapping[kind].ids[x]
    BY DEF TablesInv, IsTable
  <2> QED
    BY <1>1, <1>2, <2>1
<1>4. OwnerIs(kind, info.thing, info.owner)
  BY <1>1, <1>2 DEF TablesInv
<1> QED
  BY <1>1, <1>3, <1>4

\* The numbers in the tables are numbers.
LEMMA IdsAreNumbers ==
  ASSUME TablesInv, NEW kind \in Kinds, NEW x \in DOMAIN mapping[kind].ids
  PROVE  mapping[kind].ids[x] \in Nat
BY DEF TablesInv, IsTable

\* What save() makes of the tables is a whole mapping.
LEMMA RowsAreContents ==
  ASSUME PlaceInv, TablesInv, BuiltInv
  PROVE  [files        |-> RowsOf("file"),
          functions    |-> RowsOf("function"),
          instructions |-> RowsOf("instruction")] \in Contents
<1>1. \A kind \in Kinds : /\ Len(mapping[kind].infos) \in Nat
                          /\ DOMAIN mapping[kind].infos = 1 .. Len(mapping[kind].infos)
  BY SequenceIs DEF TablesInv, IsTable
<1>2. RowsOf("file") \in Seq([id : Nat, path : Paths])
  <2>1. RowsOf("file") = [k \in 1 .. Len(mapping["file"].infos) |-> FileRow(mapping["file"].infos[k])]
    BY <1>1 DEF RowsOf, Kinds
  <2>2. ASSUME NEW k \in 1 .. Len(mapping["file"].infos)
        PROVE  FileRow(mapping["file"].infos[k]) \in [id : Nat, path : Paths]
    <3>1. PICK info : info = mapping["file"].infos[k]
      OBVIOUS
    <3>2. info.id \in Nat /\ info.thing \in DOMAIN mapping["file"].ids
      BY <1>1, <3>1, InfoIs DEF Kinds
    <3>3. PICK n \in Mapped : info.thing = functions[n].file
      BY <3>2 DEF BuiltInv
    <3>4. info.thing \in DOMAIN PathOf
      BY <3>3, ModuleIs DEF Mapped, HasSource
    <3> QED
      BY <3>1, <3>2, <3>4, PathOfAssumption DEF FileRow
  <2>3. Len(mapping["file"].infos) \in Nat
    BY <1>1 DEF Kinds
  <2> QED
    BY <2>1, <2>2, <2>3, ListIs
<1>3. RowsOf("function") \in Seq([id : Nat, name : Nat, file : Nat])
  <2>1. RowsOf("function") = [k \in 1 .. Len(mapping["function"].infos) |-> FunctionRow(mapping["function"].infos[k])]
    BY <1>1 DEF RowsOf, Kinds
  <2>2. ASSUME NEW k \in 1 .. Len(mapping["function"].infos)
        PROVE  FunctionRow(mapping["function"].infos[k]) \in [id : Nat, name : Nat, file : Nat]
    <3>1. PICK info : info = mapping["function"].infos[k]
      OBVIOUS
    <3>2. /\ info.id \in Nat /\ info.thing \in DOMAIN mapping["function"].ids
          /\ OwnerIs("function", info.thing, info.owner)
      BY <1>1, <3>1, InfoIs DEF Kinds
    <3>3. info.thing \in Nat
      BY <3>2, ModuleIs DEF BuiltInv
    <3>4. info.owner \in Nat
      BY <3>2, IdsAreNumbers DEF OwnerIs, Kinds
    <3> QED
      BY <3>1, <3>2, <3>3, <3>4 DEF FunctionRow
  <2>3. Len(mapping["function"].infos) \in Nat
    BY <1>1 DEF Kinds
  <2> QED
    BY <2>1, <2>2, <2>3, ListIs
<1>4. RowsOf("instruction") \in
        Seq([id : Nat, function : Nat, implicit : BOOLEAN, line : Nat \cup {None}])
  <2>1. RowsOf("instruction") = [k \in 1 .. Len(mapping["instruction"].infos) |-> InstructionRow(mapping["instruction"].infos[k])]
    BY <1>1 DEF RowsOf, Kinds
  <2>2. ASSUME NEW k \in 1 .. Len(mapping["instruction"].infos)
        PROVE  InstructionRow(mapping["instruction"].infos[k]) \in
                 [id : Nat, function : Nat, implicit : BOOLEAN, line : Nat \cup {None}]
    <3>1. PICK info : info = mapping["instruction"].infos[k]
      OBVIOUS
    <3>2. /\ info.id \in Nat /\ info.thing \in DOMAIN mapping["instruction"].ids
          /\ OwnerIs("instruction", info.thing, info.owner)
      BY <1>1, <3>1, InfoIs DEF Kinds
    <3>3. PICK n, l : n \in Mapped /\ l \in Registered(n) /\ info.thing = Instruction(n, l)
      BY <3>2 DEF BuiltInv
    <3>4. Code(n)[l].line \in Nat \cup {None}
      BY <3>3, ModuleIs DEF IsInstruction, Registered
    <3>5. info.owner \in Nat
      BY <3>2, IdsAreNumbers DEF OwnerIs, Kinds
    <3>6. info.thing[2] = n /\ info.thing[3] = l
      BY <3>3, InstructionIs
    <3>7. InstructionRow(info) =
            [id |-> info.id, function |-> info.owner,
             implicit |-> Code(n)[l].line = None, line |-> Code(n)[l].line]
      BY <3>6 DEF InstructionRow
    <3> QED
      BY <3>1, <3>2, <3>4, <3>5, <3>7
  <2>3. Len(mapping["instruction"].infos) \in Nat
    BY <1>1 DEF Kinds
  <2> QED
    BY <2>1, <2>2, <2>3, ListIs
<1> QED
  BY <1>2, <1>3, <1>4 DEF Contents

\* The steps that lead from one phase to the next, and what happens outside.
LEMMA BuiltStep == IInv /\ (Built \/ PathThrows) => IInv'
<1> SUFFICES ASSUME IInv, Built \/ PathThrows PROVE IInv'
  OBVIOUS
<1> USE DEF IInv
<1>1. /\ phase = "build" /\ todo = <<>>
      /\ \/ phase' = "threw"
         \/ phase' = "save" /\ at > Len(functions)
      /\ UNCHANGED << input, gone, at, next, todo, mapping, saved, collected, rows >>
  BY DEF Built, PathThrows, AtFunction, Building, Elsewhere, place
<1>2. PlaceInv'
  <2>1. /\ Len(functions) \in Nat /\ at \in 1 .. Len(functions) + 1 /\ next \in Nat
        /\ next > 0 => at \in 1 .. Len(functions)
    BY ModuleIs DEF PlaceInv
  <2>2. at > Len(functions) => at = Len(functions) + 1 /\ next = 0
    BY <2>1
  <2>3. phase' \in Phases
    BY <1>1 DEF Phases
  <2>4. UNCHANGED functions /\ Mapped' = Mapped /\ \A n : Code(n)' = Code(n)
    BY <1>1, PlaceKept
  <2> QED
    BY <1>1, <2>2, <2>3, <2>4 DEF PlaceInv, input
<1> QED
  BY <1>1, <1>2, PlaceKept, BuildingWritesNothing

\* Where a run is after the building.
LEMMA AfterBuilding ==
  ASSUME PlaceInv, TablesInv, QueueInv, BuiltInv, PathsInv, phase # "build",
         phase' \in {"write", "collect", "mutate", "done", "threw"},
         phase \in {"save", "write", "collect", "mutate"},
         UNCHANGED << input, gone, at, next, todo, mapping >>
  PROVE  PlaceInv' /\ TablesInv' /\ QueueInv' /\ BuiltInv' /\ PathsInv'
<1>1. UNCHANGED functions /\ Mapped' = Mapped /\ \A n : Code(n)' = Code(n)
  BY PlaceKept
<1>2. PlaceInv'
  BY <1>1 DEF PlaceInv, input, Phases
<1> QED
  BY <1>2, PlaceKept

\* The mapping of the whole module has the instructions of all its functions.
LEMMA AllRegistered ==
  ASSUME PlaceInv, BuiltInv, phase \in {"collect", "mutate"}
  PROVE  DOMAIN mapping["instruction"].ids = UNION {InstructionsOf(n) : n \in Mapped}
<1>1. at = Len(functions) + 1
  BY DEF PlaceInv
<1>2. ASSUME NEW n \in Mapped PROVE Registered(n) = DOMAIN Code(n)
  <2>1. n < at
    BY <1>1, ModuleIs
  <2> QED
    BY <2>1 DEF Registered
<1>3. UNION {{Instruction(n, k) : k \in Registered(n)} : n \in Mapped}
        = UNION {InstructionsOf(n) : n \in Mapped}
  BY <1>2 DEF InstructionsOf
<1> QED
  BY <1>3 DEF BuiltInv

LEMMA OpenMappingStep == IInv /\ OpenMapping => IInv'
<1> SUFFICES ASSUME IInv, OpenMapping PROVE IInv'
  OBVIOUS
<1> USE DEF IInv
<1>1. /\ phase = "save" /\ phase' = "write" /\ saved' = Truncated
      /\ UNCHANGED << input, gone, at, next, todo, mapping, collected, rows >>
  BY DEF OpenMapping, place
<1>2. PlaceInv' /\ TablesInv' /\ QueueInv' /\ BuiltInv' /\ PathsInv'
  BY <1>1, AfterBuilding
<1>3. SavedInv' /\ CollectsMutable' /\ ThrowsEarly'
  BY <1>1 DEF SavedInv, CollectsMutable, ThrowsEarly
<1> QED
  BY <1>1, <1>2, <1>3

\* A file of the mapping is gone only if it has disappeared since.
LEMMA SaveThrowsStep == IInv /\ SaveThrows => IInv'
<1> SUFFICES ASSUME IInv, SaveThrows PROVE IInv'
  OBVIOUS
<1> USE DEF IInv
<1>1. /\ phase = "write" /\ phase' = "threw" /\ ~ FilesExist
      /\ UNCHANGED << input, gone, at, next, todo, mapping, saved, collected, rows >>
  BY DEF SaveThrows, Elsewhere, place
<1>2. PlaceInv' /\ TablesInv' /\ QueueInv' /\ BuiltInv' /\ PathsInv'
  BY <1>1, AfterBuilding
<1>3. gone # {}
  BY <1>1 DEF FilesExist, Exists, PathsInv
<1>4. SavedInv' /\ CollectsMutable' /\ ThrowsEarly'
  BY <1>1, <1>3 DEF SavedInv, CollectsMutable, ThrowsEarly
<1> QED
  BY <1>1, <1>2, <1>4

LEMMA SaveStep == IInv /\ Save => IInv'
<1> SUFFICES ASSUME IInv, Save PROVE IInv'
  OBVIOUS
<1> USE DEF IInv
<1>1. /\ phase = "write" /\ phase' = "collect"
      /\ saved' = [files        |-> RowsOf("file"),
                   functions    |-> RowsOf("function"),
                   instructions |-> RowsOf("instruction")]
      /\ UNCHANGED << input, gone, at, next, todo, mapping, collected, rows >>
  BY DEF Save, place
<1>2. PlaceInv' /\ TablesInv' /\ QueueInv' /\ BuiltInv' /\ PathsInv'
  BY <1>1, AfterBuilding
<1>3. saved' \in Contents
  BY <1>1, RowsAreContents
<1>4. SavedInv'
  <2>1. \A kind \in {"file", "function", "instruction"} : RowsOf(kind)' = RowsOf(kind)
    BY <1>1, PlaceKept
  <2> QED
    BY <1>1, <2>1 DEF SavedInv
<1>5. CollectsMutable' /\ ThrowsEarly'
  BY <1>1 DEF CollectsMutable, ThrowsEarly
<1> QED
  BY <1>2, <1>3, <1>4, <1>5

\* A file that was there for the mapping is gone only if it has disappeared since.
LEMMA CollectThrowsStep == IInv /\ CollectThrows => IInv'
<1> SUFFICES ASSUME IInv, CollectThrows PROVE IInv'
  OBVIOUS
<1> USE DEF IInv
<1>1. /\ phase = "collect" /\ phase' = "threw" /\ ~ PathsExist
      /\ UNCHANGED << input, gone, at, next, todo, mapping, saved, collected, rows >>
  BY DEF CollectThrows, Elsewhere, place
<1>2. PlaceInv' /\ TablesInv' /\ QueueInv' /\ BuiltInv' /\ PathsInv'
  BY <1>1, AfterBuilding
<1>3. saved \in Contents
  BY <1>1, RowsAreContents DEF SavedInv
<1>4. ThrowsEarly'
  <2>1. SUFFICES ASSUME gone = {}
                 PROVE  \E n \in DOMAIN functions : /\ functions[n].linkage # "defined"
                                                    /\ functions[n].file # None /\ ~ Exists(Path(n))
    <3>1. saved # Truncated
      BY <1>3, SavedAssumption
    <3> QED
      BY <1>1, <2>1, <3>1 DEF ThrowsEarly, input, functions, Exists, Path
  <2>2. PICK n \in DOMAIN functions : functions[n].file # None /\ ~ Exists(Path(n))
    BY <1>1 DEF PathsExist
  <2>3. Path(n) \notin existing
    BY <2>1, <2>2 DEF Exists
  <2>4. n < at
    BY <1>1, ModuleIs DEF PlaceInv
  <2>5. ~ HasSource(n)
    BY <2>3, <2>4 DEF PathsInv
  <2> QED
    BY <2>2, <2>5 DEF HasSource
<1>5. SavedInv' /\ CollectsMutable'
  BY <1>1 DEF SavedInv, CollectsMutable
<1> QED
  BY <1>1, <1>2, <1>4, <1>5

\* DebugInfoFilter keeps what the mapping has; the mapping has what has a body
\* here; and the other filters are the ones that CollectsMutable names.
LEMMA CollectStep == IInv /\ Collect => IInv'
<1> SUFFICES ASSUME IInv, Collect PROVE IInv'
  OBVIOUS
<1> USE DEF IInv
<1> DEFINE Listed == {n \in Mapped : IsListed(n)}
           Right(i) == Calls(i) \in {"nothing", "function"}
<1>1. /\ phase = "collect" /\ phase' = "mutate"
      /\ collected' = {i \in MutableInstructions : PassesFilters(i)}
      /\ UNCHANGED << input, gone, at, next, todo, mapping, saved, rows >>
  BY DEF Collect, place
<1>2. PlaceInv' /\ TablesInv' /\ QueueInv' /\ BuiltInv' /\ PathsInv'
  BY <1>1, AfterBuilding
<1>3. DOMAIN mapping["instruction"].ids = UNION {InstructionsOf(n) : n \in Mapped}
  BY <1>1, AllRegistered
<1>4. collected' = {i \in UNION {InstructionsOf(n) : n \in Listed} : Right(i)}
  <2>1. ASSUME NEW i \in MutableInstructions, PassesFilters(i)
        PROVE  i \in UNION {InstructionsOf(n) : n \in Listed} /\ Right(i)
    <3>1. i \in DOMAIN mapping["instruction"].ids /\ IsListed(i[2])
          /\ Calls(i) \notin {"indirect", "loader"}
      BY <2>1 DEF PassesFilters, hasInfo, FunctionFilter, InstrumentationFilter
    <3>2. PICK n \in Mapped : \E k \in DOMAIN Code(n) : i = << "instruction", n, k >>
      BY <1>3, <3>1 DEF InstructionsOf, Instruction
    <3>3. i \in InstructionsOf(n) /\ IsListed(n) /\ i[2] = n /\ i[3] \in DOMAIN Code(n)
      BY <3>1, <3>2 DEF InstructionsOf, Instruction
    <3>4. Calls(i) \in {"nothing", "function", "indirect", "loader"}
      BY <3>2, <3>3, ModuleIs DEF IsInstruction, Calls
    <3> QED
      BY <3>1, <3>2, <3>3, <3>4
  <2>2. ASSUME NEW n \in Listed, NEW i \in InstructionsOf(n), Right(i)
        PROVE  i \in MutableInstructions /\ PassesFilters(i)
    <3>1. i[2] = n
      BY <2>2 DEF InstructionsOf, Instruction
    <3>2. n \in DOMAIN functions /\ isMutable(n)
      BY <2>2 DEF isMutable, Mapped, HasSource
    <3>3. hasInfo(i)
      BY <1>3, <2>2 DEF hasInfo
    <3> QED
      BY <2>2, <3>1, <3>2, <3>3
         DEF MutableInstructions, PassesFilters, FunctionFilter, InstrumentationFilter
  <2> HIDE DEF Listed, Right
  <2> QED
    BY <1>1, <2>1, <2>2
<1>5. /\ \A kind \in {"file", "function", "instruction"} : RowsOf(kind)' = RowsOf(kind)
      /\ Mapped' = Mapped /\ \A n : Code(n)' = Code(n)
  BY <1>1, PlaceKept
<1>6. CollectsMutable'
  <2>1. /\ \A n : InstructionsOf(n)' = InstructionsOf(n) /\ IsListed(n)' = IsListed(n)
        /\ \A i : Calls(i)' = Calls(i)
    BY <1>1, <1>5 DEF InstructionsOf, IsListed, Calls, input
  <2>2. Listed = {m \in DOMAIN functions' :
                    HasSource(m)' /\ ~ IsRestricted(m)' /\ IsListed(m)'}
    BY <1>5, <2>1 DEF Mapped
  <2> HIDE DEF Listed
  <2> QED
    BY <1>4, <2>1, <2>2 DEF CollectsMutable
<1>7. SavedInv'
  <2>1. collected' \subseteq DOMAIN mapping["instruction"].ids
    BY <1>1 DEF PassesFilters, hasInfo
  <2> QED
    BY <1>1, <1>5, <2>1 DEF SavedInv
<1>8. ThrowsEarly'
  BY <1>1 DEF ThrowsEarly
<1> QED
  BY <1>1, <1>2, <1>6, <1>7, <1>8

\* What has been collected stays what may be mutated.
LEMMA CollectedKept ==
  ASSUME CollectsMutable, UNCHANGED << input, collected >>,
         phase' \in {"mutate", "done"} => phase \in {"mutate", "done"}
  PROVE  CollectsMutable'
<1>1. /\ UNCHANGED functions
      /\ \A n : /\ InstructionsOf(n)' = InstructionsOf(n) /\ HasSource(n)' = HasSource(n)
                /\ IsRestricted(n)' = IsRestricted(n) /\ IsListed(n)' = IsListed(n)
      /\ \A i : Calls(i)' = Calls(i)
  BY DEF input, functions, InstructionsOf, Code, HasSource, IsRestricted, IsListed, Path, Calls
<1> QED
  BY <1>1 DEF CollectsMutable, input

\* What has been collected is in the mapping, so that looking it up enters
\* nothing.
LEMMA LookupIs ==
  ASSUME PlaceInv, TablesInv, SavedInv, NEW i, Row(i)
  PROVE  mapping' = mapping
<1>1. /\ i \in DOMAIN mapping["instruction"].ids
      /\ IsTable(mapping["instruction"]) /\ mapping = [kind \in Kinds |-> mapping[kind]]
  BY DEF Row, SavedInv, TablesInv, Kinds
<1>2. Emplaced(mapping["instruction"].ids, i, 0) = mapping["instruction"].ids
  <2>1. DOMAIN mapping["instruction"].ids \cup {i} = DOMAIN mapping["instruction"].ids
    BY <1>1
  <2> QED
    BY <1>1, <2>1 DEF Emplaced, IsTable
<1>3. mapping' = [mapping EXCEPT !["instruction"].ids = mapping["instruction"].ids]
  BY <1>2 DEF Row
<1>4. [mapping["instruction"] EXCEPT !.ids = mapping["instruction"].ids] = mapping["instruction"]
  BY <1>1 DEF IsTable
<1> QED
  BY <1>1, <1>3, <1>4 DEF Kinds

LEMMA RowStep == ASSUME IInv, NEW i, Row(i) PROVE IInv'
<1> USE DEF IInv
<1>1. /\ phase = "mutate" /\ i \in collected /\ mapping' = mapping
      /\ UNCHANGED << input, gone, phase, at, next, todo, saved, collected >>
  BY LookupIs DEF Row, place
<1>2. rows' = rows \cup {[instruction |-> i, id |-> mapping["instruction"].ids[i]]}
  <2>1. i \in DOMAIN mapping["instruction"].ids
    BY <1>1 DEF SavedInv
  <2> QED
    BY <2>1 DEF Row, Emplaced
<1>3. PlaceInv' /\ TablesInv' /\ QueueInv' /\ BuiltInv' /\ PathsInv'
  BY <1>1, AfterBuilding
<1>4. \A kind \in {"file", "function", "instruction"} : RowsOf(kind)' = RowsOf(kind)
  BY <1>1, PlaceKept
<1>5. SavedInv'
  BY <1>1, <1>2, <1>4 DEF SavedInv
<1>6. CollectsMutable' /\ ThrowsEarly'
  BY <1>1, CollectedKept DEF ThrowsEarly
<1> QED
  BY <1>1, <1>3, <1>5, <1>6

\* The run ends, a file disappears, or nothing happens.
LEMMA OtherStep == IInv /\ (Mutated \/ PathDisappears \/ UNCHANGED vars) => IInv'
<1> SUFFICES ASSUME IInv, Mutated \/ PathDisappears \/ UNCHANGED vars PROVE IInv'
  OBVIOUS
<1> USE DEF IInv
<1>1. /\ UNCHANGED << input, at, next, todo, mapping, saved, collected, rows >>
      /\ \/ phase = "mutate" /\ phase' = "done" /\ gone' = gone
         \/ phase' = phase /\ gone' = gone
         \/ phase' = phase /\ gone' # {} /\ gone' \subseteq existing
  BY DEF Mutated, PathDisappears, Elsewhere, place, vars, PlaceInv
<1>2. /\ TablesInv' /\ QueueInv' /\ BuiltInv' /\ PathsInv'
      /\ UNCHANGED functions /\ Mapped' = Mapped /\ \A n : Code(n)' = Code(n)
      /\ \A n : Path(n)' = Path(n)
      /\ \A kind \in {"file", "function", "instruction"} : RowsOf(kind)' = RowsOf(kind)
  BY <1>1, PlaceKept
<1>3. PlaceInv'
  BY <1>1, <1>2 DEF PlaceInv, input, Phases
<1>4. SavedInv'
  BY <1>1, <1>2 DEF SavedInv
<1>5. CollectsMutable'
  BY <1>1, CollectedKept
<1>6. ThrowsEarly'
  BY <1>1, <1>2 DEF ThrowsEarly, Exists, input
<1> QED
  BY <1>1, <1>2, <1>3, <1>4, <1>5, <1>6

LEMMA InitIInv == Init => IInv
<1> SUFFICES ASSUME Init PROVE IInv
  OBVIOUS
<1> DEFINE globals == [g \in DOMAIN module.globals |-> GlobalValue(module.globals[g])]
<1>1. /\ module \in Modules /\ gone = {} /\ phase = "build" /\ at = 1 /\ next = 0
      /\ todo = Each("value", globals)
      /\ mapping = [kind \in Kinds |-> [infos |-> <<>>, ids |-> <<>>]]
      /\ saved = None /\ collected = {} /\ rows = {}
  BY DEF Init
<1>2. /\ IsSequence(todo) /\ \A j \in DOMAIN todo : todo[j].kind = "value"
  <2>1. PICK n \in Nat : DOMAIN module.globals = 1 .. n
    <3>1. IsSequence(module.globals)
      BY <1>1, ModulesAssumption
    <3> QED
      BY <3>1, SequenceIs
  <2>2. DOMAIN globals = 1 .. n
    BY <2>1
  <2> HIDE DEF globals
  <2>3. /\ IsSequence(Each("value", globals)) /\ Len(Each("value", globals)) = n
        /\ \A j \in 1 .. n : Each("value", globals)[j].kind = "value"
    BY <2>2, EachIs, Zenon
  <2>4. DOMAIN Each("value", globals) = 1 .. n
    BY <2>3, SequenceIs
  <2> QED
    BY <1>1, <2>3, <2>4
<1>3. PlaceInv
  <2>1. Len(functions) \in Nat
    <3>1. IsSequence(functions)
      BY <1>1, ModulesAssumption DEF functions
    <3> QED
      BY <3>1, SequenceIs
  <2> QED
    BY <1>1, <2>1 DEF PlaceInv, Phases
<1>4. TablesInv
  <2>1. IsTable([infos |-> <<>>, ids |-> <<>>])
    <3>1. <<>> \in Seq({}) /\ DOMAIN <<>> = {} /\ Len(<<>>) = 0
      OBVIOUS
    <3>2. IsSequence(<<>>)
      BY <3>1, SequenceIs, Zenon
    <3> QED
      BY <3>1, <3>2, FS_EmptySet DEF IsTable
  <2>2. \A kind \in Kinds : DOMAIN mapping[kind].ids = {}
    BY <1>1
  <2> QED
    BY <1>1, <2>1, <2>2 DEF TablesInv
<1>5. QueueInv
  BY <1>1, <1>2 DEF QueueInv, Kinds
<1>6. BuiltInv
  <2>1. \A n \in Mapped : n \in Nat /\ ~ (n < at)
    BY <1>1, <1>3, ModuleIs
  <2>2. \A n \in Mapped : \A k \in DOMAIN Code(n) : ~ (k + 1 < next) /\ k + 1 # next
    BY <1>1, <1>3, ModuleIs
  <2>3. \A n \in Mapped : Registered(n) = {} /\ Complete(n) = {}
    BY <2>1, <2>2 DEF Registered, Complete
  <2>4. /\ DOMAIN mapping["function"].ids = {} /\ DOMAIN mapping["instruction"].ids = {}
        /\ DOMAIN mapping["file"].ids = {}
    BY <1>1 DEF Kinds
  <2>5. \A n \in Mapped : ~ (n < at \/ (n = at /\ (next > 1 \/ (next = 1 /\ todo = <<>>))))
    BY <1>1, <2>1
  <2>6. UNION {{Instruction(n, k) : k \in Registered(n)} : n \in Mapped} = {}
    BY <2>3
  <2>7. DOMAIN mapping["function"].ids =
          {n \in Mapped : n < at \/ (n = at /\ (next > 1 \/ (next = 1 /\ todo = <<>>)))}
    BY <2>4, <2>5
  <2> QED
    BY <1>1, <2>3, <2>4, <2>6, <2>7 DEF BuiltInv
<1>7. PathsInv
  <2>1. \A n \in DOMAIN functions : ~ (n < at)
    BY <1>1, <1>3, ModuleIs
  <2>2. DOMAIN mapping["file"].ids = {}
    BY <1>1 DEF Kinds
  <2> QED
    BY <1>1, <2>1, <2>2 DEF PathsInv
<1> QED
  BY <1>1, <1>3, <1>4, <1>5, <1>6, <1>7 DEF IInv, SavedInv, CollectsMutable, ThrowsEarly

LEMMA NextIInv == IInv /\ [Next]_vars => IInv'
<1> SUFFICES ASSUME IInv, [Next]_vars PROVE IInv'
  OBVIOUS
<1>1. CASE Register
  BY <1>1, RegisterStep
<1>2. CASE SkipFunction \/ SkipRestricted
  BY <1>2, SkipStep
<1>3. CASE BeginFunction \/ BuildInstruction \/ EndFunction
  BY <1>3, BeginFunctionStep, BuildInstructionStep, EndFunctionStep
<1>4. CASE PathThrows \/ Built
  BY <1>4, BuiltStep
<1>5. CASE OpenMapping \/ SaveThrows \/ Save
  BY <1>5, OpenMappingStep, SaveThrowsStep, SaveStep
<1>6. CASE CollectThrows \/ Collect
  BY <1>6, CollectThrowsStep, CollectStep
<1>7. ASSUME NEW i \in collected, Row(i) PROVE IInv'
  BY <1>7, RowStep
<1>8. CASE Mutated \/ PathDisappears \/ Ended \/ UNCHANGED vars
  BY <1>8, OtherStep DEF Ended
<1> QED
  BY <1>1, <1>2, <1>3, <1>4, <1>5, <1>6, <1>7, <1>8 DEF Next

-------------------------------------------------------------------------------
(* Theorems.                                                               *)

\* At every step of a run the tables are whole, hold what has been built so far
\* and nothing else, and what is saved, collected and looked up is of them.
THEOREM Invariance == Spec => []IInv
<1> QED
  BY InitIInv, NextIInv, PTL DEF Spec

\* Every variable keeps its shape, for every module: a number is one of the
\* vector's, a saved mapping has rows of numbers that the other rows can use.
THEOREM TypeCorrect == Spec => []TypeOK
<1>1. IInv => TypeOK
  <2> SUFFICES ASSUME IInv PROVE TypeOK
    OBVIOUS
  <2>1. DOMAIN mapping = Kinds
    BY DEF IInv, TablesInv
  <2>2. \A kind \in Kinds : \A x \in DOMAIN mapping[kind].ids :
          mapping[kind].ids[x] < Len(mapping[kind].infos)
    BY DEF IInv, TablesInv, IsTable
  <2>3. collected \subseteq MutableInstructions
    BY DEF IInv, CollectsMutable, SavedInv, MutableInstructions, isMutable, HasSource
  <2> QED
    BY <2>1, <2>2, <2>3 DEF IInv, PlaceInv, TypeOK
<1> QED
  BY <1>1, Invariance, PTL

\* The number of a thing is the place of its Info, there is no Info without a
\* thing, and the Info refers to the Info of the thing's function or file.
THEOREM TablesAreRight == Spec => []VectorsMatchMaps
<1>1. IInv => VectorsMatchMaps
  <2> SUFFICES ASSUME IInv, NEW kind \in Kinds
               PROVE  /\ Len(mapping[kind].infos) = Cardinality(DOMAIN mapping[kind].ids)
                      /\ \A x \in DOMAIN mapping[kind].ids :
                           LET info == InfoOf(kind, x) IN
                           /\ info.thing = x /\ info.id = mapping[kind].ids[x]
                           /\ kind = "function" =>
                                info.owner = mapping["file"].ids[functions[x].file]
                           /\ kind = "instruction" =>
                                info.owner = mapping["function"].ids[x[2]]
                           /\ kind = "variable" =>
                                info.owner = mapping["function"].ids[Declaring(x)]
    BY DEF VectorsMatchMaps
  <2>1. Len(mapping[kind].infos) = Cardinality(DOMAIN mapping[kind].ids)
    BY DEF IInv, TablesInv, IsTable
  <2>2. ASSUME NEW x \in DOMAIN mapping[kind].ids, NEW info, info = InfoOf(kind, x)
        PROVE  /\ info.thing = x /\ info.id = mapping[kind].ids[x]
               /\ kind = "function" => info.owner = mapping["file"].ids[functions[x].file]
               /\ kind = "instruction" => info.owner = mapping["function"].ids[x[2]]
               /\ kind = "variable" => info.owner = mapping["function"].ids[Declaring(x)]
    <3>1. info.thing = x /\ info.id = mapping[kind].ids[x]
      BY <2>2 DEF IInv, TablesInv, IsTable, InfoOf
    <3>2. OwnerIs(kind, x, info.owner)
      BY <2>2 DEF IInv, TablesInv, InfoOf
    <3>3. ASSUME kind = "variable"
          PROVE  info.owner = mapping["function"].ids[Declaring(x)]
      <4> DEFINE declaring == {n \in DOMAIN mapping["function"].ids :
                                 \E k \in DOMAIN Code(n) : Code(n)[k].declares = x}
                 of == CHOOSE n \in declaring : \A m \in declaring : n <= m
      <4>1. PICK n \in declaring : /\ info.owner = mapping["function"].ids[n]
                                   /\ \A m \in declaring : n <= m
        BY <3>2, <3>3 DEF OwnerIs, Declares
      <4>2. declaring \subseteq Nat
        BY ModuleIs DEF IInv, BuiltInv
      <4>3. Declaring(x) = of
        BY DEF Declaring
      <4> HIDE DEF declaring
      <4>4. of \in declaring /\ \A m \in declaring : of <= m
        BY <4>1
      <4> HIDE DEF of
      <4>5. of = n
        BY <4>1, <4>2, <4>4
      <4> QED
        BY <4>1, <4>3, <4>5
    <3> QED
      BY <3>1, <3>2, <3>3 DEF OwnerIs
  <2> QED
    BY <2>1, <2>2, Zenon
<1> QED
  BY <1>1, Invariance, PTL

\* What row k of a part of the mapping file says.
LEMMA RowIs ==
  ASSUME TablesInv, NEW kind \in {"file", "function", "instruction"},
         NEW x \in DOMAIN mapping[kind].ids, NEW info, info = InfoOf(kind, x)
  PROVE  /\ mapping[kind].ids[x] \in Nat /\ mapping[kind].ids[x] < Len(RowsOf(kind))
         /\ kind = "file" => RowsOf(kind)[mapping[kind].ids[x] + 1] = FileRow(info)
         /\ kind = "function" => RowsOf(kind)[mapping[kind].ids[x] + 1] = FunctionRow(info)
         /\ kind = "instruction" => RowsOf(kind)[mapping[kind].ids[x] + 1] = InstructionRow(info)
         /\ info.thing = x /\ info.id = mapping[kind].ids[x] /\ OwnerIs(kind, x, info.owner)
<1> DEFINE infos == mapping[kind].infos
           id    == mapping[kind].ids[x]
<1>1. IsTable(mapping[kind]) /\ kind \in Kinds
  BY DEF TablesInv, Kinds
<1>2. Len(infos) \in Nat /\ DOMAIN infos = 1 .. Len(infos)
  BY <1>1, SequenceIs DEF IsTable
<1>3. id \in Nat /\ id < Len(infos) /\ info.thing = x /\ info.id = id
  BY <1>1 DEF IsTable, InfoOf
<1>4. id + 1 \in DOMAIN infos /\ info = infos[id + 1]
  BY <1>2, <1>3 DEF InfoOf
<1>5. OwnerIs(kind, x, info.owner)
  BY <1>1 DEF TablesInv, InfoOf
<1> HIDE DEF id
<1>6. /\ kind = "file" => RowsOf(kind)[id + 1] = FileRow(info)
      /\ kind = "function" => RowsOf(kind)[id + 1] = FunctionRow(info)
      /\ kind = "instruction" => RowsOf(kind)[id + 1] = InstructionRow(info)
  BY <1>4 DEF RowsOf
<1>7. Len(RowsOf(kind)) = Len(infos)
  <2>1. DOMAIN RowsOf(kind) = 1 .. Len(infos)
    BY <1>2 DEF RowsOf
  <2> HIDE DEF infos
  <2> QED
    BY <1>2, <2>1
<1> QED
  BY <1>3, <1>5, <1>6, <1>7 DEF id

\* The number in a row of the mutation table leads, through the mapping file that
\* was written before anything was mutated, to the instruction that is mutated.
THEOREM RowsLeadBack == Spec => []RowsResolve
<1>1. IInv => RowsResolve
  <2> SUFFICES ASSUME IInv, NEW r \in rows
               PROVE  LET n           == r.instruction[2]
                          instruction == saved.instructions[r.id + 1]
                          function    == saved.functions[instruction.function + 1]
                      IN  /\ saved \notin {None, Truncated}
                          /\ r.id < Len(saved.instructions) /\ instruction.id = r.id
                          /\ instruction.line = Code(n)[r.instruction[3]].line
                          /\ mapping["instruction"].infos[r.id + 1].thing = r.instruction
                          /\ function.id = instruction.function /\ function.name = n
                          /\ saved.files[function.file + 1]
                               = [id |-> function.file, path |-> Path(n)]
    BY DEF RowsResolve
  <2>0. PICK n, instruction, function :
          /\ n = r.instruction[2]
          /\ instruction = saved.instructions[r.id + 1]
          /\ function = saved.functions[instruction.function + 1]
    OBVIOUS
  <2>1. PICK i : i = r.instruction
    OBVIOUS
  <2>2. /\ saved = [files        |-> RowsOf("file"),
                    functions    |-> RowsOf("function"),
                    instructions |-> RowsOf("instruction")]
        /\ i \in DOMAIN mapping["instruction"].ids
        /\ r.id = mapping["instruction"].ids[i]
        /\ PlaceInv /\ TablesInv /\ BuiltInv
    BY <2>1 DEF IInv, SavedInv
  <2>3. saved \notin {None, Truncated}
    <3>1. saved \in Contents
      BY <2>2, RowsAreContents
    <3> QED
      BY <3>1, SavedAssumption
  <2>4. /\ saved.files = RowsOf("file") /\ saved.functions = RowsOf("function")
        /\ saved.instructions = RowsOf("instruction")
    BY <2>2
  <2>5. PICK iInfo : iInfo = InfoOf("instruction", i)
    OBVIOUS
  <2>6. /\ mapping["instruction"].ids[i] < Len(RowsOf("instruction"))
        /\ RowsOf("instruction")[mapping["instruction"].ids[i] + 1] = InstructionRow(iInfo)
        /\ iInfo.thing = i /\ iInfo.id = mapping["instruction"].ids[i]
        /\ OwnerIs("instruction", i, iInfo.owner)
    BY <2>2, <2>5, RowIs
  <2>7. instruction = InstructionRow(iInfo)
    BY <2>0, <2>2, <2>4, <2>6
  <2>8. /\ instruction.id = r.id /\ instruction.line = Code(n)[r.instruction[3]].line
        /\ instruction.function = iInfo.owner
    BY <2>0, <2>1, <2>2, <2>6, <2>7 DEF InstructionRow
  <2>9. n \in DOMAIN mapping["function"].ids /\ instruction.function = mapping["function"].ids[n]
    BY <2>0, <2>1, <2>6, <2>8 DEF OwnerIs
  <2>10. PICK fInfo : fInfo = InfoOf("function", n)
    OBVIOUS
  <2>11. /\ RowsOf("function")[mapping["function"].ids[n] + 1] = FunctionRow(fInfo)
         /\ fInfo.thing = n /\ fInfo.id = mapping["function"].ids[n]
         /\ OwnerIs("function", n, fInfo.owner)
    BY <2>2, <2>9, <2>10, RowIs
  <2>12. function = FunctionRow(fInfo)
    BY <2>0, <2>4, <2>9, <2>11
  <2>13. /\ function.id = instruction.function /\ function.name = n
         /\ function.file = fInfo.owner
    BY <2>9, <2>11, <2>12 DEF FunctionRow
  <2>14. PICK file : file = functions[n].file
    OBVIOUS
  <2>15. file \in DOMAIN mapping["file"].ids /\ function.file = mapping["file"].ids[file]
    BY <2>11, <2>13, <2>14 DEF OwnerIs
  <2>16. PICK info : info = InfoOf("file", file)
    OBVIOUS
  <2>17. /\ RowsOf("file")[mapping["file"].ids[file] + 1] = FileRow(info)
         /\ info.thing = file /\ info.id = mapping["file"].ids[file]
    BY <2>2, <2>15, <2>16, RowIs
  <2>18. saved.files[function.file + 1] = [id |-> function.file, path |-> Path(n)]
    BY <2>4, <2>14, <2>15, <2>17 DEF FileRow, Path
  <2>19. mapping["instruction"].infos[r.id + 1].thing = r.instruction
    BY <2>1, <2>2, <2>5, <2>6 DEF InfoOf
  <2>20. r.id < Len(saved.instructions)
    BY <2>2, <2>4, <2>6
  <2> QED
    BY <2>0, <2>3, <2>8, <2>13, <2>18, <2>19, <2>20
<1> QED
  BY <1>1, Invariance, PTL

\* The mapping and the supermutator choose the same functions, but for those the
\* configuration does not list; what is collected is every instruction of the
\* functions that are chosen and listed, but for indirect calls and calls of the
\* loader, and nothing else.
THEOREM CollectsTheMutable == Spec => []CollectsMutable
<1>1. IInv => CollectsMutable
  BY DEF IInv
<1> QED
  BY <1>1, Invariance, PTL

\* If no file disappears, a run that throws has written no mapping, or it met a
\* function without a body here whose file was not there to begin with.
THEOREM ThrowsBeforeWriting == Spec => []ThrowsEarly
<1>1. IInv => ThrowsEarly
  BY DEF IInv
<1> QED
  BY <1>1, Invariance, PTL

-------------------------------------------------------------------------------
(* The tables are registries.                                              *)

\* A step of a registry, or none.
Registering(ids) ==
  \/ \E x \in DOMAIN ids' \ DOMAIN ids :
       /\ DOMAIN ids' = DOMAIN ids \cup {x}
       /\ ids'[x] = Cardinality(DOMAIN ids)
       /\ Restrict(ids', DOMAIN ids) = ids
  \/ UNCHANGED ids

LEMMA StepRegisters ==
  ASSUME IInv, [Next]_vars, NEW kind \in Kinds
  PROVE  Registering(mapping[kind].ids)
<1>1. CASE Register
  <2>0. PICK k, x : k = todo[1].kind /\ x = todo[1].thing
    OBVIOUS
  <2>1. TablesInv /\ k \in Kinds /\ Registers(k, x)
    BY <1>1, <2>0, RegisterIs DEF IInv
  <2>2. CASE k # kind \/ x \in DOMAIN mapping[k].ids
    <3>1. mapping'[kind] = mapping[kind]
      BY <2>1, <2>2 DEF Registers
    <3> QED
      BY <3>1 DEF Registering
  <2>3. CASE k = kind /\ x \notin DOMAIN mapping[kind].ids
    <3> DEFINE old == mapping[kind].ids
               new == mapping'[kind].ids
    <3>1. /\ DOMAIN new = DOMAIN old \cup {x} /\ new[x] = Cardinality(DOMAIN old)
          /\ \A y \in DOMAIN old : new[y] = old[y]
      BY <2>1, <2>3, TablesGrow
    <3>2. old = [y \in DOMAIN old |-> old[y]]
      BY <2>1 DEF TablesInv, IsTable
    <3>3. Restrict(new, DOMAIN old) = old
      BY <3>1, <3>2 DEF Restrict
    <3>4. x \in DOMAIN new \ DOMAIN old
      BY <2>3, <3>1
    <3> QED
      BY <3>1, <3>3, <3>4 DEF Registering
  <2> QED
    BY <2>2, <2>3
<1>2. CASE \E i \in collected : Row(i)
  <2>1. mapping' = mapping
    BY <1>2, LookupIs DEF IInv
  <2> QED
    BY <2>1 DEF Registering
<1>3. CASE UNCHANGED mapping
  BY <1>3 DEF Registering
<1> QED
  BY <1>1, <1>2, <1>3 DEF Next, SkipFunction, PathThrows, SkipRestricted, BeginFunction,
     BuildInstruction, EndFunction, Built, OpenMapping, SaveThrows, Save, CollectThrows,
     Collect, Mutated, PathDisappears, Ended, Elsewhere, vars

\* Looking up the instructions to mutate registers nothing.
LEMMA LookupRegistersNothing ==
  ASSUME IInv, [Next]_vars, phase = "mutate"
  PROVE  UNCHANGED mapping
<1>1. PlaceInv /\ TablesInv /\ SavedInv /\ todo = <<>>
  BY DEF IInv, PlaceInv
<1>2. ASSUME NEW i \in collected, Row(i) PROVE UNCHANGED mapping
  BY <1>1, <1>2, LookupIs
<1> QED
  BY <1>1, <1>2 DEF Next, Register, SkipFunction, PathThrows, SkipRestricted, BeginFunction,
     BuildInstruction, EndFunction, Built, OpenMapping, SaveThrows, Save, CollectThrows,
     Collect, Mutated, PathDisappears, Ended, Elsewhere, vars

\* Each of the five tables implements a registry: a thing gets the number of
\* things before it and keeps it; and mutating registers nothing.
THEOREM TablesAreRegistries == Spec => ImplementsRegistry
<1>1. Init => /\ FileRegistry!Init /\ FunctionRegistry!Init /\ InstructionRegistry!Init
              /\ VariableRegistry!Init /\ ValueRegistry!Init
  BY DEF Init, Kinds, FileRegistry!Init, FunctionRegistry!Init, InstructionRegistry!Init,
         VariableRegistry!Init, ValueRegistry!Init
<1>2. IInv /\ [Next]_vars => [FileRegistry!Next]_(mapping["file"].ids)
  BY StepRegisters, Zenon
     DEF Registering, Kinds, Restrict, Cardinality, FileRegistry!Next, FileRegistry!Restrict,
         FileRegistry!Cardinality
<1>3. IInv /\ [Next]_vars => [FunctionRegistry!Next]_(mapping["function"].ids)
  BY StepRegisters, Zenon
     DEF Registering, Kinds, Restrict, Cardinality, FunctionRegistry!Next, FunctionRegistry!Restrict,
         FunctionRegistry!Cardinality
<1>4. IInv /\ [Next]_vars => [InstructionRegistry!Next]_(mapping["instruction"].ids)
  BY StepRegisters, Zenon
     DEF Registering, Kinds, Restrict, Cardinality, InstructionRegistry!Next, InstructionRegistry!Restrict,
         InstructionRegistry!Cardinality
<1>5. IInv /\ [Next]_vars => [VariableRegistry!Next]_(mapping["variable"].ids)
  BY StepRegisters, Zenon
     DEF Registering, Kinds, Restrict, Cardinality, VariableRegistry!Next, VariableRegistry!Restrict,
         VariableRegistry!Cardinality
<1>6. IInv /\ [Next]_vars => [ValueRegistry!Next]_(mapping["value"].ids)
  BY StepRegisters, Zenon
     DEF Registering, Kinds, Restrict, Cardinality, ValueRegistry!Next, ValueRegistry!Restrict,
         ValueRegistry!Cardinality
<1>7. IInv /\ [Next]_vars => [phase = "mutate" => UNCHANGED mapping]_vars
  BY LookupRegistersNothing
<1> QED
  BY <1>1, <1>2, <1>3, <1>4, <1>5, <1>6, <1>7, Invariance, PTL
     DEF Spec, ImplementsRegistry, FileRegistry!Spec, FunctionRegistry!Spec,
         InstructionRegistry!Spec, VariableRegistry!Spec, ValueRegistry!Spec
=================================================================================
