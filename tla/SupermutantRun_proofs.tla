------------------------- MODULE SupermutantRun_proofs -------------------------
(***************************************************************************)
(* That a run of the supermutant is a run of the mutant that its           *)
(* environment chooses, for every set of runnable programs: every order in *)
(* which their instructions are visited, every environment and every path. *)
(*                                                                         *)
(* CorrespondsInv says where each instruction of the source has gone, and  *)
(* is kept by every edit of the engine.  RunsWell says, of a run, which    *)
(* instruction of the source it is at, or in the diamond of which; that    *)
(* what is passed on all the ways to it has its value; and that no value   *)
(* it computes with is the address of a global of the engine.              *)
(***************************************************************************)
EXTENDS SupermutantRun, Supermutator_proofs
-------------------------------------------------------------------------------
(* What has become of the source program, instruction by instruction.      *)

Source == program.function

\* What stands for the value v when the sites S have been mutated.
Now(S, v) == IF v \in S THEN Phi(v) ELSE v

\* Where instruction x begins, and where it ends.
Begins(S, x) == IF x \in S THEN GlobalLoad(x) ELSE x

Ends(f, x) == IF x \in DOMAIN f.code THEN x ELSE Phi(x)

\* y comes next after x.
NextTo(f, x, y) ==
  \E b \in DOMAIN f.layout : \E k \in DOMAIN f.layout[b] :
    k + 1 \in DOMAIN f.layout[b] /\ f.layout[b][k] = x /\ f.layout[b][k + 1] = y

\* The block of f in which block p of the source ends.
EndsIn(f, p) == BlockOf(f, Final(Source, p))

\* y is what instruction x of the source has become, up to the edges of a phi.
IsNow(S, x, y) ==
  /\ y.op = x.op /\ y.to = x.to /\ y.cases = x.cases
  /\ y.args = [l \in DOMAIN x.args |-> Now(S, x.args[l])]

\* Edge e of a phi of the source is edge d of that phi in f.
IsEdge(f, S, d, e) == d[1] = Now(S, e[1]) /\ d[2] = EndsIn(f, e[2])

EdgesNow(f, S, x) ==
  /\ \A d \in f.code[x].in : \E e \in Source.code[x].in : IsEdge(f, S, d, e)
  /\ \A e \in Source.code[x].in : \E d \in f.code[x].in : IsEdge(f, S, d, e)

CodeInv(f, S, ms) ==
  /\ \A x \in Origs \cap DOMAIN f.code : IsNow(S, Source.code[x], f.code[x])
  /\ \A x \in Origs \cap DOMAIN f.code : f.code[x].op = "phi" => EdgesNow(f, S, x)
  /\ \A i \in S : /\ IsNow(S, Source.code[i], f.code[Clone(i)])
                  /\ f.code[CloneBr(i)].op = "br"
                  /\ f.code[GlobalLoad(i)].op = "load"
                  /\ f.code[Switch(i)].args = << GlobalLoad(i) >>
                  /\ MutatorFor(Source.code[i].op) # "none"
  /\ \A n \in DOMAIN ms : f.code[MutantBr(n)].op = "br"
  /\ LoaderCall \in DOMAIN f.code => f.code[LoaderCall].op = "call"

\* What comes next in a block of the source comes next in f, and around it is what
\* has been made for it.
OrderInv(f, S) ==
  /\ \A b \in DOMAIN Source.layout : \A k \in DOMAIN Source.layout[b] :
       k + 1 \in DOMAIN Source.layout[b] =>
         NextTo(f, Ends(f, Source.layout[b][k]), Begins(S, Source.layout[b][k + 1]))
  /\ \A i \in S : NextTo(f, GlobalLoad(i), Switch(i))
  /\ \A i \in S \cap DOMAIN f.code : NextTo(f, Phi(i), i)

\* Place k of block b of the source has nothing but phis before it.
AtHead(b, k) ==
  /\ k \in DOMAIN Source.layout[b]
  /\ \A j \in 1 .. k - 1 : Source.code[Source.layout[b][j]].op = "phi"

CallsFirst(f, b) == b = f.entry /\ LoaderCall \in DOMAIN f.code

\* The blocks of the source begin as they did.
HeadInv(f, S) ==
  \A b \in DOMAIN Source.layout :
    /\ b \in DOMAIN f.layout
    /\ ~ CallsFirst(f, b) =>
         \A k \in DOMAIN Source.layout[b] :
           AtHead(b, k) => /\ k \in DOMAIN f.layout[b]
                           /\ f.layout[b][k] = Begins(S, Source.layout[b][k])
    /\ CallsFirst(f, b) =>
         StartsWith(f, LoaderCall) /\ NextTo(f, LoaderCall, Begins(S, Source.layout[b][1]))

CorrespondsInv(f, S, ms) == CodeInv(f, S, ms) /\ OrderInv(f, S) /\ HeadInv(f, S)

-------------------------------------------------------------------------------
(* The source itself.                                                      *)

LEMMA SourceIs ==
  ASSUME program \in Programs
  PROVE  /\ WellFormed(Source, Origs) /\ OnePlace(Source) /\ BlocksWellFormed(Source)
         /\ TargetsAreBlocks(Source) /\ PhisMatchPredecessors(Source)
         /\ DOMAIN Source.code = Origs
         /\ \A b \in DOMAIN Source.layout :
              /\ Source.layout[b] \in Seq(Origs)
              /\ DOMAIN Source.layout[b] = 1 .. Len(Source.layout[b])
              /\ Len(Source.layout[b]) \in Nat \ {0}
              /\ \A k \in DOMAIN Source.layout[b] : Source.layout[b][k] \in Origs
<1>1. /\ WellFormed(Source, Origs) /\ Verified(Source) /\ DOMAIN Source.code = Origs
  BY ProgramsAssumption, ProgramIs DEF IsProgram, Source, Origs
<1>2. ASSUME NEW b \in DOMAIN Source.layout
      PROVE  /\ Source.layout[b] \in Seq(Origs)
             /\ DOMAIN Source.layout[b] = 1 .. Len(Source.layout[b])
             /\ Len(Source.layout[b]) \in Nat \ {0}
             /\ \A k \in DOMAIN Source.layout[b] : Source.layout[b][k] \in Origs
  BY <1>1, BlockIs DEF Verified, OnePlace
<1> QED  BY <1>1, <1>2 DEF Verified

LEMMA SourceEdges ==
  ASSUME program \in Programs, NEW x \in Origs, Source.code[x].op = "phi",
         NEW e \in Source.code[x].in
  PROVE  e[2] \in DOMAIN Source.layout
<1>1. /\ WellFormed(Source, Origs) /\ OnePlace(Source) /\ DOMAIN Source.code = Origs
      /\ PhisMatchPredecessors(Source)
  BY SourceIs
<1>2. PICK b, k : OnlyAt(Source, x, b, k)
  BY <1>1, PlaceOf
<1>3. {d[2] : d \in Source.code[x].in} = Preds(Source, b)
  BY <1>1, <1>2, PhisAre DEF OnlyAt, Fits
<1> QED  BY <1>3 DEF Preds, BlocksOf

LEMMA SourceCorresponds ==
  ASSUME program \in Programs
  PROVE  CorrespondsInv(Source, {}, <<>>)
<1>1. /\ WellFormed(Source, Origs) /\ OnePlace(Source) /\ DOMAIN Source.code = Origs
      /\ BlocksWellFormed(Source) /\ PhisMatchPredecessors(Source)
  BY SourceIs
<1>2. \A v : Now({}, v) = v /\ Begins({}, v) = v
  BY DEF Now, Begins
<1>3. \A x \in Origs : IsNow({}, Source.code[x], Source.code[x])
  BY <1>1, <1>2 DEF IsNow, WellFormed, IsIns
<1>4. ASSUME NEW x \in Origs, Source.code[x].op = "phi"
      PROVE  EdgesNow(Source, {}, x)
  <2>1. ASSUME NEW p \in DOMAIN Source.layout PROVE EndsIn(Source, p) = p
    <3>1. Len(Source.layout[p]) \in DOMAIN Source.layout[p]
      BY SourceIs
    <3>2. OnlyAt(Source, Final(Source, p), p, Len(Source.layout[p]))
      BY <1>1, <3>1, PlaceIs DEF Final
    <3> QED  BY <1>1, <3>2, OnlyAtIs DEF EndsIn
  <2>2. \A e \in Source.code[x].in : EndsIn(Source, e[2]) = e[2]
    BY <1>4, <2>1, SourceEdges
  <2> QED  BY <1>2, <2>2 DEF EdgesNow, IsEdge
<1>5. LoaderCall \notin Origs
  BY ProgramIs DEF LoaderCall
<1>6. CodeInv(Source, {}, <<>>)
  BY <1>1, <1>3, <1>4, <1>5 DEF CodeInv
<1>7. OrderInv(Source, {})
  <2> SUFFICES ASSUME NEW b \in DOMAIN Source.layout, NEW k \in DOMAIN Source.layout[b],
                      k + 1 \in DOMAIN Source.layout[b]
               PROVE  NextTo(Source, Ends(Source, Source.layout[b][k]), Source.layout[b][k + 1])
    BY <1>2 DEF OrderInv
  <2>1. Ends(Source, Source.layout[b][k]) = Source.layout[b][k]
    BY <1>1, SourceIs DEF Ends
  <2> QED  BY <2>1 DEF NextTo
<1>8. HeadInv(Source, {})
  BY <1>1, <1>2, <1>5 DEF HeadInv, CallsFirst
<1> QED  BY <1>6, <1>7, <1>8 DEF CorrespondsInv

-------------------------------------------------------------------------------
(* A split.                                                                *)

\* Instruction x is at place k of block b, and what is there is nowhere else.
LEMMA PlaceIn ==
  ASSUME NEW f, NEW N, WellFormed(f, N), OnePlace(f),
         NEW b \in DOMAIN f.layout, NEW k \in DOMAIN f.layout[b]
  PROVE  LET x == f.layout[b][k] IN
         /\ OnlyAt(f, x, b, k) /\ BlockOf(f, x) = b /\ IndexOf(f, x) = k
         /\ x \in DOMAIN f.code /\ k \in 1 .. Len(f.layout[b])
BY PlaceIs, OnlyAtIs DEF OnePlace

\* What comes before i, the load, the switch; the phi, i, and what comes after it.
LEMMA SplitPlaces ==
  ASSUME NEW f, NEW g, NEW N, NEW i, NEW b, NEW k, IsSplit(f, g, N, i, b, k)
  PROVE  /\ b \in DOMAIN f.layout /\ k \in Nat \ {0} /\ k < Len(f.layout[b])
         /\ Len(f.layout[b]) \in Nat /\ f.layout[b][k] = i
         /\ \A c \in DOMAIN f.layout :
              /\ DOMAIN f.layout[c] = 1 .. Len(f.layout[c]) /\ Len(f.layout[c]) \in Nat
              /\ \A l \in DOMAIN f.layout[c] : f.layout[c][l] = i => c = b /\ l = k
         /\ DOMAIN g.layout = DOMAIN f.layout \cup {Clone(i), Rest(i)}
         /\ \A c \in DOMAIN f.layout : c # b => g.layout[c] = f.layout[c]
         /\ DOMAIN g.layout[b] = 1 .. k + 1
         /\ \A j \in 1 .. k - 1 : g.layout[b][j] = f.layout[b][j]
         /\ g.layout[b][k] = GlobalLoad(i) /\ g.layout[b][k + 1] = Switch(i)
         /\ DOMAIN g.layout[Rest(i)] = 1 .. Len(f.layout[b]) - k + 2
         /\ g.layout[Rest(i)][1] = Phi(i)
         /\ \A j \in k .. Len(f.layout[b]) : g.layout[Rest(i)][j - k + 2] = f.layout[b][j]
<1>1. /\ b \in DOMAIN f.layout /\ k \in Nat \ {0} /\ k < Len(f.layout[b])
      /\ Len(f.layout[b]) \in Nat /\ f.layout[b][k] = i
  BY SplitAt
<1>2. /\ WellFormed(f, N) /\ WellFormed(g, N) /\ OnlyAt(f, i, b, k)
      /\ IsPrepared(f, g, i, b, k)
  BY DEF IsSplit, IsNewSite
<1>3. ASSUME NEW c \in DOMAIN f.layout
      PROVE  /\ DOMAIN f.layout[c] = 1 .. Len(f.layout[c]) /\ Len(f.layout[c]) \in Nat
             /\ \A l \in DOMAIN f.layout[c] : f.layout[c][l] = i => c = b /\ l = k
  <2>1. f.layout[c] \in Seq(N)
    BY <1>2 DEF WellFormed
  <2> QED  BY <1>2, <2>1 DEF OnlyAt
<1>4. /\ g.layout[b] \in Seq(N) /\ g.layout[Rest(i)] \in Seq(N)
  BY <1>1, <1>2 DEF WellFormed, IsPrepared
<1>5. /\ DOMAIN g.layout[b] = 1 .. Len(g.layout[b])
      /\ DOMAIN g.layout[Rest(i)] = 1 .. Len(g.layout[Rest(i)])
  BY <1>4
<1> QED  BY <1>1, <1>2, <1>3, <1>5 DEF IsPrepared

\* What follows x, unless it is i, still does; what was before i is before the load.
LEMMA SplitNext ==
  ASSUME NEW f, NEW g, NEW N, NEW i, NEW b, NEW k, IsSplit(f, g, N, i, b, k),
         NEW x, NEW y, NextTo(f, x, y)
  PROVE  NextTo(g, x, Begins({i}, y))
<1>a. PICK c \in DOMAIN f.layout :
        \E l \in DOMAIN f.layout[c] :
          l + 1 \in DOMAIN f.layout[c] /\ f.layout[c][l] = x /\ f.layout[c][l + 1] = y
  BY DEF NextTo
<1>1. PICK l \in DOMAIN f.layout[c] :
        l + 1 \in DOMAIN f.layout[c] /\ f.layout[c][l] = x /\ f.layout[c][l + 1] = y
  BY <1>a
<1>2. /\ b \in DOMAIN f.layout /\ k \in Nat \ {0} /\ k < Len(f.layout[b])
      /\ Len(f.layout[b]) \in Nat /\ f.layout[b][k] = i
      /\ DOMAIN f.layout[c] = 1 .. Len(f.layout[c]) /\ Len(f.layout[c]) \in Nat
      /\ DOMAIN g.layout = DOMAIN f.layout \cup {Clone(i), Rest(i)}
      /\ y = i => c = b /\ l + 1 = k
  BY <1>1, SplitPlaces
<1>5. CASE c # b
  <2>1. g.layout[c] = f.layout[c] /\ Begins({i}, y) = y
    BY <1>2, <1>5, SplitPlaces DEF Begins
  <2> QED  BY <1>1, <1>2, <2>1 DEF NextTo
<1>6. CASE c = b /\ l < k
  <2>0. b \in DOMAIN g.layout /\ l \in Nat \ {0} /\ f.layout[b][l] = x
    BY <1>1, <1>2, <1>6
  <2>1. /\ DOMAIN g.layout[b] = 1 .. k + 1
        /\ \A j \in 1 .. k - 1 : g.layout[b][j] = f.layout[b][j]
        /\ g.layout[b][k] = GlobalLoad(i)
    BY SplitPlaces
  <2>a. l \in 1 .. k - 1 /\ l \in 1 .. k + 1 /\ l + 1 \in 1 .. k + 1
    BY <1>2, <1>6, <2>0
  <2>2. l \in DOMAIN g.layout[b] /\ l + 1 \in DOMAIN g.layout[b] /\ g.layout[b][l] = x
    BY <2>0, <2>1, <2>a
  <2>3. g.layout[b][l + 1] = Begins({i}, y)
    <3>1. CASE l + 1 = k
      <4>1. y = i
        BY <1>1, <1>2, <1>6, <3>1
      <4> QED  BY <2>1, <3>1, <4>1 DEF Begins
    <3>2. CASE l + 1 # k
      <4>1. l + 1 \in 1 .. k - 1 /\ y # i
        BY <1>1, <1>2, <1>6, <3>2
      <4> QED  BY <1>1, <1>6, <2>1, <4>1 DEF Begins
    <3> QED  BY <3>1, <3>2
  <2> QED  BY <2>0, <2>2, <2>3 DEF NextTo
<1>7. CASE c = b /\ l >= k
  <2>1. /\ DOMAIN g.layout[Rest(i)] = 1 .. Len(f.layout[b]) - k + 2
        /\ \A j \in k .. Len(f.layout[b]) : g.layout[Rest(i)][j - k + 2] = f.layout[b][j]
    BY SplitPlaces
  <2>0. /\ Rest(i) \in DOMAIN g.layout /\ l \in Nat /\ l + 1 <= Len(f.layout[b])
        /\ f.layout[b][l] = x /\ f.layout[b][l + 1] = y
    BY <1>1, <1>2, <1>7
  <2>2. /\ l \in k .. Len(f.layout[b]) /\ l + 1 \in k .. Len(f.layout[b])
        /\ l + 1 - k + 2 = (l - k + 2) + 1
        /\ l - k + 2 \in 1 .. Len(f.layout[b]) - k + 2
        /\ (l - k + 2) + 1 \in 1 .. Len(f.layout[b]) - k + 2
    BY <1>2, <1>7, <2>0
  <2>3. g.layout[Rest(i)][l - k + 2] = x /\ g.layout[Rest(i)][(l + 1) - k + 2] = y
    BY <2>0, <2>1, <2>2
  <2>4. Begins({i}, y) = y
    BY <1>2, <1>7 DEF Begins
  <2> DEFINE j == l - k + 2
  <2>a. (l + 1) - k + 2 = j + 1
    BY <1>2, <2>0
  <2>5. j \in DOMAIN g.layout[Rest(i)] /\ j + 1 \in DOMAIN g.layout[Rest(i)]
    BY <2>1, <2>2
  <2>6. g.layout[Rest(i)][j] = x /\ g.layout[Rest(i)][j + 1] = y
    BY <2>3, <2>a
  <2> HIDE DEF j
  <2> QED  BY <2>0, <2>4, <2>5, <2>6 DEF NextTo
<1> QED  BY <1>1, <1>2, <1>5, <1>6, <1>7

LEMMA SplitAdds ==
  ASSUME NEW f, NEW g, NEW N, NEW i, NEW b, NEW k, IsSplit(f, g, N, i, b, k)
  PROVE  NextTo(g, GlobalLoad(i), Switch(i)) /\ NextTo(g, Phi(i), i)
<1>1. NextTo(g, GlobalLoad(i), Switch(i))
  <2>1. /\ DOMAIN g.layout[b] = 1 .. k + 1 /\ k \in Nat \ {0} /\ b \in DOMAIN g.layout
        /\ g.layout[b][k] = GlobalLoad(i) /\ g.layout[b][k + 1] = Switch(i)
    BY SplitPlaces
  <2>2. k \in DOMAIN g.layout[b] /\ k + 1 \in DOMAIN g.layout[b]
    BY <2>1
  <2> QED  BY <2>1, <2>2 DEF NextTo
<1>2. NextTo(g, Phi(i), i)
  <2>1. /\ DOMAIN g.layout[Rest(i)] = 1 .. Len(f.layout[b]) - k + 2
        /\ k \in Nat \ {0} /\ k < Len(f.layout[b]) /\ Len(f.layout[b]) \in Nat
        /\ g.layout[Rest(i)][1] = Phi(i)
        /\ f.layout[b][k] = i
        /\ \A j \in k .. Len(f.layout[b]) : g.layout[Rest(i)][j - k + 2] = f.layout[b][j]
    BY SplitPlaces
  <2>0. Rest(i) \in DOMAIN g.layout
    BY SplitPlaces
  <2>2. /\ 1 \in 1 .. Len(f.layout[b]) - k + 2 /\ 1 + 1 \in 1 .. Len(f.layout[b]) - k + 2
        /\ k \in k .. Len(f.layout[b]) /\ k - k + 2 = 1 + 1
    BY <2>1
  <2>3. g.layout[Rest(i)][1 + 1] = i
    BY <2>1, <2>2
  <2> QED  BY <2>0, <2>1, <2>2, <2>3 DEF NextTo
<1> QED  BY <1>1, <1>2

\* Values, and where instructions begin, after the split.
LEMMA NamesSplit ==
  ASSUME NEW S, NEW i, i \notin S, i[1] = "orig"
  PROVE  /\ \A v : Now(S \cup {i}, v) = IF Now(S, v) = i THEN Phi(i) ELSE Now(S, v)
         /\ \A x : Begins(S \cup {i}, x) = Begins({i}, Begins(S, x))
<1>1. \A v : Phi(v) # i /\ GlobalLoad(v) # i
  BY DEF Phi, GlobalLoad
<1> QED  BY <1>1 DEF Now, Begins

LEMMA SplitOrder ==
  ASSUME program \in Programs, NEW f, NEW S, NEW ms, NEW i, CanPrepare(f, S, ms, i),
         NEW g, NEW b, NEW k, IsSplit(f, g, Names, i, b, k), OrderInv(f, S)
  PROVE  OrderInv(g, S \cup {i})
<1>1. /\ i \in DOMAIN f.code /\ i \notin S /\ i[1] = "orig" /\ \A j \in S : j[1] = "orig"
      /\ DOMAIN g.code = (DOMAIN f.code \cup Created(i)) \ {SplitBr(i)}
      /\ \A x \in Origs : x[1] = "orig"
  BY ProgramIs DEF CanPrepare, IsSplit, IsPrepared
<1>2. \A x \in Origs : x \in DOMAIN g.code <=> x \in DOMAIN f.code
  BY <1>1 DEF Created, Clone, CloneBr, GlobalLoad, Switch, SplitBr, Phi
<1>3. ASSUME NEW c \in DOMAIN Source.layout, NEW l \in DOMAIN Source.layout[c],
             l + 1 \in DOMAIN Source.layout[c]
      PROVE  NextTo(g, Ends(g, Source.layout[c][l]), Begins(S \cup {i}, Source.layout[c][l + 1]))
  <2> DEFINE x == Source.layout[c][l]
             y == Source.layout[c][l + 1]
  <2>1. NextTo(f, Ends(f, x), Begins(S, y))
    BY <1>3 DEF OrderInv
  <2>2. x \in Origs
    BY SourceIs
  <2> HIDE DEF x, y
  <2>3. NextTo(g, Ends(f, x), Begins({i}, Begins(S, y)))
    BY <2>1, SplitNext
  <2>4. Begins({i}, Begins(S, y)) = Begins(S \cup {i}, y)
    <3>1. i \notin S /\ i[1] = "orig"
      BY <1>1
    <3> QED  BY <3>1, NamesSplit
  <2>5. Ends(g, x) = Ends(f, x)
    BY <1>2, <2>2 DEF Ends
  <2> QED  BY <2>3, <2>4, <2>5 DEF x, y
<1>4. ASSUME NEW j \in S \cup {i} PROVE NextTo(g, GlobalLoad(j), Switch(j))
  <2>1. CASE j = i
    BY <2>1, SplitAdds
  <2>2. CASE j # i
    <3>1. NextTo(f, GlobalLoad(j), Switch(j))
      BY <1>4, <2>2 DEF OrderInv
    <3>2. Begins({i}, Switch(j)) = Switch(j)
      BY <1>1 DEF Begins, Switch
    <3>3. NextTo(g, GlobalLoad(j), Begins({i}, Switch(j)))
      BY <3>1, SplitNext
    <3> QED  BY <3>2, <3>3
  <2> QED  BY <2>1, <2>2
<1>5. ASSUME NEW j \in (S \cup {i}) \cap DOMAIN g.code PROVE NextTo(g, Phi(j), j)
  <2>1. CASE j = i
    BY <2>1, SplitAdds
  <2>2. CASE j # i
    <3>1. j \in DOMAIN f.code /\ j \in S
      BY <1>1, <1>5, <2>2 DEF Created, Clone, CloneBr, GlobalLoad, Switch, SplitBr, Phi
    <3>2. NextTo(f, Phi(j), j)
      BY <3>1 DEF OrderInv
    <3>3. Begins({i}, j) = j
      BY <2>2 DEF Begins
    <3>4. NextTo(g, Phi(j), Begins({i}, j))
      BY <3>2, SplitNext
    <3> QED  BY <3>3, <3>4
  <2> QED  BY <2>1, <2>2
<1> QED  BY <1>3, <1>4, <1>5 DEF OrderInv

LEMMA MovedNow ==
  ASSUME NEW S, NEW x, NEW y, NEW z, NEW i, NEW b, IsNow(S, x, y), Moved(y, z, i, b),
         i \notin S, i[1] = "orig"
  PROVE  IsNow(S \cup {i}, x, z)
<1>1. \A v : Now(S \cup {i}, v) = IF Now(S, v) = i THEN Phi(i) ELSE Now(S, v)
  BY NamesSplit
<1>2. DOMAIN y.args = DOMAIN x.args
  BY DEF IsNow
<1>3. \A l \in DOMAIN x.args : y.args[l] = Now(S, x.args[l])
  BY DEF IsNow
<1>4. z.args = [l \in DOMAIN x.args |-> Now(S \cup {i}, x.args[l])]
  BY <1>1, <1>2, <1>3 DEF Moved
<1> QED  BY <1>4 DEF IsNow, Moved

\* The terminators of the source are where they were, or went to the rest.
LEMMA FinalStays ==
  ASSUME program \in Programs, NEW f, NEW S, NEW ms, FunctionInv(f, S, ms),
         ShapeInv(f, S, ms), CodeInv(f, S, ms), NEW p \in DOMAIN Source.layout
  PROVE  LET x == Final(Source, p)
         IN  /\ x \in Origs \ S /\ x \in DOMAIN f.code
             /\ Source.code[x].op \in Terminators /\ f.code[x].op = Source.code[x].op
<1> DEFINE x == Final(Source, p)
<1>1. x \in Origs /\ Source.code[x].op \in Terminators
  BY SourceIs, BlockIs
<1> HIDE DEF x
<1>2. x \notin S
  BY <1>1, MutableOps DEF CodeInv
<1>3. x \in DOMAIN f.code
  BY <1>1, <1>2 DEF ShapeInv, NamesInv
<1>4. f.code[x].op = Source.code[x].op
  BY <1>1, <1>3 DEF CodeInv, IsNow
<1> QED  BY <1>1, <1>2, <1>3, <1>4 DEF x

LEMMA SplitEnds ==
  ASSUME program \in Programs, NEW f, NEW S, NEW ms, NEW i, CanPrepare(f, S, ms, i),
         NEW g, NEW b, NEW k, IsSplit(f, g, Names, i, b, k), CodeInv(f, S, ms),
         NEW p \in DOMAIN Source.layout
  PROVE  EndsIn(g, p) = IF EndsIn(f, p) = b THEN Rest(i) ELSE EndsIn(f, p)
<1> DEFINE x == Final(Source, p)
<1>1. /\ x \in DOMAIN f.code /\ f.code[x].op \in Terminators
      /\ WellFormed(f, Names) /\ OnePlace(f) /\ WellFormed(g, Names) /\ OnePlace(g)
      /\ BlocksWellFormed(f)
  BY FinalStays DEF CanPrepare, IsSplit, IsNewSite, Verified
<1> HIDE DEF x
<1>2. PICK c, l : OnlyAt(f, x, c, l)
  BY <1>1, PlaceOf
<1>3. c \in DOMAIN f.layout /\ l \in DOMAIN f.layout[c] /\ f.layout[c][l] = x
  BY <1>2 DEF OnlyAt
<1>4. BlockOf(f, x) = c
  BY <1>1, <1>2, OnlyAtIs
<1>5. l = Len(f.layout[c])
  BY <1>1, <1>3, BlockIs
<1>6. CASE c # b
  <2>1. c \in DOMAIN g.layout /\ g.layout[c] = f.layout[c]
    BY <1>3, <1>6, SplitOthers
  <2>2. BlockOf(g, g.layout[c][l]) = c
    BY <1>1, <1>3, <2>1, PlaceIn
  <2> QED  BY <1>3, <1>4, <1>6, <2>1, <2>2 DEF EndsIn, x
<1>7. CASE c = b
  <2>1. /\ DOMAIN g.layout[Rest(i)] = 1 .. Len(f.layout[b]) - k + 2
        /\ k \in Nat \ {0} /\ k < Len(f.layout[b]) /\ Len(f.layout[b]) \in Nat
        /\ \A j \in k .. Len(f.layout[b]) : g.layout[Rest(i)][j - k + 2] = f.layout[b][j]
    BY SplitPlaces
  <2>2. Rest(i) \in DOMAIN g.layout
    BY SplitPlaces
  <2>3. l \in k .. Len(f.layout[b]) /\ l - k + 2 \in 1 .. Len(f.layout[b]) - k + 2
    BY <1>5, <1>7, <2>1
  <2>4. l - k + 2 \in DOMAIN g.layout[Rest(i)] /\ g.layout[Rest(i)][l - k + 2] = x
    BY <1>3, <1>7, <2>1, <2>3
  <2> DEFINE j == l - k + 2
  <2>5. j \in DOMAIN g.layout[Rest(i)] /\ g.layout[Rest(i)][j] = x
    BY <2>4
  <2> HIDE DEF j
  <2>6. BlockOf(g, g.layout[Rest(i)][j]) = Rest(i)
    BY <1>1, <2>2, <2>5, PlaceIn
  <2> QED  BY <1>4, <1>7, <2>5, <2>6 DEF EndsIn, x
<1> QED  BY <1>6, <1>7

LEMMA SplitEdges ==
  ASSUME program \in Programs, NEW f, NEW S, NEW ms, NEW i, CanPrepare(f, S, ms, i),
         NEW g, NEW b, NEW k, IsSplit(f, g, Names, i, b, k), CodeInv(f, S, ms),
         NEW x \in Origs \cap DOMAIN f.code, f.code[x].op = "phi"
  PROVE  EdgesNow(g, S \cup {i}, x)
<1>1. /\ i \notin S /\ i[1] = "orig" /\ Moved(f.code[x], g.code[x], i, b)
      /\ Source.code[x].op = "phi" /\ EdgesNow(f, S, x)
  BY ProgramIs DEF CanPrepare, IsSplit, IsNewSite, IsPrepared, CodeInv, IsNow
<1>2. \A v : Now(S \cup {i}, v) = IF Now(S, v) = i THEN Phi(i) ELSE Now(S, v)
  BY <1>1, NamesSplit
<1>3. \A e \in Source.code[x].in :
        EndsIn(g, e[2]) = IF EndsIn(f, e[2]) = b THEN Rest(i) ELSE EndsIn(f, e[2])
  BY <1>1, SourceEdges, SplitEnds
<1> DEFINE H(c) == << IF c[1] = i THEN Phi(i) ELSE c[1], IF c[2] = b THEN Rest(i) ELSE c[2] >>
<1>4. g.code[x].in = {H(c) : c \in f.code[x].in}
  BY <1>1 DEF Moved
<1>5. ASSUME NEW c \in f.code[x].in, NEW e \in Source.code[x].in, IsEdge(f, S, c, e)
      PROVE  IsEdge(g, S \cup {i}, H(c), e)
  BY <1>2, <1>3, <1>5 DEF IsEdge
<1>6. ASSUME NEW d \in g.code[x].in
      PROVE  \E e \in Source.code[x].in : IsEdge(g, S \cup {i}, d, e)
  <2>1. PICK c \in f.code[x].in : d = H(c)
    BY <1>4, <1>6
  <2>2. PICK e \in Source.code[x].in : IsEdge(f, S, c, e)
    BY <1>1 DEF EdgesNow
  <2> QED  BY <1>5, <2>1, <2>2
<1>7. ASSUME NEW e \in Source.code[x].in
      PROVE  \E d \in g.code[x].in : IsEdge(g, S \cup {i}, d, e)
  <2>1. PICK c \in f.code[x].in : IsEdge(f, S, c, e)
    BY <1>1 DEF EdgesNow
  <2>2. H(c) \in g.code[x].in
    BY <1>4
  <2> QED  BY <1>5, <2>1, <2>2
<1> QED  BY <1>6, <1>7 DEF EdgesNow

LEMMA SplitCode ==
  ASSUME program \in Programs, NEW f, NEW S, NEW ms, NEW i, CanPrepare(f, S, ms, i),
         NEW g, NEW b, NEW k, IsSplit(f, g, Names, i, b, k), CodeInv(f, S, ms)
  PROVE  CodeInv(g, S \cup {i}, ms)
<1>1. /\ i \in DOMAIN f.code /\ i \in Origs /\ i \notin S /\ i[1] = "orig"
      /\ \A j \in S : j[1] = "orig"
      /\ DOMAIN g.code = (DOMAIN f.code \cup Created(i)) \ {SplitBr(i)}
      /\ \A x \in Origs : x[1] = "orig"
      /\ \A y \in DOMAIN f.code : Moved(f.code[y], g.code[y], i, b)
      /\ Moved(f.code[i], g.code[Clone(i)], i, b)
      /\ MutatorFor(f.code[i].op) # "none" /\ NamesInv(f, S, ms)
  BY ProgramIs DEF CanPrepare, IsSplit, IsPrepared, ShapeInv
<1>2. \A x \in Origs : x \in DOMAIN g.code => x \in DOMAIN f.code
  BY <1>1 DEF Created, Clone, CloneBr, GlobalLoad, Switch, SplitBr, Phi
<1>3. ASSUME NEW x \in Origs \cap DOMAIN g.code
      PROVE  /\ IsNow(S \cup {i}, Source.code[x], g.code[x])
             /\ g.code[x].op = "phi" => EdgesNow(g, S \cup {i}, x)
  <2>1. x \in DOMAIN f.code
    BY <1>2
  <2>2. IsNow(S, Source.code[x], f.code[x]) /\ Moved(f.code[x], g.code[x], i, b)
    BY <1>1, <2>1 DEF CodeInv
  <2>3. IsNow(S \cup {i}, Source.code[x], g.code[x])
    BY <1>1, <2>2, MovedNow
  <2>4. g.code[x].op = f.code[x].op
    BY <2>2 DEF Moved
  <2> QED  BY <2>1, <2>3, <2>4, SplitEdges
<1>4. ASSUME NEW j \in S
      PROVE  /\ IsNow(S \cup {i}, Source.code[j], g.code[Clone(j)])
             /\ g.code[CloneBr(j)].op = "br" /\ g.code[GlobalLoad(j)].op = "load"
             /\ g.code[Switch(j)].args = << GlobalLoad(j) >>
             /\ MutatorFor(Source.code[j].op) # "none"
  <2>1. {Clone(j), CloneBr(j), GlobalLoad(j), Switch(j)} \subseteq DOMAIN f.code
    BY <1>1, SiteHas
  <2>2. /\ IsNow(S, Source.code[j], f.code[Clone(j)])
        /\ f.code[CloneBr(j)].op = "br" /\ f.code[GlobalLoad(j)].op = "load"
        /\ f.code[Switch(j)].args = << GlobalLoad(j) >>
        /\ MutatorFor(Source.code[j].op) # "none"
    BY DEF CodeInv
  <2>3. IsNow(S \cup {i}, Source.code[j], g.code[Clone(j)])
    <3>1. Moved(f.code[Clone(j)], g.code[Clone(j)], i, b)
      BY <1>1, <2>1
    <3> QED  BY <1>1, <2>2, <3>1, MovedNow
  <2>4. g.code[CloneBr(j)].op = "br" /\ g.code[GlobalLoad(j)].op = "load"
    BY <1>1, <2>1, <2>2 DEF Moved
  <2>5. g.code[Switch(j)].args = << GlobalLoad(j) >>
    <3>1. Moved(f.code[Switch(j)], g.code[Switch(j)], i, b) /\ GlobalLoad(j) # i
      BY <1>1, <2>1 DEF GlobalLoad
    <3>2. g.code[Switch(j)].args =
            [l \in DOMAIN << GlobalLoad(j) >> |->
              IF << GlobalLoad(j) >>[l] = i THEN Phi(i) ELSE << GlobalLoad(j) >>[l]]
      BY <2>2, <3>1 DEF Moved
    <3> QED  BY <3>1, <3>2
  <2> QED  BY <2>2, <2>3, <2>4, <2>5
<1>5. /\ IsNow(S \cup {i}, Source.code[i], g.code[Clone(i)])
      /\ g.code[CloneBr(i)].op = "br" /\ g.code[GlobalLoad(i)].op = "load"
      /\ g.code[Switch(i)].args = << GlobalLoad(i) >>
      /\ MutatorFor(Source.code[i].op) # "none"
  <2>1. IsNow(S, Source.code[i], f.code[i])
    BY <1>1 DEF CodeInv
  <2>2. IsNow(S \cup {i}, Source.code[i], g.code[Clone(i)])
    BY <1>1, <2>1, MovedNow
  <2>3. Source.code[i].op = f.code[i].op
    BY <2>1 DEF IsNow
  <2> QED  BY <1>1, <2>2, <2>3 DEF IsSplit, IsPrepared, IsJust
<1>6. ASSUME NEW n \in DOMAIN ms PROVE g.code[MutantBr(n)].op = "br"
  <2>1. MutantBr(n) \in DOMAIN f.code
    BY <1>1, SiteHas
  <2> QED  BY <1>1, <2>1 DEF CodeInv, Moved
<1>7. LoaderCall \in DOMAIN g.code => g.code[LoaderCall].op = "call"
  <2>1. LoaderCall \in DOMAIN g.code => LoaderCall \in DOMAIN f.code
    BY <1>1 DEF Created, Clone, CloneBr, GlobalLoad, Switch, SplitBr, Phi, LoaderCall
  <2> QED  BY <1>1, <2>1 DEF CodeInv, Moved
<1> QED
  <2>1. \A x \in Origs \cap DOMAIN g.code : IsNow(S \cup {i}, Source.code[x], g.code[x])
    BY <1>3
  <2>2. \A x \in Origs \cap DOMAIN g.code : g.code[x].op = "phi" => EdgesNow(g, S \cup {i}, x)
    BY <1>3
  <2> QED  BY <2>1, <2>2, <1>4, <1>5, <1>6, <1>7 DEF CodeInv

LEMMA SplitHeads ==
  ASSUME program \in Programs, NEW f, NEW S, NEW ms, NEW i, CanPrepare(f, S, ms, i),
         NEW g, NEW b, NEW k, IsSplit(f, g, Names, i, b, k), CodeInv(f, S, ms),
         HeadInv(f, S), StartsWith(f, LoaderCall) => StartsWith(g, LoaderCall)
  PROVE  HeadInv(g, S \cup {i})
<1>1. /\ i \in DOMAIN f.code /\ i \in Origs /\ i \notin S /\ i[1] = "orig"
      /\ g.entry = f.entry
      /\ DOMAIN g.code = (DOMAIN f.code \cup Created(i)) \ {SplitBr(i)}
      /\ MutatorFor(f.code[i].op) # "none" /\ IsNow(S, Source.code[i], f.code[i])
  BY ProgramIs DEF CanPrepare, IsSplit, IsPrepared, CodeInv
<1>2. Source.code[i].op # "phi"
  BY <1>1, MutableOps DEF IsNow
<1>3. /\ b \in DOMAIN f.layout /\ k \in Nat \ {0} /\ k < Len(f.layout[b])
      /\ Len(f.layout[b]) \in Nat /\ f.layout[b][k] = i
      /\ DOMAIN g.layout = DOMAIN f.layout \cup {Clone(i), Rest(i)}
      /\ \A c \in DOMAIN f.layout : c # b => g.layout[c] = f.layout[c]
      /\ DOMAIN f.layout[b] = 1 .. Len(f.layout[b])
  BY SplitPlaces
<1>4. \A x : Begins(S \cup {i}, x) = Begins({i}, Begins(S, x))
  BY <1>1, NamesSplit
<1>5. \A y : Begins(S, y) = i => y = i
  BY <1>1 DEF Begins, GlobalLoad
<1>6. ASSUME NEW p \in DOMAIN Source.layout
      PROVE  /\ p \in DOMAIN g.layout
             /\ ~ CallsFirst(g, p) =>
                  \A h \in DOMAIN Source.layout[p] :
                    AtHead(p, h) => /\ h \in DOMAIN g.layout[p]
                                    /\ g.layout[p][h] = Begins(S \cup {i}, Source.layout[p][h])
             /\ CallsFirst(g, p) =>
                  /\ StartsWith(g, LoaderCall)
                  /\ NextTo(g, LoaderCall, Begins(S \cup {i}, Source.layout[p][1]))
  <2>1. p \in DOMAIN f.layout
    BY DEF HeadInv
  <2>2. CallsFirst(g, p) <=> CallsFirst(f, p)
    BY <1>1 DEF CallsFirst, Created, Clone, CloneBr, GlobalLoad, Switch, SplitBr, Phi, LoaderCall
  <2>3. ASSUME CallsFirst(g, p)
        PROVE  /\ StartsWith(g, LoaderCall)
               /\ NextTo(g, LoaderCall, Begins(S \cup {i}, Source.layout[p][1]))
    <3>1. StartsWith(f, LoaderCall) /\ NextTo(f, LoaderCall, Begins(S, Source.layout[p][1]))
      BY <2>2, <2>3 DEF HeadInv
    <3>2. NextTo(g, LoaderCall, Begins({i}, Begins(S, Source.layout[p][1])))
      BY <3>1, SplitNext
    <3> QED  BY <1>4, <3>1, <3>2
  <2>4. ASSUME ~ CallsFirst(g, p), NEW h \in DOMAIN Source.layout[p], AtHead(p, h)
        PROVE  /\ h \in DOMAIN g.layout[p]
               /\ g.layout[p][h] = Begins(S \cup {i}, Source.layout[p][h])
    <3> DEFINE y == Begins(S, Source.layout[p][h])
    <3>1. \A l \in DOMAIN Source.layout[p] :
            AtHead(p, l) => l \in DOMAIN f.layout[p] /\ f.layout[p][l] = Begins(S, Source.layout[p][l])
      BY <2>2, <2>4 DEF HeadInv
    <3>2. h \in DOMAIN f.layout[p] /\ f.layout[p][h] = y
      BY <2>4, <3>1
    <3>3. Begins(S \cup {i}, Source.layout[p][h]) = Begins({i}, y)
      BY <1>4
    <3> HIDE DEF y
    <3>4. CASE p # b
      <4>1. g.layout[p] = f.layout[p]
        BY <1>3, <2>1, <3>4
      <4>2. y # i
        BY <2>1, <3>2, <3>4, SplitPlaces
      <4>3. Begins({i}, y) = y
        BY <4>2 DEF Begins
      <4> QED  BY <3>2, <3>3, <4>1, <4>3
    <3>5. CASE p = b
      <4>1. h \in Nat \ {0} /\ DOMAIN Source.layout[p] = 1 .. Len(Source.layout[p])
            /\ Len(Source.layout[p]) \in Nat /\ h <= Len(Source.layout[p])
        BY SourceIs
      <4>2. h <= k
        <5>1. SUFFICES ASSUME k < h PROVE FALSE
          BY <1>3, <4>1
        <5>2. k \in 1 .. h - 1 /\ k \in DOMAIN Source.layout[p] /\ AtHead(p, k)
          <6>1. k \in 1 .. h - 1 /\ k \in DOMAIN Source.layout[p]
            BY <1>3, <4>1, <5>1
          <6>2. \A j \in 1 .. k - 1 : j \in 1 .. h - 1
            BY <1>3, <4>1, <5>1
          <6> QED  BY <2>4, <6>1, <6>2 DEF AtHead
        <5>3. f.layout[p][k] = Begins(S, Source.layout[p][k])
          BY <3>1, <5>2
        <5>4. Source.layout[p][k] = i
          BY <1>3, <1>5, <3>5, <5>3
        <5>5. Source.code[Source.layout[p][k]].op = "phi"
          BY <2>4, <5>2 DEF AtHead
        <5> QED  BY <1>2, <5>4, <5>5
      <4>3. CASE h = k
        <5>1. y = i
          BY <1>3, <3>2, <3>5, <4>3
        <5>2. g.layout[p][h] = GlobalLoad(i) /\ DOMAIN g.layout[p] = 1 .. k + 1
          BY <3>5, <4>3, SplitPlaces
        <5>3. h \in DOMAIN g.layout[p]
          BY <1>3, <4>3, <5>2
        <5> QED  BY <3>3, <5>1, <5>2, <5>3 DEF Begins
      <4>4. CASE h # k
        <5>1. h \in 1 .. k - 1 /\ h \in 1 .. k + 1
          BY <1>3, <4>1, <4>2, <4>4
        <5>2. /\ DOMAIN g.layout[b] = 1 .. k + 1
              /\ \A j \in 1 .. k - 1 : g.layout[b][j] = f.layout[b][j]
          BY SplitPlaces
        <5>3. g.layout[p][h] = y /\ h \in DOMAIN g.layout[p]
          BY <3>2, <3>5, <5>1, <5>2
        <5>4. y # i
          BY <2>1, <3>2, <4>4, SplitPlaces
        <5>5. Begins({i}, y) = y
          BY <5>4 DEF Begins
        <5> QED  BY <3>3, <5>3, <5>5
      <4> QED  BY <4>3, <4>4
    <3> QED  BY <3>4, <3>5
  <2> QED  BY <1>3, <2>1, <2>3, <2>4
<1> QED  BY <1>6 DEF HeadInv

\* What the preparation of a site makes of a function.
LEMMA PrepareCorresponds ==
  ASSUME program \in Programs, NEW f, NEW S, NEW ms, NEW i, CanPrepare(f, S, ms, i),
         CorrespondsInv(f, S, ms)
  PROVE  CorrespondsInv(PreparedIR(f, i), S \cup {i}, ms)
<1> DEFINE g == PreparedIR(f, i)
<1>1. StartsWith(f, LoaderCall) => StartsWith(g, LoaderCall)
  BY PrepareShape
<1>a. \E b, k : IsSplit(f, g, Names, i, b, k)
  BY PrepareSplits
<1> HIDE DEF g
<1>2. PICK b, k : IsSplit(f, g, Names, i, b, k)
  BY <1>a
<1>3. CodeInv(f, S, ms) /\ OrderInv(f, S) /\ HeadInv(f, S)
  BY DEF CorrespondsInv
<1>4. CodeInv(g, S \cup {i}, ms)
  BY <1>2, <1>3, SplitCode
<1>5. OrderInv(g, S \cup {i})
  BY <1>2, <1>3, SplitOrder
<1>6. HeadInv(g, S \cup {i})
  BY <1>1, <1>2, <1>3, SplitHeads
<1> QED  BY <1>4, <1>5, <1>6 DEF CorrespondsInv, g

-------------------------------------------------------------------------------
(* A mutation, an erased original, and the call of the loader.             *)

\* A block that keeps its place keeps the terminators of the source it has.
LEMMA EndsStay ==
  ASSUME NEW f, NEW g, NEW N, WellFormed(f, N), OnePlace(f), WellFormed(g, N), OnePlace(g),
         NEW x \in DOMAIN f.code,
         \A c \in DOMAIN f.layout : \A k \in DOMAIN f.layout[c] :
           f.layout[c][k] = x => c \in DOMAIN g.layout /\ \E l \in DOMAIN g.layout[c] : g.layout[c][l] = x
  PROVE  BlockOf(g, x) = BlockOf(f, x)
<1>1. PICK c, k : OnlyAt(f, x, c, k)
  BY PlaceOf
<1>2. c \in DOMAIN f.layout /\ k \in DOMAIN f.layout[c] /\ f.layout[c][k] = x
  BY <1>1 DEF OnlyAt
<1>3. c \in DOMAIN g.layout
  BY <1>2
<1>4. PICK l \in DOMAIN g.layout[c] : g.layout[c][l] = x
  BY <1>2
<1>5. BlockOf(g, g.layout[c][l]) = c
  BY <1>3, PlaceIn
<1>6. BlockOf(f, x) = c
  BY <1>1, OnlyAtIs
<1> QED  BY <1>4, <1>5, <1>6

LEMMA EdgesStay ==
  ASSUME program \in Programs, NEW f, NEW g, NEW S, NEW x \in Origs,
         Source.code[x].op = "phi", g.code[x].in = f.code[x].in, EdgesNow(f, S, x),
         \A p \in DOMAIN Source.layout : EndsIn(g, p) = EndsIn(f, p)
  PROVE  EdgesNow(g, S, x)
<1>1. \A e \in Source.code[x].in : EndsIn(g, e[2]) = EndsIn(f, e[2])
  BY SourceEdges
<1>2. \A d, e : e \in Source.code[x].in => (IsEdge(g, S, d, e) <=> IsEdge(f, S, d, e))
  BY <1>1 DEF IsEdge
<1> QED  BY <1>2 DEF EdgesNow

LEMMA GrownCorresponds ==
  ASSUME program \in Programs, NEW f, NEW g, NEW S, NEW ms, NEW R, NEW i, NEW n,
         NEW candidate, NEW m, Grows(f, g, S, ms, R, i, n, candidate, m),
         CorrespondsInv(f, S, ms)
  PROVE  CorrespondsInv(g, S, R)
<1>1. /\ DOMAIN g.layout = DOMAIN f.layout \cup {Mutant(n)}
      /\ \A c \in DOMAIN f.layout : g.layout[c] = f.layout[c]
      /\ DOMAIN g.code = DOMAIN f.code \cup {Mutant(n), MutantBr(n)}
      /\ \A y \in DOMAIN f.code \ {Switch(i), Phi(i)} : g.code[y] = f.code[y]
      /\ g.code[Switch(i)].args = f.code[Switch(i)].args
      /\ g.code[MutantBr(n)].op = "br"
      /\ {Mutant(n), MutantBr(n)} \cap DOMAIN f.code = {}
  BY GrownIs, GrownHas, GrownBlock
<1>2. /\ NamesInv(f, S, ms) /\ S \subseteq Origs /\ i \in S /\ \A x \in Origs : x[1] = "orig"
      /\ DOMAIN R = DOMAIN ms \cup {n} /\ FunctionInv(f, S, ms) /\ ShapeInv(f, S, ms)
      /\ WellFormed(f, Names) /\ OnePlace(f) /\ WellFormed(g, Names) /\ OnePlace(g)
      /\ g.entry = f.entry
  BY GrownIs, ProgramIs DEF Grows, IsGrown, CanInject, MayInject, ShapeInv, Verified,
       IsInjected, FunctionInv
<1>3. \A x \in Origs : /\ x \in DOMAIN g.code <=> x \in DOMAIN f.code
                       /\ x \in DOMAIN f.code => g.code[x] = f.code[x]
  BY <1>1, <1>2 DEF Mutant, MutantBr, Switch, Phi
<1>4. \A x, y : NextTo(f, x, y) => NextTo(g, x, y)
  BY <1>1 DEF NextTo
<1>5. CodeInv(f, S, ms) /\ OrderInv(f, S) /\ HeadInv(f, S)
  BY DEF CorrespondsInv
<1>6. ASSUME NEW p \in DOMAIN Source.layout PROVE EndsIn(g, p) = EndsIn(f, p)
  <2> DEFINE x == Final(Source, p)
  <2>1. x \in DOMAIN f.code
    BY <1>2, <1>5, FinalStays
  <2> HIDE DEF x
  <2>2. BlockOf(g, x) = BlockOf(f, x)
    BY <1>1, <1>2, <2>1, EndsStay
  <2> QED  BY <2>2 DEF EndsIn, x
<1>7. CodeInv(g, S, R)
  <2>1. \A x \in Origs \cap DOMAIN g.code : IsNow(S, Source.code[x], g.code[x])
    BY <1>3, <1>5 DEF CodeInv
  <2>2. ASSUME NEW x \in Origs \cap DOMAIN g.code, g.code[x].op = "phi" PROVE EdgesNow(g, S, x)
    <3>1. x \in DOMAIN f.code /\ g.code[x] = f.code[x]
      BY <1>3
    <3>2. EdgesNow(f, S, x)
      BY <1>5, <2>2, <3>1 DEF CodeInv
    <3>a. IsNow(S, Source.code[x], f.code[x])
      BY <1>5, <3>1 DEF CodeInv
    <3>3. Source.code[x].op = "phi"
      BY <2>2, <3>1, <3>a DEF IsNow
    <3>4. g.code[x].in = f.code[x].in
      BY <3>1
    <3> QED  BY <1>6, <3>2, <3>3, <3>4, EdgesStay
  <2>3. ASSUME NEW j \in S
        PROVE  /\ IsNow(S, Source.code[j], g.code[Clone(j)])
               /\ g.code[CloneBr(j)].op = "br" /\ g.code[GlobalLoad(j)].op = "load"
               /\ g.code[Switch(j)].args = << GlobalLoad(j) >>
               /\ MutatorFor(Source.code[j].op) # "none"
    <3>1. {Clone(j), CloneBr(j), GlobalLoad(j), Switch(j)} \subseteq DOMAIN f.code
      BY <1>2, SiteHas
    <3>2. /\ g.code[Clone(j)] = f.code[Clone(j)] /\ g.code[CloneBr(j)] = f.code[CloneBr(j)]
          /\ g.code[GlobalLoad(j)] = f.code[GlobalLoad(j)]
      BY <1>1, <3>1 DEF Clone, CloneBr, GlobalLoad, Switch, Phi
    <3>3. g.code[Switch(j)].args = f.code[Switch(j)].args
      <4>1. Switch(j) # Phi(i)
        BY DEF Switch, Phi
      <4> QED  BY <1>1, <3>1, <4>1
    <3> QED  BY <1>5, <3>2, <3>3 DEF CodeInv
  <2>4. ASSUME NEW k \in DOMAIN R PROVE g.code[MutantBr(k)].op = "br"
    <3>1. CASE k \in DOMAIN ms
      <4>1. MutantBr(k) \in DOMAIN f.code
        BY <1>2, <3>1, SiteHas
      <4>2. g.code[MutantBr(k)] = f.code[MutantBr(k)]
        BY <1>1, <4>1 DEF MutantBr, Switch, Phi
      <4> QED  BY <1>5, <3>1, <4>2 DEF CodeInv
    <3>2. CASE k = n
      BY <1>1, <3>2
    <3> QED  BY <1>2, <3>1, <3>2
  <2>5. LoaderCall \in DOMAIN g.code => g.code[LoaderCall].op = "call"
    <3>1. LoaderCall \in DOMAIN g.code =>
            LoaderCall \in DOMAIN f.code /\ g.code[LoaderCall] = f.code[LoaderCall]
      BY <1>1 DEF LoaderCall, Mutant, MutantBr, Switch, Phi
    <3> QED  BY <1>5, <3>1 DEF CodeInv
  <2> QED  BY <2>1, <2>2, <2>3, <2>4, <2>5 DEF CodeInv
<1>8. OrderInv(g, S)
  <2>1. \A x \in Origs : Ends(g, x) = Ends(f, x)
    BY <1>3 DEF Ends
  <2>2. ASSUME NEW b \in DOMAIN Source.layout, NEW k \in DOMAIN Source.layout[b],
               k + 1 \in DOMAIN Source.layout[b]
        PROVE  NextTo(g, Ends(g, Source.layout[b][k]), Begins(S, Source.layout[b][k + 1]))
    <3>1. Ends(g, Source.layout[b][k]) = Ends(f, Source.layout[b][k])
      BY <2>1, SourceIs
    <3>2. NextTo(f, Ends(f, Source.layout[b][k]), Begins(S, Source.layout[b][k + 1]))
      BY <1>5, <2>2 DEF OrderInv
    <3> QED  BY <1>4, <3>1, <3>2
  <2>3. \A j \in S \cap DOMAIN g.code : j \in DOMAIN f.code
    BY <1>2, <1>3
  <2> QED  BY <1>4, <1>5, <2>2, <2>3 DEF OrderInv
<1>9. HeadInv(g, S)
  <2>1. \A b \in DOMAIN f.layout : CallsFirst(g, b) <=> CallsFirst(f, b)
    BY <1>1, <1>2 DEF CallsFirst, LoaderCall, Mutant, MutantBr
  <2>2. StartsWith(f, LoaderCall) => StartsWith(g, LoaderCall)
    BY <1>1, <1>2 DEF StartsWith
  <2> QED  BY <1>1, <1>4, <1>5, <2>1, <2>2 DEF HeadInv
<1> QED  BY <1>7, <1>8, <1>9 DEF CorrespondsInv

\* The block of an erased instruction, with what follows one place earlier.
LEMMA ErasedPlaces ==
  ASSUME NEW f, NEW g, NEW N, NEW x, NEW b, NEW k, IsErased(f, g, N, x, b, k)
  PROVE  /\ b \in DOMAIN f.layout /\ k \in Nat \ {0} /\ k <= Len(f.layout[b])
         /\ Len(f.layout[b]) \in Nat /\ f.layout[b][k] = x
         /\ \A c \in DOMAIN f.layout :
              /\ DOMAIN f.layout[c] = 1 .. Len(f.layout[c]) /\ Len(f.layout[c]) \in Nat
              /\ \A l \in DOMAIN f.layout[c] : f.layout[c][l] = x => c = b /\ l = k
         /\ DOMAIN g.layout = DOMAIN f.layout
         /\ \A c \in DOMAIN f.layout : c # b => g.layout[c] = f.layout[c]
         /\ DOMAIN g.layout[b] = 1 .. Len(f.layout[b]) - 1
         /\ \A j \in 1 .. k - 1 : g.layout[b][j] = f.layout[b][j]
         /\ \A j \in k + 1 .. Len(f.layout[b]) : g.layout[b][j - 1] = f.layout[b][j]
<1>1. /\ WellFormed(f, N) /\ OnlyAt(f, x, b, k) /\ g.layout[b] \in Seq(N)
      /\ Removed(f.layout[b], k, g.layout[b])
  BY DEF IsErased
<1>2. ASSUME NEW c \in DOMAIN f.layout
      PROVE  /\ DOMAIN f.layout[c] = 1 .. Len(f.layout[c]) /\ Len(f.layout[c]) \in Nat
             /\ \A l \in DOMAIN f.layout[c] : f.layout[c][l] = x => c = b /\ l = k
  <2>1. f.layout[c] \in Seq(N)
    BY <1>1 DEF WellFormed
  <2> QED  BY <1>1, <2>1 DEF OnlyAt
<1>3. b \in DOMAIN f.layout /\ k \in DOMAIN f.layout[b] /\ f.layout[b][k] = x
  BY <1>1 DEF OnlyAt
<1>4. k \in Nat \ {0} /\ k <= Len(f.layout[b]) /\ Len(f.layout[b]) \in Nat
  BY <1>2, <1>3
<1>5. DOMAIN g.layout[b] = 1 .. Len(f.layout[b]) - 1
  BY <1>1 DEF Removed
<1> QED  BY <1>1, <1>2, <1>3, <1>4, <1>5 DEF IsErased, Removed

\* Neighbours other than x stay neighbours.
LEMMA ErasedNext ==
  ASSUME NEW f, NEW g, NEW N, NEW x, NEW b, NEW k, IsErased(f, g, N, x, b, k),
         NEW u, NEW v, NextTo(f, u, v), u # x, v # x
  PROVE  NextTo(g, u, v)
<1>a. PICK c \in DOMAIN f.layout :
        \E l \in DOMAIN f.layout[c] :
          l + 1 \in DOMAIN f.layout[c] /\ f.layout[c][l] = u /\ f.layout[c][l + 1] = v
  BY DEF NextTo
<1>1. PICK l \in DOMAIN f.layout[c] :
        l + 1 \in DOMAIN f.layout[c] /\ f.layout[c][l] = u /\ f.layout[c][l + 1] = v
  BY <1>a
<1>2. /\ b \in DOMAIN f.layout /\ k \in Nat \ {0} /\ k <= Len(f.layout[b])
      /\ Len(f.layout[b]) \in Nat /\ f.layout[b][k] = x
      /\ DOMAIN f.layout[c] = 1 .. Len(f.layout[c]) /\ Len(f.layout[c]) \in Nat
      /\ DOMAIN g.layout = DOMAIN f.layout
  BY ErasedPlaces
<1>3. c = b => l # k /\ l + 1 # k
  BY <1>1, <1>2
<1>4. CASE c # b
  <2>1. g.layout[c] = f.layout[c]
    BY <1>4, ErasedPlaces
  <2> QED  BY <1>1, <1>2, <2>1 DEF NextTo
<1>5. CASE c = b
  <2>0. /\ l \in Nat \ {0} /\ l + 1 <= Len(f.layout[b]) /\ f.layout[b][l] = u
        /\ f.layout[b][l + 1] = v
    BY <1>1, <1>2, <1>5
  <2>1. /\ DOMAIN g.layout[b] = 1 .. Len(f.layout[b]) - 1
        /\ \A j \in 1 .. k - 1 : g.layout[b][j] = f.layout[b][j]
        /\ \A j \in k + 1 .. Len(f.layout[b]) : g.layout[b][j - 1] = f.layout[b][j]
    BY ErasedPlaces
  <2>2. CASE l < k
    <3>1. /\ l \in 1 .. k - 1 /\ l + 1 \in 1 .. k - 1
          /\ l \in 1 .. Len(f.layout[b]) - 1 /\ l + 1 \in 1 .. Len(f.layout[b]) - 1
      BY <1>2, <1>3, <1>5, <2>0, <2>2
    <3>2. g.layout[b][l] = u /\ g.layout[b][l + 1] = v
      BY <2>0, <2>1, <3>1
    <3> QED  BY <1>2, <2>1, <3>1, <3>2 DEF NextTo
  <2>3. CASE l > k
    <3>1. /\ l \in k + 1 .. Len(f.layout[b]) /\ l + 1 \in k + 1 .. Len(f.layout[b])
          /\ l - 1 \in 1 .. Len(f.layout[b]) - 1 /\ (l - 1) + 1 \in 1 .. Len(f.layout[b]) - 1
          /\ (l - 1) + 1 = (l + 1) - 1
      BY <1>2, <1>3, <1>5, <2>0, <2>3
    <3>2. g.layout[b][l - 1] = u /\ g.layout[b][(l - 1) + 1] = v
      BY <2>0, <2>1, <3>1
    <3> QED  BY <1>2, <2>1, <3>1, <3>2 DEF NextTo
  <2> QED  BY <1>2, <1>3, <1>5, <2>0, <2>2, <2>3
<1> QED  BY <1>4, <1>5

\* The neighbours of x become neighbours.
LEMMA ErasedJoins ==
  ASSUME NEW f, NEW g, NEW N, NEW x, NEW b, NEW k, IsErased(f, g, N, x, b, k),
         NEW u, NEW v, NextTo(f, u, x), NextTo(f, x, v)
  PROVE  NextTo(g, u, v)
<1>1. /\ b \in DOMAIN f.layout /\ k \in Nat \ {0} /\ k <= Len(f.layout[b])
      /\ Len(f.layout[b]) \in Nat /\ DOMAIN f.layout[b] = 1 .. Len(f.layout[b])
      /\ DOMAIN g.layout = DOMAIN f.layout
  BY ErasedPlaces
<1>2. k - 1 \in 1 .. Len(f.layout[b]) /\ f.layout[b][k - 1] = u
  <2>1. PICK c \in DOMAIN f.layout :
          \E l \in DOMAIN f.layout[c] :
            l + 1 \in DOMAIN f.layout[c] /\ f.layout[c][l] = u /\ f.layout[c][l + 1] = x
    BY DEF NextTo
  <2>2. PICK l \in DOMAIN f.layout[c] :
          l + 1 \in DOMAIN f.layout[c] /\ f.layout[c][l] = u /\ f.layout[c][l + 1] = x
    BY <2>1
  <2>3. c = b /\ l + 1 = k
    BY <2>2, ErasedPlaces
  <2>4. l \in 1 .. Len(f.layout[b]) /\ f.layout[b][l] = u
    BY <1>1, <2>2, <2>3
  <2>5. l = k - 1
    BY <1>1, <2>3, <2>4
  <2> QED  BY <2>4, <2>5
<1>3. k + 1 \in 1 .. Len(f.layout[b]) /\ f.layout[b][k + 1] = v
  <2>1. PICK c \in DOMAIN f.layout :
          \E l \in DOMAIN f.layout[c] :
            l + 1 \in DOMAIN f.layout[c] /\ f.layout[c][l] = x /\ f.layout[c][l + 1] = v
    BY DEF NextTo
  <2>2. PICK l \in DOMAIN f.layout[c] :
          l + 1 \in DOMAIN f.layout[c] /\ f.layout[c][l] = x /\ f.layout[c][l + 1] = v
    BY <2>1
  <2>3. c = b /\ l = k
    BY <2>2, ErasedPlaces
  <2> QED  BY <1>1, <2>2, <2>3
<1>4. /\ DOMAIN g.layout[b] = 1 .. Len(f.layout[b]) - 1
      /\ \A j \in 1 .. k - 1 : g.layout[b][j] = f.layout[b][j]
      /\ \A j \in k + 1 .. Len(f.layout[b]) : g.layout[b][j - 1] = f.layout[b][j]
  BY ErasedPlaces
<1>5. /\ k - 1 \in 1 .. k - 1 /\ k + 1 \in k + 1 .. Len(f.layout[b])
      /\ k - 1 \in 1 .. Len(f.layout[b]) - 1 /\ (k - 1) + 1 \in 1 .. Len(f.layout[b]) - 1
      /\ (k - 1) + 1 = (k + 1) - 1
  BY <1>1, <1>2, <1>3
<1>6. g.layout[b][k - 1] = u /\ g.layout[b][(k - 1) + 1] = v
  BY <1>2, <1>3, <1>4, <1>5
<1> QED  BY <1>1, <1>4, <1>5, <1>6 DEF NextTo

LEMMA EraseCorresponds ==
  ASSUME program \in Programs, NEW f, NEW S, NEW ms, NEW x, CanErase(f, S, ms, x),
         FunctionInv(f, S, ms), \A n \in DOMAIN ms : ms[n].original \in S,
         CorrespondsInv(f, S, ms)
  PROVE  CorrespondsInv(Erase(f, x), S, ms)
<1> DEFINE g == Erase(f, x)
<1>a. StartsWith(f, LoaderCall) => StartsWith(g, LoaderCall)
  BY EraseShape
<1>b. \E b, k : IsErased(f, g, Names, x, b, k)
  BY EraseErases
<1> HIDE DEF g
<1>c. PICK b, k : IsErased(f, g, Names, x, b, k)
  BY <1>b
<1>1. /\ WellFormed(f, Names) /\ OnePlace(f) /\ WellFormed(g, Names) /\ OnePlace(g)
      /\ g.entry = f.entry /\ DOMAIN g.layout = DOMAIN f.layout
      /\ DOMAIN g.code = DOMAIN f.code \ {x}
      /\ \A y \in DOMAIN f.code \ {x} : g.code[y] = f.code[y]
      /\ x \in S /\ x \in Origs /\ x[1] = "orig" /\ S \subseteq Origs
      /\ ShapeInv(f, S, ms) /\ NamesInv(f, S, ms) /\ x \in DOMAIN f.code
  BY <1>c, ProgramIs DEF IsErased, CanErase, ShapeInv, Verified
<1>2. CodeInv(f, S, ms) /\ OrderInv(f, S) /\ HeadInv(f, S)
  BY DEF CorrespondsInv
<1>3. \A j : Begins(S, j) # x
  BY <1>1 DEF Begins, GlobalLoad
<1>4. ASSUME NEW p \in DOMAIN Source.layout PROVE EndsIn(g, p) = EndsIn(f, p)
  <2> DEFINE y == Final(Source, p)
  <2>1. y \in DOMAIN f.code /\ y \in DOMAIN g.code /\ y # x
    BY <1>1, <1>2, FinalStays
  <2> HIDE DEF y
  <2>2. PICK c, l : OnlyAt(g, y, c, l)
    BY <1>1, <2>1, PlaceOf
  <2>3. c \in DOMAIN g.layout /\ l \in DOMAIN g.layout[c] /\ g.layout[c][l] = y
    BY <2>2 DEF OnlyAt
  <2>4. BlockOf(g, y) = c
    BY <1>1, <2>2, OnlyAtIs
  <2>5. \E h \in DOMAIN f.layout[c] : f.layout[c][h] = y
    <3>1. PICK h \in DOMAIN f.layout[c] : Shifted(f.layout[c], g.layout[c], h, l)
      BY <1>1, <1>c, <2>3, ErasedBlocks
    <3> QED  BY <2>3, <3>1 DEF Shifted
  <2>6. PICK h \in DOMAIN f.layout[c] : f.layout[c][h] = y
    BY <2>5
  <2>7. BlockOf(f, f.layout[c][h]) = c
    BY <1>1, <2>3, PlaceIn
  <2> QED  BY <2>4, <2>6, <2>7 DEF EndsIn, y
<1>5. CodeInv(g, S, ms)
  <2>1. ASSUME NEW y \in Origs \cap DOMAIN g.code
        PROVE  IsNow(S, Source.code[y], g.code[y])
    BY <1>1, <1>2 DEF CodeInv
  <2>2. ASSUME NEW y \in Origs \cap DOMAIN g.code, g.code[y].op = "phi" PROVE EdgesNow(g, S, y)
    <3>1. y \in DOMAIN f.code /\ g.code[y] = f.code[y]
      BY <1>1
    <3>2. EdgesNow(f, S, y)
      BY <1>2, <2>2, <3>1 DEF CodeInv
    <3>3. IsNow(S, Source.code[y], f.code[y])
      BY <1>2, <3>1 DEF CodeInv
    <3>4. Source.code[y].op = "phi"
      BY <2>2, <3>1, <3>3 DEF IsNow
    <3>5. g.code[y].in = f.code[y].in
      BY <3>1
    <3> QED  BY <1>4, <3>2, <3>4, <3>5, EdgesStay
  <2>3. ASSUME NEW j \in S
        PROVE  /\ IsNow(S, Source.code[j], g.code[Clone(j)])
               /\ g.code[CloneBr(j)].op = "br" /\ g.code[GlobalLoad(j)].op = "load"
               /\ g.code[Switch(j)].args = << GlobalLoad(j) >>
               /\ MutatorFor(Source.code[j].op) # "none"
    <3>1. {Clone(j), CloneBr(j), GlobalLoad(j), Switch(j)} \subseteq DOMAIN f.code
      BY <1>1, SiteHas
    <3>2. /\ g.code[Clone(j)] = f.code[Clone(j)] /\ g.code[CloneBr(j)] = f.code[CloneBr(j)]
          /\ g.code[GlobalLoad(j)] = f.code[GlobalLoad(j)]
          /\ g.code[Switch(j)] = f.code[Switch(j)]
      BY <1>1, <3>1 DEF Clone, CloneBr, GlobalLoad, Switch
    <3> QED  BY <1>2, <3>2 DEF CodeInv
  <2>4. ASSUME NEW n \in DOMAIN ms PROVE g.code[MutantBr(n)].op = "br"
    <3>1. MutantBr(n) \in DOMAIN f.code
      BY <1>1, SiteHas
    <3>2. g.code[MutantBr(n)] = f.code[MutantBr(n)]
      BY <1>1, <3>1 DEF MutantBr
    <3> QED  BY <1>2, <3>2 DEF CodeInv
  <2>5. LoaderCall \in DOMAIN g.code => g.code[LoaderCall].op = "call"
    BY <1>1, <1>2 DEF CodeInv
  <2> QED  BY <2>1, <2>2, <2>3, <2>4, <2>5 DEF CodeInv
<1>6. OrderInv(g, S)
  <2>1. \A y \in Origs : y # x => Ends(g, y) = Ends(f, y) /\ Ends(f, y) # x
    BY <1>1 DEF Ends, Phi
  <2>2. Ends(g, x) = Phi(x) /\ Ends(f, x) = x
    BY <1>1 DEF Ends
  <2>3. ASSUME NEW c \in DOMAIN Source.layout, NEW l \in DOMAIN Source.layout[c],
               l + 1 \in DOMAIN Source.layout[c]
        PROVE  NextTo(g, Ends(g, Source.layout[c][l]), Begins(S, Source.layout[c][l + 1]))
    <3> DEFINE y == Source.layout[c][l]
               z == Begins(S, Source.layout[c][l + 1])
    <3>1. NextTo(f, Ends(f, y), z)
      BY <1>2, <2>3 DEF OrderInv
    <3>2. y \in Origs /\ z # x
      BY <1>3, SourceIs
    <3> HIDE DEF y, z
    <3>3. CASE y = x
      <4>1. NextTo(f, Phi(x), x) /\ NextTo(f, x, z)
        BY <1>1, <1>2, <2>2, <3>1, <3>3 DEF OrderInv
      <4>2. NextTo(g, Phi(x), z)
        BY <1>c, <4>1, ErasedJoins
      <4> QED  BY <2>2, <3>3, <4>2 DEF y, z
    <3>4. CASE y # x
      <4>1. Ends(g, y) = Ends(f, y) /\ Ends(f, y) # x
        BY <2>1, <3>2, <3>4
      <4>2. NextTo(g, Ends(f, y), z)
        BY <1>c, <3>1, <3>2, <4>1, ErasedNext
      <4> QED  BY <4>1, <4>2 DEF y, z
    <3> QED  BY <3>3, <3>4
  <2>4. ASSUME NEW j \in S PROVE NextTo(g, GlobalLoad(j), Switch(j))
    <3>1. NextTo(f, GlobalLoad(j), Switch(j)) /\ GlobalLoad(j) # x /\ Switch(j) # x
      BY <1>1, <1>2 DEF OrderInv, GlobalLoad, Switch
    <3> QED  BY <1>c, <3>1, ErasedNext
  <2>5. ASSUME NEW j \in S \cap DOMAIN g.code PROVE NextTo(g, Phi(j), j)
    <3>1. NextTo(f, Phi(j), j) /\ Phi(j) # x /\ j # x
      BY <1>1, <1>2 DEF OrderInv, Phi
    <3> QED  BY <1>c, <3>1, ErasedNext
  <2> QED  BY <2>3, <2>4, <2>5 DEF OrderInv
<1>7. HeadInv(g, S)
  <2>1. \A p : CallsFirst(g, p) <=> CallsFirst(f, p)
    BY <1>1 DEF CallsFirst, LoaderCall
  <2>2. ASSUME NEW p \in DOMAIN Source.layout, CallsFirst(g, p)
        PROVE  NextTo(g, LoaderCall, Begins(S, Source.layout[p][1])) /\ StartsWith(g, LoaderCall)
    <3>1. StartsWith(f, LoaderCall) /\ NextTo(f, LoaderCall, Begins(S, Source.layout[p][1]))
      BY <1>2, <2>1, <2>2 DEF HeadInv
    <3>2. LoaderCall # x /\ Begins(S, Source.layout[p][1]) # x
      BY <1>1, <1>3 DEF LoaderCall
    <3>3. NextTo(g, LoaderCall, Begins(S, Source.layout[p][1]))
      BY <1>c, <3>1, <3>2, ErasedNext
    <3> QED  BY <1>a, <3>1, <3>3
  <2>3. ASSUME NEW p \in DOMAIN Source.layout, ~ CallsFirst(g, p),
               NEW h \in DOMAIN Source.layout[p], AtHead(p, h)
        PROVE  h \in DOMAIN g.layout[p] /\ g.layout[p][h] = Begins(S, Source.layout[p][h])
    <3>1. \A l \in DOMAIN Source.layout[p] :
            AtHead(p, l) => l \in DOMAIN f.layout[p] /\ f.layout[p][l] = Begins(S, Source.layout[p][l])
      BY <1>2, <2>1, <2>3 DEF HeadInv
    <3>2. h \in DOMAIN f.layout[p] /\ f.layout[p][h] = Begins(S, Source.layout[p][h])
      BY <2>3, <3>1
    <3>3. p \in DOMAIN f.layout
      BY <1>2 DEF HeadInv
    <3>4. CASE p # b
      <4>1. g.layout[p] = f.layout[p]
        BY <1>c, <3>3, <3>4, ErasedPlaces
      <4> QED  BY <3>2, <4>1
    <3>5. CASE p = b
      <4>1. /\ k \in Nat \ {0} /\ k <= Len(f.layout[b]) /\ Len(f.layout[b]) \in Nat
            /\ f.layout[b][k] = x /\ DOMAIN f.layout[b] = 1 .. Len(f.layout[b])
            /\ DOMAIN g.layout[b] = 1 .. Len(f.layout[b]) - 1
            /\ \A j \in 1 .. k - 1 : g.layout[b][j] = f.layout[b][j]
        BY <1>c, <3>3, <3>5, ErasedPlaces
      <4>2. h \in Nat \ {0} /\ DOMAIN Source.layout[p] = 1 .. Len(Source.layout[p])
            /\ Len(Source.layout[p]) \in Nat /\ h <= Len(Source.layout[p])
        BY SourceIs
      <4>3. h < k
        <5>1. SUFFICES ASSUME k <= h PROVE FALSE
          BY <4>1, <4>2
        <5>2. k \in DOMAIN Source.layout[p]
          BY <4>1, <4>2, <5>1
        <5>3. \A j \in 1 .. k - 1 : j \in 1 .. h - 1
          BY <4>1, <4>2, <5>1
        <5>4. AtHead(p, k)
          BY <2>3, <5>2, <5>3 DEF AtHead
        <5>5. f.layout[p][k] = Begins(S, Source.layout[p][k])
          BY <3>1, <5>2, <5>4
        <5> QED  BY <1>3, <3>5, <4>1, <5>5
      <4>4. h \in 1 .. k - 1 /\ h \in 1 .. Len(f.layout[b]) - 1
        BY <4>1, <4>2, <4>3
      <4> QED  BY <3>2, <3>5, <4>1, <4>4
    <3> QED  BY <3>4, <3>5
  <2>4. \A p \in DOMAIN Source.layout : p \in DOMAIN g.layout
    BY <1>1, <1>2 DEF HeadInv
  <2> QED  BY <2>2, <2>3, <2>4 DEF HeadInv
<1> QED  BY <1>5, <1>6, <1>7 DEF CorrespondsInv, g

LEMMA CallCorresponds ==
  ASSUME program \in Programs
  PROVE  CorrespondsInv(Called(Source), {}, <<>>)
<1> DEFINE g == Called(Source)
           e == Source.entry
<1>1. IsCalling(Source, g, Names, e, LoaderCall)
  BY CallCalls DEF Source
<1>a. StartsWith(g, LoaderCall)
  BY CallShape DEF Source
<1> HIDE DEF g
<1>2. /\ WellFormed(Source, Names) /\ OnePlace(Source) /\ WellFormed(g, Names) /\ OnePlace(g)
      /\ g.entry = e /\ DOMAIN g.layout = DOMAIN Source.layout /\ e \in DOMAIN Source.layout
      /\ \A c \in DOMAIN Source.layout : c # e => g.layout[c] = Source.layout[c]
      /\ DOMAIN g.code = DOMAIN Source.code \cup {LoaderCall}
      /\ \A y \in DOMAIN Source.code : g.code[y] = Source.code[y]
      /\ g.code[LoaderCall].op = "call"
  BY <1>1 DEF IsCalling, Verified
<1>3. /\ DOMAIN Source.code = Origs /\ LoaderCall \notin Origs
      /\ CodeInv(Source, {}, <<>>) /\ OrderInv(Source, {}) /\ HeadInv(Source, {})
  BY SourceIs, ProgramIs, SourceCorresponds DEF LoaderCall, CorrespondsInv
<1>4. /\ Len(Source.layout[e]) \in Nat \ {0}
      /\ DOMAIN Source.layout[e] = 1 .. Len(Source.layout[e])
      /\ DOMAIN g.layout[e] = 1 .. Len(Source.layout[e]) + 1 /\ g.layout[e][1] = LoaderCall
      /\ \A l \in 1 .. Len(Source.layout[e]) : g.layout[e][l + 1] = Source.layout[e][l]
  <2>1. Len(g.layout[e]) = Len(Source.layout[e]) + 1 /\ DOMAIN g.layout[e] = 1 .. Len(g.layout[e])
        /\ Len(Source.layout[e]) \in Nat \ {0}
        /\ DOMAIN Source.layout[e] = 1 .. Len(Source.layout[e])
        /\ g.layout[e][1] = LoaderCall
    BY <1>1, CallingHead
  <2>2. \A l \in 1 .. Len(Source.layout[e]) : g.layout[e][l + 1] = Source.layout[e][l]
    BY <1>1 DEF IsCalling, Inserted
  <2> QED  BY <2>1, <2>2
<1>5. ASSUME NEW p \in DOMAIN Source.layout PROVE EndsIn(g, p) = EndsIn(Source, p)
  <2> DEFINE y == Final(Source, p)
  <2>1. y \in DOMAIN Source.code
    BY <1>3, SourceIs, BlockIs
  <2> HIDE DEF y
  <2>2. ASSUME NEW c \in DOMAIN Source.layout, NEW h \in DOMAIN Source.layout[c],
               Source.layout[c][h] = y
        PROVE  \E l \in DOMAIN g.layout[c] : g.layout[c][l] = y
    <3>1. CASE c # e
      BY <1>2, <2>2, <3>1
    <3>2. CASE c = e
      <4>1. h + 1 \in 1 .. Len(Source.layout[e]) + 1
        BY <1>4, <3>2
      <4>2. h + 1 \in DOMAIN g.layout[c] /\ g.layout[c][h + 1] = y
        BY <1>4, <2>2, <3>2, <4>1
      <4> QED  BY <4>2
    <3> QED  BY <3>1, <3>2
  <2>3. BlockOf(g, y) = BlockOf(Source, y)
    BY <1>2, <2>1, <2>2, EndsStay
  <2> QED  BY <2>3 DEF EndsIn, y
<1>6. \A x \in Origs : x \in DOMAIN g.code /\ g.code[x] = Source.code[x]
  BY <1>2, <1>3
<1>7. CodeInv(g, {}, <<>>)
  <2>1. ASSUME NEW x \in Origs, g.code[x].op = "phi" PROVE EdgesNow(g, {}, x)
    <3>1. Source.code[x].op = "phi" /\ g.code[x].in = Source.code[x].in
      BY <1>6, <2>1
    <3>2. EdgesNow(Source, {}, x)
      BY <1>3, <3>1 DEF CodeInv
    <3> QED  BY <1>5, <3>1, <3>2, EdgesStay
  <2> QED  BY <1>2, <1>3, <1>6, <2>1 DEF CodeInv
<1>8. ASSUME NEW c \in DOMAIN Source.layout, NEW h \in DOMAIN Source.layout[c],
             h + 1 \in DOMAIN Source.layout[c]
      PROVE  NextTo(g, Source.layout[c][h], Source.layout[c][h + 1])
  <2>1. CASE c # e
    BY <1>2, <1>8, <2>1 DEF NextTo
  <2>2. CASE c = e
    <3>1. /\ h + 1 \in 1 .. Len(Source.layout[e]) + 1
          /\ (h + 1) + 1 \in 1 .. Len(Source.layout[e]) + 1
      BY <1>4, <1>8, <2>2
    <3>2. /\ g.layout[e][h + 1] = Source.layout[e][h]
          /\ g.layout[e][(h + 1) + 1] = Source.layout[e][h + 1]
      BY <1>4, <1>8, <2>2
    <3> QED  BY <1>2, <1>4, <2>2, <3>1, <3>2 DEF NextTo
  <2> QED  BY <2>1, <2>2
<1>9. OrderInv(g, {})
  <2> SUFFICES ASSUME NEW c \in DOMAIN Source.layout, NEW h \in DOMAIN Source.layout[c],
                      h + 1 \in DOMAIN Source.layout[c]
               PROVE  NextTo(g, Ends(g, Source.layout[c][h]), Begins({}, Source.layout[c][h + 1]))
    BY DEF OrderInv
  <2>1. /\ Ends(g, Source.layout[c][h]) = Source.layout[c][h]
        /\ Begins({}, Source.layout[c][h + 1]) = Source.layout[c][h + 1]
    BY <1>6, SourceIs DEF Ends, Begins
  <2> QED  BY <1>8, <2>1
<1>10. HeadInv(g, {})
  <2>1. \A p : CallsFirst(g, p) <=> p = e
    BY <1>2 DEF CallsFirst
  <2>2. \A p : ~ CallsFirst(Source, p)
    BY <1>3 DEF CallsFirst
  <2>3. NextTo(g, LoaderCall, Begins({}, Source.layout[e][1]))
    <3>1. Begins({}, Source.layout[e][1]) = Source.layout[e][1]
      BY DEF Begins
    <3>2. /\ 1 \in 1 .. Len(Source.layout[e]) /\ 1 \in 1 .. Len(Source.layout[e]) + 1
          /\ 1 + 1 \in 1 .. Len(Source.layout[e]) + 1
      BY <1>4
    <3>3. g.layout[e][1 + 1] = Source.layout[e][1]
      BY <1>4, <3>2
    <3> QED  BY <1>2, <1>4, <3>1, <3>2, <3>3 DEF NextTo
  <2>4. ASSUME NEW p \in DOMAIN Source.layout, p # e, NEW h \in DOMAIN Source.layout[p],
               AtHead(p, h)
        PROVE  h \in DOMAIN g.layout[p] /\ g.layout[p][h] = Begins({}, Source.layout[p][h])
    <3>1. g.layout[p] = Source.layout[p]
      BY <1>2, <2>4
    <3> QED  BY <3>1 DEF Begins
  <2> QED  BY <1>a, <1>2, <2>1, <2>3, <2>4 DEF HeadInv
<1> QED  BY <1>7, <1>9, <1>10 DEF CorrespondsInv, g

-------------------------------------------------------------------------------
(* The invariant.                                                          *)

\* Between two mutate() calls the originals of the sites are gone, there is a
\* global for each site, a mutation is by the mutator for its original, and only
\* main calls the loader.
SameInv ==
  /\ CorrespondsInv(ir, Sites, mutations)
  /\ Sites \cap DOMAIN ir.code \subseteq {current}
  /\ DOMAIN globals = {Global(program.id[i]) : i \in Sites}
  /\ \A n \in DOMAIN mutations :
       mutations[n].operator = MutatorFor(Source.code[mutations[n].original].op)
  /\ LoaderCall \in DOMAIN ir.code => program.name = "main"

SInv == IInv /\ FlowInv /\ SameInv

LEMMA CorrespondsNext ==
  ASSUME program' = program, CorrespondsInv(ir', Sites', mutations')
  PROVE  CorrespondsInv(ir, Sites, mutations)'
<1>1. CodeInv(ir, Sites, mutations)'
  <2>1. CodeInv(ir', Sites', mutations')
    BY DEF CorrespondsInv
  <2>2. (\A x \in Origs \cap DOMAIN ir.code : IsNow(Sites, Source.code[x], ir.code[x]))'
    BY <2>1 DEF CodeInv, IsNow, Now, Source, Origs
  <2>3. (\A x \in Origs \cap DOMAIN ir.code :
           ir.code[x].op = "phi" => EdgesNow(ir, Sites, x))'
    BY <2>1 DEF CodeInv, EdgesNow, IsEdge, EndsIn, Now, Source, Origs
  <2>4. (\A i \in Sites : /\ IsNow(Sites, Source.code[i], ir.code[Clone(i)])
                         /\ ir.code[CloneBr(i)].op = "br"
                         /\ ir.code[GlobalLoad(i)].op = "load"
                         /\ ir.code[Switch(i)].args = << GlobalLoad(i) >>)'
    BY <2>1 DEF CodeInv, IsNow, Now, Source
  <2>5. (\A i \in Sites : MutatorFor(Source.code[i].op) # "none")'
    BY <2>1 DEF CodeInv, Source
  <2>6. (\A n \in DOMAIN mutations : ir.code[MutantBr(n)].op = "br")'
    BY <2>1 DEF CodeInv
  <2>7. (LoaderCall \in DOMAIN ir.code => ir.code[LoaderCall].op = "call")'
    BY <2>1 DEF CodeInv
  <2> QED  BY <2>2, <2>3, <2>4, <2>5, <2>6, <2>7 DEF CodeInv
<1>2. OrderInv(ir, Sites)'
  BY DEF CorrespondsInv, OrderInv, NextTo, Ends, Begins, Source
<1>3. HeadInv(ir, Sites)'
  BY DEF CorrespondsInv, HeadInv, CallsFirst, AtHead, NextTo, Begins, Source
<1> QED  BY <1>1, <1>2, <1>3 DEF CorrespondsInv

LEMMA InitSame == Init => SameInv
<1> SUFFICES ASSUME Init PROVE SameInv
  OBVIOUS
<1>1. /\ program \in Programs /\ ir = Source /\ Sites = {} /\ mutations = <<>>
      /\ DOMAIN globals = {}
  BY DEF Init, EngineInit, Sites, Source
<1>2. CorrespondsInv(ir, Sites, mutations)
  BY <1>1, SourceCorresponds
<1>3. LoaderCall \notin DOMAIN ir.code
  BY <1>1, SourceIs, ProgramIs DEF LoaderCall
<1> QED  BY <1>1, <1>2, <1>3 DEF SameInv

LEMMA ConstructSame == IInv /\ SameInv /\ Construct => SameInv'
<1> SUFFICES ASSUME IInv, SameInv, Construct PROVE SameInv'
  OBVIOUS
<1>1. /\ program \in Programs /\ program' = program
      /\ mutations' = mutations /\ Sites' = Sites /\ globals' = globals
      /\ ir = Source /\ Sites = {} /\ mutations = <<>>
      /\ ir' = IF program.name = "main" THEN Called(Source) ELSE Source
  BY NothingYet DEF IInv, ProgramInv, Construct, prepare, Sites, maps, Called, Source
<1>2. CorrespondsInv(Source, {}, <<>>) /\ CorrespondsInv(Called(Source), {}, <<>>)
  BY <1>1, SourceCorresponds, CallCorresponds
<1>3. CorrespondsInv(ir', Sites', mutations')
  BY <1>1, <1>2
<1>4. CorrespondsInv(ir, Sites, mutations)'
  BY <1>1, <1>3, CorrespondsNext
<1>5. LoaderCall \notin DOMAIN Source.code
  BY <1>1, SourceIs, ProgramIs DEF LoaderCall
<1>6. LoaderCall \in DOMAIN ir'.code => program'.name = "main"
  BY <1>1, <1>5
<1> QED  BY <1>1, <1>4, <1>6 DEF SameInv, Source

LEMMA SameUnmoved ==
  ASSUME SameInv, UNCHANGED << program, ir, globals, mutations, maps >>,
         Sites \cap DOMAIN ir.code \subseteq {current'}
  PROVE  SameInv'
<1>1. Sites' = Sites
  BY DEF Sites, maps
<1>2. CorrespondsInv(ir', Sites', mutations')
  BY <1>1 DEF SameInv
<1>3. CorrespondsInv(ir, Sites, mutations)'
  BY <1>2, CorrespondsNext
<1> QED  BY <1>1, <1>3 DEF SameInv, Source

LEMMA EndSame == IInv /\ FlowInv /\ SameInv /\ End => SameInv'
<1> SUFFICES ASSUME IInv, FlowInv, SameInv, End PROVE SameInv'
  OBVIOUS
<1>1. /\ program \in Programs /\ program' = program /\ globals' = globals
      /\ mutations' = mutations /\ Sites' = Sites /\ current' = None
      /\ ir' = IF hasBeenMutated(current) THEN Erase(ir, current) ELSE ir
      /\ current # None
  BY DEF IInv, ProgramInv, End, EndMutate, Sites, maps
<1>2. CASE ~ hasBeenMutated(current)
  <2>1. UNCHANGED << program, ir, globals, mutations, maps >>
    BY <1>1, <1>2 DEF End, EndMutate
  <2>2. Sites \cap DOMAIN ir.code \subseteq {current'}
    BY <1>2 DEF SameInv, hasBeenMutated, Sites
  <2> QED  BY <2>1, <2>2, SameUnmoved
<1>3. CASE hasBeenMutated(current)
  <2> DEFINE g == Erase(ir, current)
  <2>1. /\ CanErase(ir, Sites, mutations, current)
        /\ \A n \in DOMAIN mutations : mutations[n].original \in Sites
    <3>1. current \in Sites /\ current \in DOMAIN ir.code
      BY <1>1, <1>3 DEF hasBeenMutated, Sites, IInv, VisitInv
    <3>2. WellFormed(ir, Names) /\ ShapeInv(ir, Sites, mutations)
      BY DEF IInv, FunctionInv, FlowInv
    <3>3. Sites \subseteq Origs
      BY <1>1, ProgramIs DEF IInv, MapsInv
    <3> QED  BY <3>1, <3>2, <3>3 DEF CanErase, IInv, MutationsInv
  <2>2. CorrespondsInv(g, Sites, mutations)
    BY <1>1, <2>1, EraseCorresponds DEF IInv, SameInv
  <2>3. DOMAIN g.code = DOMAIN ir.code \ {current}
    BY <2>1, EraseIs DEF CanErase
  <2>4. ir' = g
    BY <1>1, <1>3
  <2> HIDE DEF g
  <2>5. CorrespondsInv(ir', Sites', mutations')
    BY <1>1, <2>2, <2>4
  <2>6. CorrespondsInv(ir, Sites, mutations)'
    BY <1>1, <2>5, CorrespondsNext
  <2> QED  BY <1>1, <2>3, <2>4, <2>6 DEF SameInv, Source
<1> QED  BY <1>2, <1>3

\* What one mutation makes of a function.
LEMMA InjectCorresponds ==
  ASSUME program \in Programs, NEW f, NEW S, NEW ms, NEW i, NEW candidate, NEW m,
         CanInject(f, S, ms, i, candidate, m), CorrespondsInv(f, S, ms)
  PROVE  LET g == Injected(f, i, Len(ms) + 1, candidate) IN
         /\ CorrespondsInv(g, S, Append(ms, m))
         /\ DOMAIN g.code = DOMAIN f.code \cup {Mutant(Len(ms) + 1), MutantBr(Len(ms) + 1)}
<1> DEFINE n == Len(ms) + 1
           g == Injected(f, i, n, candidate)
           R == Append(ms, m)
<1>1. IsGrown(f, g, Names, ms, i, n, candidate)
  BY InjectGrows
<1>2. Grows(f, g, S, ms, R, i, n, candidate, m)
  BY <1>1, MutationsAppended DEF Grows, CanInject, MayInject
<1> HIDE DEF n, g, R
<1>3. CorrespondsInv(g, S, R)
  BY <1>2, GrownCorresponds
<1>4. DOMAIN g.code = DOMAIN f.code \cup {Mutant(n), MutantBr(n)}
  BY <1>1, GrownHas
<1> QED  BY <1>3, <1>4 DEF n, g, R

LEMMA GlobalsGrow ==
  ASSUME NEW m, NEW k, NEW v
  PROVE  DOMAIN Emplace(m, k, v) = DOMAIN m \cup {k}
BY PutIs DEF Emplace

LEMMA InjectSame == IInv /\ FlowInv /\ SameInv /\ Inject => SameInv'
<1> SUFFICES ASSUME IInv, FlowInv, SameInv, Inject PROVE SameInv'
  OBVIOUS
<1> DEFINE i == current
           c == Head(pending)
           m == Mutation(i, c)
           f == PreparedFor(i)
           S == Sites \cup {i}
<1>1. /\ program \in Programs /\ program' = program /\ inject(i, c)
      /\ i \in DOMAIN program.id /\ Sites' = S
      /\ ir' = Injected(f, i, Len(mutations) + 1, c)
      /\ mutations' = Append(mutations, m) /\ current' = current
  BY InjectIs DEF Inject, InjectCandidate
<1>2. /\ ~ hasBeenMutated(i) => CanPrepare(ir, Sites, mutations, i)
      /\ CanInject(f, S, mutations, i, c, m)
  BY InjectCan
<1> HIDE DEF c, m
<1>3. /\ CorrespondsInv(f, S, mutations)
      /\ S \cap DOMAIN f.code \subseteq {i}
      /\ DOMAIN globals' = {Global(program.id[j]) : j \in S}
      /\ LoaderCall \in DOMAIN f.code => LoaderCall \in DOMAIN ir.code
  <2>1. CASE hasBeenMutated(i)
    <3>1. f = ir /\ S = Sites
      BY <2>1 DEF hasBeenMutated, Sites, PreparedFor
    <3>2. globals' = globals
      BY <1>1, <2>1 DEF inject
    <3> QED  BY <3>1, <3>2 DEF SameInv
  <2>2. CASE ~ hasBeenMutated(i)
    <3>1. f = PreparedIR(ir, i) /\ CanPrepare(ir, Sites, mutations, i)
      BY <1>2, <2>2 DEF PreparedFor
    <3> HIDE DEF f
    <3>2. CorrespondsInv(f, S, mutations)
      BY <1>1, <3>1, PrepareCorresponds DEF SameInv
    <3>3. /\ S \cap DOMAIN f.code \subseteq {i}
          /\ LoaderCall \in DOMAIN f.code => LoaderCall \in DOMAIN ir.code
      <4>1. \E b, k : IsSplit(ir, f, Names, i, b, k)
        BY <1>1, <3>1, PrepareSplits
      <4>2. DOMAIN f.code = (DOMAIN ir.code \cup Created(i)) \ {SplitBr(i)}
        BY <4>1 DEF IsSplit, IsPrepared
      <4>3. \A j \in S : j[1] = "orig"
        BY <1>1, <3>1, ProgramIs DEF CanPrepare
      <4> QED  BY <4>2, <4>3
            DEF SameInv, Created, Clone, CloneBr, GlobalLoad, Switch, SplitBr, Phi, LoaderCall
    <3>4. DOMAIN globals' = DOMAIN globals \cup {Global(program.id[i])}
      <4>1. globals' = Emplace(globals, Global(program.id[i]), "i64*")
        BY <1>1, <2>2 DEF inject, prepareInstruction, SourceID
      <4> QED  BY <4>1, GlobalsGrow
    <3> QED  BY <3>2, <3>3, <3>4 DEF SameInv
  <2> QED  BY <2>1, <2>2
<1> DEFINE g == Injected(f, i, Len(mutations) + 1, c)
<1> HIDE DEF f
<1>4. /\ CorrespondsInv(g, S, Append(mutations, m))
      /\ DOMAIN g.code = DOMAIN f.code \cup {Mutant(Len(mutations) + 1),
                                             MutantBr(Len(mutations) + 1)}
  BY <1>1, <1>2, <1>3, InjectCorresponds
<1> HIDE DEF g
<1>5. ir' = g
  BY <1>1 DEF g
<1>6. CorrespondsInv(ir', Sites', mutations')
  BY <1>1, <1>4, <1>5
<1>7. CorrespondsInv(ir, Sites, mutations)'
  BY <1>1, <1>6, CorrespondsNext
<1>8. S \subseteq Origs
  BY <1>2 DEF CanInject, MayInject
<1>a. \A j \in S : j[1] = "orig"
  BY <1>1, <1>8, ProgramIs
<1>9. /\ Sites' \cap DOMAIN ir'.code \subseteq {current'}
      /\ LoaderCall \in DOMAIN ir'.code => LoaderCall \in DOMAIN ir.code
  BY <1>1, <1>3, <1>4, <1>5, <1>a DEF Mutant, MutantBr, LoaderCall
<1>10. DOMAIN globals' = {Global(program'.id[j]) : j \in Sites'}
  BY <1>1, <1>3
<1>11. ASSUME NEW n \in DOMAIN mutations'
       PROVE  mutations'[n].operator = MutatorFor(Source.code[mutations'[n].original].op)
  <2>1. m.operator = MutatorFor(Source.code[m.original].op)
    <3>1. i \in Origs \cap DOMAIN ir.code
      BY <1>1, ProgramIs DEF InjectCandidate, IInv, VisitInv, PendingInv, Inject
    <3>2. IsNow(Sites, Source.code[i], ir.code[i])
      BY <3>1 DEF SameInv, CorrespondsInv, CodeInv
    <3> QED  BY <3>2 DEF m, Mutation, IsNow
  <2>2. mutations \in Seq(MutationRecords)
    BY DEF IInv, MutationsInv
  <2>3. /\ mutations' = Append(mutations, m) /\ Len(mutations) \in Nat
        /\ DOMAIN mutations = 1 .. Len(mutations)
    BY <1>1, <2>2
  <2>4. CASE n \in DOMAIN mutations
    <3>1. mutations'[n] = mutations[n]
      BY <2>2, <2>3, <2>4, AppendIs
    <3> QED  BY <2>4, <3>1 DEF SameInv
  <2>5. CASE n \notin DOMAIN mutations
    <3>1. mutations'[n] = m
      BY <1>11, <2>2, <2>3, <2>5, AppendIs
    <3> QED  BY <2>1, <3>1
  <2> QED  BY <2>4, <2>5
<1> QED  BY <1>1, <1>7, <1>9, <1>10, <1>11 DEF SameInv, Source

LEMMA StepSame == SInv /\ [Next]_vars => SInv'
<1> SUFFICES ASSUME IInv, FlowInv, SameInv, [Next]_vars PROVE SameInv'
  BY StepInv, StepFlow DEF SInv
<1>1. CASE Construct
  BY <1>1, ConstructSame
<1>2. CASE Collect
  <2>1. UNCHANGED << program, ir, globals, mutations, maps, current >>
    BY <1>2 DEF Collect, engineVars
  <2> QED  BY <2>1, SameUnmoved DEF SameInv
<1>3. CASE \E i \in instructions : Begin(i)
  <2>1. UNCHANGED << program, ir, globals, mutations, maps >> /\ current = None
    BY <1>3 DEF Begin, BeginMutate
  <2>2. None \notin Sites
    BY ProgramIs DEF IInv, ProgramInv, MapsInv
  <2> QED  BY <2>1, <2>2, SameUnmoved DEF SameInv
<1>4. CASE Skip
  <2>1. UNCHANGED << program, ir, globals, mutations, maps, current >>
    BY <1>4 DEF Skip, SkipCandidate
  <2> QED  BY <2>1, SameUnmoved DEF SameInv
<1>5. CASE Inject
  BY <1>5, InjectSame
<1>6. CASE End
  BY <1>6, EndSame
<1>7. CASE Mutated \/ WriteTable \/ WriteBitcode \/ UNCHANGED vars
  <2>1. UNCHANGED << program, ir, globals, mutations, maps, current >>
    BY <1>7 DEF Mutated, WriteTable, writeMutationTable, WriteBitcode, engineVars, vars
  <2> QED  BY <2>1, SameUnmoved DEF SameInv
<1>8. CASE Returned
  <2>1. UNCHANGED << program, ir, globals, mutations, maps, current >>
    BY <1>8 DEF Returned, engineVars, vars
  <2> QED  BY <2>1, SameUnmoved DEF SameInv
<1> QED  BY <1>1, <1>2, <1>3, <1>4, <1>5, <1>6, <1>7, <1>8 DEF Next

-------------------------------------------------------------------------------
(* The source program.                                                     *)

\* In x's place, y is computed on every path to x.
Precedes(y, x) ==
  IF BlockOf(Source, y) = BlockOf(Source, x)
  THEN IndexOf(Source, y) < IndexOf(Source, x)
  ELSE BlockOf(Source, x) \notin ReachableAvoiding(Source, BlockOf(Source, y))

LEMMA SourceGraph == program \in Programs => IsGraph(Source)
<1> SUFFICES ASSUME program \in Programs PROVE IsGraph(Source)
  OBVIOUS
<1>1. IsFiniteSet(BlocksOf(Source))
  BY RunnableAssumption DEF IsRunnable, Source
<1>2. Source.entry \in BlocksOf(Source)
  BY ProgramIs DEF Source, BlocksOf
<1>3. ASSUME NEW b \in BlocksOf(Source) PROVE Succs(Source, b) \subseteq BlocksOf(Source)
  <2>1. /\ WellFormed(Source, Origs) /\ OnePlace(Source) /\ BlocksWellFormed(Source)
        /\ TargetsAreBlocks(Source)
    BY SourceIs
  <2>2. /\ Succs(Source, b) = ToSet(Source.code[Final(Source, b)].to)
        /\ Final(Source, b) \in DOMAIN Source.code
    BY <1>3, <2>1, BlockIs DEF BlocksOf
  <2> QED  BY <2>1, <2>2 DEF TargetsAreBlocks, BlocksOf
<1> QED  BY <1>1, <1>2, <1>3 DEF IsGraph

\* The place of an instruction of the source, and what it may mention.
LEMMA SourceAt ==
  ASSUME program \in Programs, NEW x \in Origs
  PROVE  LET b == BlockOf(Source, x)
             k == IndexOf(Source, x) IN
         /\ b \in DOMAIN Source.layout /\ k \in DOMAIN Source.layout[b]
         /\ k \in Nat \ {0} /\ k <= Len(Source.layout[b]) /\ Source.layout[b][k] = x
         /\ \A c \in DOMAIN Source.layout : \A l \in DOMAIN Source.layout[c] :
              Source.layout[c][l] = x => c = b /\ l = k
         /\ Source.code[x].op \in Terminators <=> k = Len(Source.layout[b])
         /\ x[1] = "orig"
<1>1. /\ WellFormed(Source, Origs) /\ OnePlace(Source) /\ BlocksWellFormed(Source)
      /\ DOMAIN Source.code = Origs
  BY SourceIs
<1>2. PICK b, k : OnlyAt(Source, x, b, k)
  BY <1>1, PlaceOf
<1>3. BlockOf(Source, x) = b /\ IndexOf(Source, x) = k
  BY <1>1, <1>2, OnlyAtIs
<1>4. /\ b \in DOMAIN Source.layout /\ k \in DOMAIN Source.layout[b]
      /\ Source.layout[b][k] = x
      /\ \A c \in DOMAIN Source.layout : \A l \in DOMAIN Source.layout[c] :
           Source.layout[c][l] = x => c = b /\ l = k
  BY <1>2 DEF OnlyAt
<1>5. /\ DOMAIN Source.layout[b] = 1 .. Len(Source.layout[b])
      /\ Len(Source.layout[b]) \in Nat
  BY <1>4, SourceIs
<1>6. Source.code[x].op \in Terminators <=> k = Len(Source.layout[b])
  BY <1>1, <1>4, BlockIs
<1>7. x[1] = "orig"
  BY ProgramIs
<1> QED  BY <1>3, <1>4, <1>5, <1>6, <1>7

LEMMA SourceDominance ==
  ASSUME program \in Programs, NEW x \in Origs, BlockOf(Source, x) \in Live(Source)
  PROVE  /\ \A v \in ToSet(Source.code[x].args) \cap Origs : Precedes(v, x)
         /\ \A e \in Source.code[x].in : e[1] \in Origs /\ e[2] \in Live(Source) =>
              \/ BlockOf(Source, e[1]) = e[2]
              \/ e[2] \notin ReachableAvoiding(Source, BlockOf(Source, e[1]))
<1>1. DefinitionsDominateUses(Source)
  BY RunnableAssumption DEF IsRunnable, Source
<1>2. DOMAIN Source.code = Origs
  BY SourceIs
<1>a. \A v \in Origs : BlockOf(Source, v) \in BlocksOf(Source)
  BY SourceAt DEF BlocksOf
<1> DEFINE reach == [a \in BlocksOf(Source) |-> ReachableAvoiding(Source, a)]
           live == Closure(Source, LAMBDA b : Succs(Source, b), {Source.entry})
           block == [y \in DOMAIN Source.code |-> BlockOf(Source, y)]
           Dom(a, b) == a = b \/ b \notin reach[a]
<1>3. live = Live(Source)
  BY Zenon DEF Live
<1>4. \A y \in {z \in DOMAIN Source.code : block[z] \in live} :
        /\ \A v \in ToSet(Source.code[y].args) \cap DOMAIN Source.code :
             IF block[v] = block[y]
             THEN IndexOf(Source, v) < IndexOf(Source, y)
             ELSE Dom(block[v], block[y])
        /\ \A e \in Source.code[y].in :
             (e[1] \in DOMAIN Source.code /\ e[2] \in live) => Dom(block[e[1]], e[2])
  BY <1>1, Zenon DEF DefinitionsDominateUses
<1> HIDE DEF live
<1>5. x \in {z \in DOMAIN Source.code : block[z] \in live}
  BY <1>2, <1>3
<1>6. /\ \A v \in ToSet(Source.code[x].args) \cap DOMAIN Source.code :
             IF block[v] = block[x]
             THEN IndexOf(Source, v) < IndexOf(Source, x)
             ELSE Dom(block[v], block[x])
      /\ \A e \in Source.code[x].in :
             (e[1] \in DOMAIN Source.code /\ e[2] \in live) => Dom(block[e[1]], e[2])
  BY <1>4, <1>5, Zenon
<1>7. ASSUME NEW v \in ToSet(Source.code[x].args) \cap Origs PROVE Precedes(v, x)
  BY <1>2, <1>6, <1>a DEF Precedes
<1>8. ASSUME NEW e \in Source.code[x].in, e[1] \in Origs, e[2] \in Live(Source)
      PROVE  \/ BlockOf(Source, e[1]) = e[2]
             \/ e[2] \notin ReachableAvoiding(Source, BlockOf(Source, e[1]))
  BY <1>2, <1>3, <1>6, <1>8, <1>a
<1> QED  BY <1>7, <1>8

-------------------------------------------------------------------------------
(* The supermutant.                                                        *)

\* The pass is over.
Over == SInv /\ phase = "done"

LEMMA OverIs ==
  ASSUME Over
  PROVE  /\ program \in Programs /\ Sites \subseteq Origs /\ Sites \subseteq DOMAIN program.id
         /\ Sites \cap DOMAIN ir.code = {} /\ Origs \ Sites \subseteq DOMAIN ir.code
         /\ \A i \in Sites : MutatorFor(Source.code[i].op) # "none"
         /\ WellFormed(ir, Names) /\ OnePlace(ir) /\ BlocksWellFormed(ir)
         /\ PhisMatchPredecessors(ir) /\ TargetsAreBlocks(ir) /\ ir.entry = Source.entry
         /\ ShapeInv(ir, Sites, mutations) /\ NamesInv(ir, Sites, mutations)
         /\ CodeInv(ir, Sites, mutations) /\ OrderInv(ir, Sites) /\ HeadInv(ir, Sites)
<1>1. /\ program \in Programs /\ WellFormed(ir, Names) /\ current = None
      /\ Sites \subseteq DOMAIN program.id
  BY DEF Over, SInv, IInv, ProgramInv, FunctionInv, VisitInv, MapsInv
<1>2. /\ DOMAIN program.id \subseteq Origs /\ None \notin Origs
  BY <1>1, ProgramIs
<1>3. /\ ShapeInv(ir, Sites, mutations) /\ NamesInv(ir, Sites, mutations)
      /\ OnePlace(ir) /\ BlocksWellFormed(ir) /\ PhisMatchPredecessors(ir)
      /\ TargetsAreBlocks(ir) /\ ir.entry = Source.entry
  BY DEF Over, SInv, FlowInv, ShapeInv, Verified, Source
<1>4. CodeInv(ir, Sites, mutations) /\ OrderInv(ir, Sites) /\ HeadInv(ir, Sites)
  BY DEF Over, SInv, SameInv, CorrespondsInv
<1>5. Sites \cap DOMAIN ir.code = {}
  BY <1>1, <1>2 DEF Over, SInv, SameInv
<1>6. Origs \ Sites \subseteq DOMAIN ir.code
  BY <1>3 DEF NamesInv
<1>7. \A i \in Sites : MutatorFor(Source.code[i].op) # "none"
  BY <1>4 DEF CodeInv
<1> QED  BY <1>1, <1>2, <1>3, <1>4, <1>5, <1>6, <1>7

LEMMA SitesArePlain ==
  ASSUME Over, NEW i \in Sites
  PROVE  /\ i \in Origs /\ Source.code[i].op \notin Terminators
         /\ Source.code[i].op # "phi" /\ Source.code[i].op # "alloca"
BY OverIs, MutableOps

LEMMA NextIs ==
  ASSUME Over, NEW x, NEW y, NextTo(ir, x, y)
  PROVE  NextInstruction(ir, x) = y
<1>1. WellFormed(ir, Names) /\ OnePlace(ir)
  BY OverIs
<1>2. PICK b \in DOMAIN ir.layout : \E k \in DOMAIN ir.layout[b] :
        k + 1 \in DOMAIN ir.layout[b] /\ ir.layout[b][k] = x /\ ir.layout[b][k + 1] = y
  BY DEF NextTo
<1>3. PICK k \in DOMAIN ir.layout[b] :
        k + 1 \in DOMAIN ir.layout[b] /\ ir.layout[b][k] = x /\ ir.layout[b][k + 1] = y
  BY <1>2
<1>4. BlockOf(ir, x) = b /\ IndexOf(ir, x) = k
  BY <1>1, <1>3, PlaceIn
<1> QED  BY <1>3, <1>4 DEF NextInstruction

\* What comes next in the source, and in the supermutant.
LEMMA Follows ==
  ASSUME Over, NEW x \in Origs, Source.code[x].op \notin Terminators
  PROVE  LET y == NextInstruction(Source, x) IN
         /\ y \in Origs
         /\ BlockOf(Source, y) = BlockOf(Source, x)
         /\ IndexOf(Source, y) = IndexOf(Source, x) + 1
         /\ Source.code[x].op # "phi" => Source.code[y].op # "phi"
         /\ NextTo(ir, Now(Sites, x), Begins(Sites, y))
<1> DEFINE b == BlockOf(Source, x)
           k == IndexOf(Source, x)
           y == Source.layout[b][k + 1]
<1>1. /\ program \in Programs /\ OrderInv(ir, Sites)
      /\ Sites \cap DOMAIN ir.code = {} /\ Origs \ Sites \subseteq DOMAIN ir.code
  BY OverIs
<1>2. /\ WellFormed(Source, Origs) /\ OnePlace(Source) /\ BlocksWellFormed(Source)
      /\ DOMAIN Source.code = Origs
  BY <1>1, SourceIs
<1>3. /\ b \in DOMAIN Source.layout /\ k \in DOMAIN Source.layout[b]
      /\ k \in Nat \ {0} /\ k <= Len(Source.layout[b]) /\ Source.layout[b][k] = x
      /\ k # Len(Source.layout[b])
  BY <1>1, SourceAt
<1>a. NextInstruction(Source, x) = y
  BY DEF NextInstruction
<1> HIDE DEF b, k
<1>4. /\ DOMAIN Source.layout[b] = 1 .. Len(Source.layout[b])
      /\ Len(Source.layout[b]) \in Nat \ {0}
      /\ \A l \in DOMAIN Source.layout[b] : Source.layout[b][l] \in Origs
  BY <1>1, <1>3, SourceIs
<1>5. k + 1 \in DOMAIN Source.layout[b] /\ y \in Origs
  BY <1>3, <1>4
<1>6. BlockOf(Source, y) = b /\ IndexOf(Source, y) = k + 1
  BY <1>2, <1>3, <1>5, PlaceIn
<1>7. Source.code[x].op # "phi" => Source.code[y].op # "phi"
  <2>1. \A j \in 1 .. (k + 1) - 1 :
          Source.code[Source.layout[b][k + 1]].op = "phi"
            => Source.code[Source.layout[b][j]].op = "phi"
    BY <1>2, <1>3, <1>5, BlockIs
  <2>2. k \in 1 .. (k + 1) - 1
    BY <1>3
  <2> QED  BY <1>3, <2>1, <2>2
<1>8. NextTo(ir, Ends(ir, x), Begins(Sites, y))
  BY <1>1, <1>3, <1>5 DEF OrderInv
<1>9. Ends(ir, x) = Now(Sites, x)
  BY <1>1 DEF Ends, Now
<1>10. NextTo(ir, Now(Sites, x), Begins(Sites, y))
  BY <1>8, <1>9
<1> HIDE DEF y
<1> QED  BY <1>a, <1>5, <1>6, <1>7, <1>10 DEF b, k

\* A set of numbers has a least one.
LEMMA LeastOf ==
  ASSUME NEW n \in Nat, NEW K \in SUBSET (1 .. n), K # {}
  PROVE  \E k \in K : \A j \in K : k <= j
<1> DEFINE Z == {1 .. k : k \in K}
           B == 1 .. n
<1>1. IsFiniteSet(B)
  BY FS_Interval
<1>2. Z \in SUBSET SUBSET B /\ Z # {}
  <2>1. \A k \in K : 1 .. k \subseteq 1 .. n
    OBVIOUS
  <2> QED  BY <2>1
<1> HIDE DEF Z, B
<1>3. PICK T \in Z : \A U \in Z : U \subseteq T => U = T
  BY <1>1, <1>2, Smallest
<1>4. PICK k \in K : T = 1 .. k
  BY DEF Z
<1>5. ASSUME NEW j \in K, j < k PROVE FALSE
  <2>1. 1 .. j \subseteq T /\ 1 .. j \in Z
    BY <1>4, <1>5 DEF Z
  <2>2. 1 .. j = 1 .. k
    BY <1>3, <1>4, <2>1
  <2>3. k \in 1 .. k /\ k \notin 1 .. j
    BY <1>5
  <2> QED  BY <2>2, <2>3
<1> QED  BY <1>5

\* The first instruction of a block of the source that is not a phi.
LEMMA SourceFirst ==
  ASSUME program \in Programs, NEW b \in DOMAIN Source.layout
  PROVE  LET x == FirstNonPHI(Source, b) IN
         /\ x \in Origs /\ BlockOf(Source, x) = b /\ Source.code[x].op # "phi"
         /\ AtHead(b, IndexOf(Source, x))
<1>1. /\ WellFormed(Source, Origs) /\ OnePlace(Source) /\ BlocksWellFormed(Source)
      /\ DOMAIN Source.code = Origs
  BY SourceIs
<1> DEFINE s == Source.layout[b]
           P(k) == /\ Source.code[s[k]].op # "phi"
                   /\ \A j \in 1 .. k - 1 : Source.code[s[j]].op = "phi"
<1>2. /\ DOMAIN s = 1 .. Len(s) /\ Len(s) \in Nat \ {0}
      /\ Source.code[s[Len(s)]].op \in Terminators
      /\ \A k \in DOMAIN s : s[k] \in Origs
  BY <1>1, SourceIs, BlockIs DEF Final
<1>3. \E k \in DOMAIN s : P(k)
  <2> DEFINE K == {k \in DOMAIN s : Source.code[s[k]].op # "phi"}
  <2>1. Len(s) \in K
    BY <1>2 DEF Terminators
  <2>2. K \in SUBSET (1 .. Len(s))
    BY <1>2
  <2> HIDE DEF K, s
  <2>3. PICK k \in K : \A j \in K : k <= j
    BY <1>2, <2>1, <2>2, LeastOf
  <2>4. \A j \in 1 .. k - 1 : j \in DOMAIN s /\ j \notin K
    BY <1>2, <2>2, <2>3
  <2> QED  BY <2>3, <2>4 DEF K
<1>4. FirstNonPHI(Source, b) = s[CHOOSE k \in DOMAIN s : P(k)]
  BY DEF FirstNonPHI
<1> DEFINE q == CHOOSE k \in DOMAIN s : P(k)
<1>5. q \in DOMAIN s /\ P(q)
  BY <1>3
<1> HIDE DEF q
<1>6. FirstNonPHI(Source, b) = s[q]
  BY <1>4 DEF q
<1>7. BlockOf(Source, s[q]) = b /\ IndexOf(Source, s[q]) = q
  BY <1>1, <1>5, PlaceIn
<1> QED  BY <1>2, <1>5, <1>6, <1>7 DEF AtHead

-------------------------------------------------------------------------------
(* Where a run is in the source, and which sites have been passed.         *)

\* Instruction x of the source can be reached, and every site that is passed on all
\* the ways to it has its value among D.
Ready(D, x) ==
  /\ x \in Origs /\ Source.code[x].op # "phi"
  /\ BlockOf(Source, x) \in Live(Source)
  /\ \A i \in Sites : Precedes(i, x) => Phi(i) \in D

LEMMA ReadyAtEntry ==
  ASSUME Over, NEW D
  PROVE  Ready(D, FirstNonPHI(Source, Source.entry))
<1> DEFINE b == Source.entry
           x == FirstNonPHI(Source, b)
<1>1. /\ program \in Programs /\ IsGraph(Source) /\ b \in DOMAIN Source.layout
  BY OverIs, SourceGraph, ProgramIs DEF Source
<1>2. /\ x \in Origs /\ BlockOf(Source, x) = b /\ Source.code[x].op # "phi"
      /\ AtHead(b, IndexOf(Source, x))
  BY <1>1, SourceFirst
<1> HIDE DEF x
<1>3. b \in Live(Source) /\ \A a : b # a => b \in ReachableAvoiding(Source, a)
  BY <1>1, Reaches
<1>4. ASSUME NEW i \in Sites, Precedes(i, x) PROVE FALSE
  <2>1. /\ i \in Origs /\ Source.code[i].op # "phi"
    BY SitesArePlain
  <2>2. BlockOf(Source, i) = b /\ IndexOf(Source, i) < IndexOf(Source, x)
    BY <1>2, <1>3, <1>4 DEF Precedes
  <2>3. /\ Source.layout[b][IndexOf(Source, i)] = i /\ IndexOf(Source, i) \in Nat \ {0}
        /\ IndexOf(Source, x) \in Nat \ {0}
    BY <1>1, <1>2, <2>1, <2>2, SourceAt
  <2>4. IndexOf(Source, i) \in 1 .. IndexOf(Source, x) - 1
    BY <2>2, <2>3
  <2> QED  BY <1>2, <2>1, <2>3, <2>4 DEF AtHead
<1> QED  BY <1>2, <1>3, <1>4 DEF Ready, x

LEMMA ReadyNext ==
  ASSUME Over, NEW D, NEW E, D \subseteq E, NEW x, Ready(D, x),
         Source.code[x].op \notin Terminators, x \in Sites => Phi(x) \in E
  PROVE  Ready(E, NextInstruction(Source, x))
<1> DEFINE y == NextInstruction(Source, x)
<1>1. /\ y \in Origs /\ BlockOf(Source, y) = BlockOf(Source, x)
      /\ IndexOf(Source, y) = IndexOf(Source, x) + 1
      /\ Source.code[y].op # "phi" /\ x \in Origs
  BY Follows DEF Ready
<1> HIDE DEF y
<1>2. ASSUME NEW i \in Sites, Precedes(i, y) PROVE Phi(i) \in E
  <2>1. CASE Precedes(i, x)
    BY <2>1 DEF Ready
  <2>2. CASE ~ Precedes(i, x)
    <3>1. i \in Origs /\ program \in Programs
      BY OverIs
    <3>2. BlockOf(Source, i) = BlockOf(Source, x)
      BY <1>1, <1>2, <2>2 DEF Precedes
    <3>3. IndexOf(Source, i) \in Nat /\ IndexOf(Source, x) \in Nat
      BY <1>1, <3>1, SourceAt
    <3>4. IndexOf(Source, i) = IndexOf(Source, x)
      BY <1>1, <1>2, <2>2, <3>2, <3>3 DEF Precedes
    <3>5. i = x
      BY <1>1, <3>1, <3>2, <3>4, SourceAt
    <3> QED  BY <3>5
  <2> QED  BY <2>1, <2>2
<1> QED  BY <1>1, <1>2 DEF Ready, y

LEMMA ReadyTarget ==
  ASSUME Over, NEW D, NEW E, D \subseteq E, NEW x, Ready(D, x),
         Source.code[x].op \in Terminators, NEW b \in ToSet(Source.code[x].to)
  PROVE  /\ b \in DOMAIN Source.layout /\ b \in Succs(Source, BlockOf(Source, x))
         /\ b \in Live(Source) /\ x = Final(Source, BlockOf(Source, x))
         /\ Ready(E, FirstNonPHI(Source, b))
<1> DEFINE p == BlockOf(Source, x)
           y == FirstNonPHI(Source, b)
<1>1. /\ program \in Programs /\ IsGraph(Source) /\ x \in Origs /\ p \in Live(Source)
  BY OverIs, SourceGraph DEF Ready
<1>2. /\ p \in DOMAIN Source.layout /\ IndexOf(Source, x) = Len(Source.layout[p])
      /\ Source.layout[p][IndexOf(Source, x)] = x
  BY <1>1, SourceAt
<1> HIDE DEF p
<1>3. x = Final(Source, p)
  BY <1>2 DEF Final
<1>4. /\ Succs(Source, p) = ToSet(Source.code[x].to)
  BY <1>1, <1>2, <1>3, SourceIs, BlockIs
<1>5. b \in Succs(Source, p) /\ b \in Live(Source) /\ b \in DOMAIN Source.layout
  BY <1>1, <1>4, Reaches DEF BlocksOf
<1>6. /\ y \in Origs /\ BlockOf(Source, y) = b /\ Source.code[y].op # "phi"
      /\ AtHead(b, IndexOf(Source, y))
  BY <1>1, <1>5, SourceFirst
<1> HIDE DEF y
<1>7. ASSUME NEW i \in Sites, Precedes(i, y) PROVE Phi(i) \in E
  <2>1. /\ i \in Origs /\ Source.code[i].op # "phi" /\ Source.code[i].op \notin Terminators
    BY SitesArePlain
  <2>2. BlockOf(Source, i) # b
    <3>1. SUFFICES ASSUME BlockOf(Source, i) = b PROVE FALSE
      OBVIOUS
    <3>2. IndexOf(Source, i) < IndexOf(Source, y)
      BY <1>6, <1>7, <3>1 DEF Precedes
    <3>3. /\ Source.layout[b][IndexOf(Source, i)] = i /\ IndexOf(Source, i) \in Nat \ {0}
          /\ IndexOf(Source, y) \in Nat \ {0}
      BY <1>1, <1>6, <2>1, <3>1, SourceAt
    <3>4. IndexOf(Source, i) \in 1 .. IndexOf(Source, y) - 1
      BY <3>2, <3>3
    <3> QED  BY <1>6, <2>1, <3>3, <3>4 DEF AtHead
  <2>3. b \notin ReachableAvoiding(Source, BlockOf(Source, i))
    BY <1>6, <1>7, <2>2 DEF Precedes
  <2>4. Precedes(i, x)
    <3>1. CASE BlockOf(Source, i) = p
      <4>1. /\ IndexOf(Source, i) \in Nat /\ IndexOf(Source, i) <= Len(Source.layout[p])
            /\ IndexOf(Source, i) # Len(Source.layout[p])
        BY <1>1, <2>1, <3>1, SourceAt
      <4>2. Len(Source.layout[p]) \in Nat
        BY <1>1, <1>2, SourceIs
      <4>3. IndexOf(Source, i) < IndexOf(Source, x)
        BY <1>2, <4>1, <4>2
      <4> QED  BY <3>1, <4>3 DEF Precedes, p
    <3>2. CASE BlockOf(Source, i) # p
      <4>1. p \notin ReachableAvoiding(Source, BlockOf(Source, i))
        BY <1>1, <1>5, <2>2, <2>3, Reaches
      <4> QED  BY <3>2, <4>1 DEF Precedes, p
    <3> QED  BY <3>1, <3>2
  <2> QED  BY <2>4 DEF Ready
<1> QED  BY <1>3, <1>5, <1>6, <1>7 DEF Ready, p, y

\* Every operand that is a site has a value, and so has what a phi takes over an edge.
LEMMA OperandsReady ==
  ASSUME Over, NEW D, NEW x, Ready(D, x), NEW v \in ToSet(Source.code[x].args), v \in Sites
  PROVE  Phi(v) \in D
<1>1. program \in Programs /\ v \in Origs
  BY OverIs
<1>2. Precedes(v, x)
  BY <1>1, SourceDominance DEF Ready
<1> QED  BY <1>2 DEF Ready

LEMMA EdgeReady ==
  ASSUME Over, NEW D, NEW x, Ready(D, x), Source.code[x].op \in Terminators,
         NEW y \in Origs, BlockOf(Source, y) \in ToSet(Source.code[x].to),
         NEW e \in Source.code[y].in, e[2] = BlockOf(Source, x), e[1] \in Sites
  PROVE  Phi(e[1]) \in D
<1> DEFINE p == BlockOf(Source, x)
           v == e[1]
<1>1. program \in Programs /\ v \in Origs /\ x \in Origs /\ p \in Live(Source)
  BY OverIs DEF Ready
<1>2. BlockOf(Source, y) \in Live(Source)
  BY ReadyTarget
<1>3. BlockOf(Source, v) = p \/ p \notin ReachableAvoiding(Source, BlockOf(Source, v))
  BY <1>1, <1>2, SourceDominance
<1>4. Precedes(v, x)
  <2>1. CASE BlockOf(Source, v) = p
    <3>1. /\ IndexOf(Source, x) = Len(Source.layout[p]) /\ p \in DOMAIN Source.layout
      BY <1>1, SourceAt
    <3>2. Source.code[v].op \notin Terminators
      BY SitesArePlain
    <3>3. /\ IndexOf(Source, v) \in Nat /\ IndexOf(Source, v) <= Len(Source.layout[p])
          /\ IndexOf(Source, v) # Len(Source.layout[p])
      BY <1>1, <2>1, <3>2, SourceAt
    <3>4. Len(Source.layout[p]) \in Nat
      BY <1>1, <3>1, SourceIs
    <3>5. IndexOf(Source, v) < IndexOf(Source, x)
      BY <3>1, <3>3, <3>4
    <3> QED  BY <2>1, <3>5 DEF Precedes
  <2>2. CASE BlockOf(Source, v) # p
    BY <1>3, <2>2 DEF Precedes
  <2> QED  BY <2>1, <2>2
<1> QED  BY <1>4 DEF Ready

-------------------------------------------------------------------------------
(* How blocks begin.                                                       *)

PhisOf(f, b) == {y \in ToSet(f.layout[b]) : f.code[y].op = "phi"}

LEMMA FirstIs ==
  ASSUME NEW f, NEW N, WellFormed(f, N), BlocksWellFormed(f), OnePlace(f),
         NEW b \in DOMAIN f.layout, NEW k \in DOMAIN f.layout[b],
         f.code[f.layout[b][k]].op # "phi",
         \A j \in 1 .. k - 1 : f.code[f.layout[b][j]].op = "phi"
  PROVE  /\ FirstNonPHI(f, b) = f.layout[b][k]
         /\ PhisOf(f, b) = {f.layout[b][j] : j \in 1 .. k - 1}
<1> DEFINE s == f.layout[b]
           P(l) == /\ f.code[s[l]].op # "phi"
                   /\ \A j \in 1 .. l - 1 : f.code[s[j]].op = "phi"
<1>1. /\ DOMAIN s = 1 .. Len(s) /\ Len(s) \in Nat
      /\ \A l \in DOMAIN s : \A j \in 1 .. l - 1 :
           f.code[s[l]].op = "phi" => f.code[s[j]].op = "phi"
  BY BlockIs
<1>2. k \in DOMAIN s /\ P(k)
  OBVIOUS
<1>a. FirstNonPHI(f, b) = s[CHOOSE l \in DOMAIN s : P(l)] /\ ToSet(s) = {s[l] : l \in DOMAIN s}
  BY DEF FirstNonPHI, ToSet
<1> HIDE DEF s
<1>3. ASSUME NEW l \in DOMAIN s, P(l) PROVE l = k
  <2>1. /\ l \in Nat /\ k \in Nat /\ l >= 1 /\ k >= 1
    BY <1>1, <1>2
  <2>2. CASE l < k
    <3>1. l \in 1 .. k - 1
      BY <2>1, <2>2
    <3> QED  BY <1>2, <1>3, <3>1
  <2>3. CASE k < l
    <3>1. k \in 1 .. l - 1
      BY <2>1, <2>3
    <3> QED  BY <1>2, <1>3, <3>1
  <2> QED  BY <2>1, <2>2, <2>3
<1>4. (CHOOSE l \in DOMAIN s : P(l)) = k
  BY <1>2, <1>3
<1>5. ASSUME NEW l \in DOMAIN s PROVE f.code[s[l]].op = "phi" <=> l \in 1 .. k - 1
  <2>1. /\ l \in Nat /\ k \in Nat /\ l >= 1 /\ k >= 1
    BY <1>1, <1>2
  <2>2. ASSUME f.code[s[l]].op = "phi" PROVE l < k
    <3>1. SUFFICES ASSUME k <= l PROVE FALSE
      BY <2>1
    <3>2. CASE k = l
      BY <1>2, <2>2, <3>2
    <3>3. CASE k # l
      <4>1. k \in 1 .. l - 1
        BY <2>1, <3>1, <3>3
      <4> QED  BY <1>1, <1>2, <2>2, <4>1
    <3> QED  BY <3>2, <3>3
  <2> QED  BY <1>2, <2>1, <2>2
<1>6. \A l \in 1 .. k - 1 : l \in DOMAIN s
  BY <1>1, <1>2
<1> HIDE DEF P
<1>7. {y \in ToSet(s) : f.code[y].op = "phi"} = {s[j] : j \in 1 .. k - 1}
  BY <1>a, <1>5, <1>6
<1> QED  BY <1>a, <1>4, <1>7 DEF PhisOf, s

\* The blocks of the source begin in the supermutant as they did, or with the call.
LEMMA EntersSource ==
  ASSUME Over, NEW b \in DOMAIN Source.layout
  PROVE  /\ b \in DOMAIN ir.layout
         /\ PhisOf(ir, b) = PhisOf(Source, b)
         /\ PhisOf(Source, b) \subseteq Origs \ Sites
         /\ FirstNonPHI(ir, b) = IF CallsFirst(ir, b) THEN LoaderCall
                                 ELSE Begins(Sites, FirstNonPHI(Source, b))
<1> DEFINE x == FirstNonPHI(Source, b)
           q == IndexOf(Source, x)
<1>1. /\ program \in Programs /\ WellFormed(ir, Names) /\ OnePlace(ir) /\ BlocksWellFormed(ir)
      /\ CodeInv(ir, Sites, mutations) /\ HeadInv(ir, Sites) /\ ir.entry = Source.entry
      /\ Origs \ Sites \subseteq DOMAIN ir.code /\ b \in DOMAIN ir.layout
  BY OverIs DEF HeadInv
<1>2. /\ WellFormed(Source, Origs) /\ OnePlace(Source) /\ BlocksWellFormed(Source)
      /\ DOMAIN Source.code = Origs
  BY <1>1, SourceIs
<1>3. /\ x \in Origs /\ BlockOf(Source, x) = b /\ Source.code[x].op # "phi" /\ AtHead(b, q)
  BY <1>1, SourceFirst
<1>4. /\ q \in DOMAIN Source.layout[b] /\ Source.layout[b][q] = x
  BY <1>1, <1>3, SourceAt
<1>5. /\ DOMAIN Source.layout[b] = 1 .. Len(Source.layout[b])
      /\ Len(Source.layout[b]) \in Nat \ {0}
      /\ \A k \in DOMAIN Source.layout[b] : Source.layout[b][k] \in Origs
  BY <1>1, SourceIs
<1>6. FirstNonPHI(Source, b) = Source.layout[b][q]
  BY <1>4
<1> HIDE DEF x, q
<1>7. /\ \A j \in 1 .. q - 1 : Source.code[Source.layout[b][j]].op = "phi"
      /\ Source.code[Source.layout[b][q]].op # "phi"
  BY <1>3, <1>4 DEF AtHead
<1>8. PhisOf(Source, b) = {Source.layout[b][j] : j \in 1 .. q - 1}
  BY <1>2, <1>4, <1>7, FirstIs
<1>9. PhisOf(Source, b) \subseteq Origs \ Sites
  <2>1. ASSUME NEW j \in 1 .. q - 1 PROVE Source.layout[b][j] \in Origs \ Sites
    <3>1. j \in DOMAIN Source.layout[b]
      BY <1>4, <1>5
    <3>2. Source.layout[b][j] \notin Sites
      BY <1>7, SitesArePlain
    <3> QED  BY <1>5, <3>1, <3>2
  <2> QED  BY <1>8, <2>1
<1>10. CASE ~ CallsFirst(ir, b)
  <2>1. ASSUME NEW j \in 1 .. q
        PROVE  /\ j \in DOMAIN ir.layout[b]
               /\ ir.layout[b][j] = Begins(Sites, Source.layout[b][j])
    <3>1. j \in DOMAIN Source.layout[b] /\ \A h \in 1 .. j - 1 : h \in 1 .. q - 1
      BY <1>4, <1>5
    <3>2. AtHead(b, j)
      BY <1>7, <3>1 DEF AtHead
    <3> QED  BY <1>1, <1>10, <3>1, <3>2 DEF HeadInv
  <2>2. ASSUME NEW j \in 1 .. q - 1
        PROVE  ir.layout[b][j] = Source.layout[b][j] /\ ir.code[ir.layout[b][j]].op = "phi"
    <3>1. j \in 1 .. q /\ j \in DOMAIN Source.layout[b]
      BY <1>4, <1>5
    <3>2. Source.layout[b][j] \in Origs \ Sites
      BY <1>8, <1>9
    <3>3. ir.layout[b][j] = Source.layout[b][j]
      BY <2>1, <3>1, <3>2 DEF Begins
    <3>4. IsNow(Sites, Source.code[Source.layout[b][j]], ir.code[Source.layout[b][j]])
      BY <1>1, <3>2 DEF CodeInv
    <3> QED  BY <1>7, <3>3, <3>4 DEF IsNow
  <2>3. /\ q \in DOMAIN ir.layout[b] /\ ir.layout[b][q] = Begins(Sites, x)
        /\ ir.code[ir.layout[b][q]].op # "phi"
    <3>1. q \in 1 .. q
      BY <1>4, <1>5
    <3>2. ir.layout[b][q] = Begins(Sites, x)
      BY <1>4, <2>1, <3>1
    <3>3. ir.code[Begins(Sites, x)].op # "phi"
      <4>1. CASE x \in Sites
        BY <1>1, <4>1 DEF CodeInv, Begins
      <4>2. CASE x \notin Sites
        <5>1. IsNow(Sites, Source.code[x], ir.code[x])
          BY <1>1, <1>3, <4>2 DEF CodeInv
        <5> QED  BY <1>3, <4>2, <5>1 DEF IsNow, Begins
      <4> QED  BY <4>1, <4>2
    <3> QED  BY <2>1, <3>1, <3>2, <3>3
  <2>4. /\ FirstNonPHI(ir, b) = ir.layout[b][q]
        /\ PhisOf(ir, b) = {ir.layout[b][j] : j \in 1 .. q - 1}
    BY <1>1, <2>2, <2>3, FirstIs
  <2> QED  BY <1>1, <1>8, <1>9, <1>10, <2>2, <2>3, <2>4 DEF x
<1>11. CASE CallsFirst(ir, b)
  <2>1. /\ b = ir.entry /\ LoaderCall \in DOMAIN ir.code /\ StartsWith(ir, LoaderCall)
    BY <1>1, <1>11 DEF CallsFirst, HeadInv
  <2>2. ir.layout[b][1] = LoaderCall /\ ir.layout[b] # <<>> /\ ir.code[LoaderCall].op = "call"
    BY <1>1, <2>1 DEF StartsWith, CodeInv
  <2>3. 1 \in DOMAIN ir.layout[b]
    BY <1>1, BlockIs
  <2>4. \A j \in 1 .. 1 - 1 : FALSE
    OBVIOUS
  <2>5. FirstNonPHI(ir, b) = LoaderCall /\ PhisOf(ir, b) = {ir.layout[b][j] : j \in 1 .. 1 - 1}
    BY <1>1, <2>2, <2>3, <2>4, FirstIs
  <2>6. Source.code[Source.layout[b][1]].op # "phi" /\ 1 \in DOMAIN Source.layout[b]
    BY <1>1, <1>5, <2>1, ProgramIs DEF Source
  <2>7. PhisOf(Source, b) = {Source.layout[b][j] : j \in 1 .. 1 - 1}
    BY <1>2, <2>4, <2>6, FirstIs
  <2>8. PhisOf(ir, b) = {} /\ PhisOf(Source, b) = {}
    BY <2>4, <2>5, <2>7
  <2> QED  BY <1>1, <1>9, <1>11, <2>5, <2>8
<1> QED  BY <1>10, <1>11

\* The value a phi takes when a block of the source is left for another.
LEMMA TakesEdge ==
  ASSUME Over, NEW p \in DOMAIN Source.layout, NEW b \in DOMAIN Source.layout,
         b \in Succs(Source, p), NEW y \in PhisOf(Source, b),
         NEW e, e = CHOOSE d \in Source.code[y].in : d[2] = p
  PROVE  /\ y \in Origs /\ BlockOf(Source, y) = b
         /\ e \in Source.code[y].in /\ e[2] = p
         /\ (CHOOSE d \in ir.code[y].in : d[2] = EndsIn(ir, p))[1] = Now(Sites, e[1])
<1>1. /\ program \in Programs /\ WellFormed(ir, Names) /\ OnePlace(ir)
      /\ PhisMatchPredecessors(ir) /\ CodeInv(ir, Sites, mutations)
      /\ Origs \ Sites \subseteq DOMAIN ir.code
  BY OverIs
<1>2. /\ WellFormed(Source, Origs) /\ OnePlace(Source) /\ PhisMatchPredecessors(Source)
      /\ DOMAIN Source.code = Origs
  BY <1>1, SourceIs
<1>3. PICK k \in DOMAIN Source.layout[b] : Source.layout[b][k] = y
  BY DEF PhisOf, ToSet
<1>4. y \in Origs \ Sites /\ BlockOf(Source, y) = b /\ Source.code[y].op = "phi"
  BY <1>2, <1>3, EntersSource, PlaceIn DEF PhisOf
<1>5. Fits(Source, b, y)
  BY <1>2, <1>3, <1>4, PhisAre
<1>6. p \in Preds(Source, b)
  BY DEF Preds, BlocksOf
<1>7. \E d \in Source.code[y].in : d[2] = p
  BY <1>5, <1>6 DEF Fits
<1>8. e \in Source.code[y].in /\ e[2] = p
  BY <1>7
<1>9. IsNow(Sites, Source.code[y], ir.code[y]) /\ y \in Origs \cap DOMAIN ir.code
  BY <1>1, <1>4 DEF CodeInv
<1>10. ir.code[y].op = "phi"
  BY <1>4, <1>9 DEF IsNow
<1>11. EdgesNow(ir, Sites, y)
  BY <1>1, <1>9, <1>10 DEF CodeInv
<1>12. PICK d \in ir.code[y].in : IsEdge(ir, Sites, d, e)
  BY <1>8, <1>11 DEF EdgesNow
<1>13. \A c \in ir.code[y].in : c[2] = d[2] => c = d
  <2>1. PICK c, l : OnlyAt(ir, y, c, l)
    BY <1>1, <1>9, PlaceOf
  <2>2. Fits(ir, c, y)
    BY <1>1, <1>10, <2>1, PhisAre DEF OnlyAt
  <2> QED  BY <2>2 DEF Fits
<1>14. d[2] = EndsIn(ir, p) /\ d[1] = Now(Sites, e[1])
  BY <1>8, <1>12 DEF IsEdge
<1>15. (CHOOSE c \in ir.code[y].in : c[2] = EndsIn(ir, p)) = d
  BY <1>13, <1>14
<1> QED  BY <1>4, <1>8, <1>14, <1>15

LEMMA PairBlock ==
  ASSUME Over, NEW b \in DOMAIN ir.layout, NEW x, NEW y, ir.layout[b] = << x, y >>,
         ir.code[x].op # "phi"
  PROVE  /\ FirstNonPHI(ir, b) = x /\ PhisOf(ir, b) = {}
         /\ BlockOf(ir, x) = b /\ BlockOf(ir, y) = b
         /\ NextInstruction(ir, x) = y
<1> DEFINE s == ir.layout[b]
<1>1. /\ WellFormed(ir, Names) /\ OnePlace(ir) /\ BlocksWellFormed(ir)
  BY OverIs
<1>2. 1 \in DOMAIN s /\ 2 \in DOMAIN s /\ s[1] = x /\ s[2] = y
  OBVIOUS
<1> HIDE DEF s
<1>3. /\ BlockOf(ir, x) = b /\ IndexOf(ir, x) = 1 /\ BlockOf(ir, y) = b
  BY <1>1, <1>2, PlaceIn DEF s
<1>4. \A j \in 1 .. 1 - 1 : FALSE
  OBVIOUS
<1>5. FirstNonPHI(ir, b) = s[1] /\ PhisOf(ir, b) = {s[j] : j \in 1 .. 1 - 1}
  BY <1>1, <1>2, <1>4, FirstIs DEF s
<1>6. PhisOf(ir, b) = {}
  BY <1>4, <1>5
<1>7. NextInstruction(ir, x) = s[1 + 1]
  BY <1>3 DEF NextInstruction, s
<1> QED  BY <1>2, <1>3, <1>5, <1>6, <1>7

\* The instructions that are made for a site, and the blocks they are in.
LEMMA SiteRuns ==
  ASSUME Over, NEW i \in Sites
  PROVE  /\ {GlobalLoad(i), Switch(i), Clone(i), CloneBr(i), Phi(i)} \subseteq DOMAIN ir.code
         /\ ir.code[GlobalLoad(i)].op = "load"
         /\ ir.code[GlobalLoad(i)].args = << Global(program.id[i]) >>
         /\ NextInstruction(ir, GlobalLoad(i)) = Switch(i)
         /\ ir.code[Switch(i)].op = "switch" /\ ir.code[Switch(i)].args = << GlobalLoad(i) >>
         /\ IsNow(Sites, Source.code[i], ir.code[Clone(i)])
         /\ ir.code[CloneBr(i)].op = "br" /\ ir.code[CloneBr(i)].to = << Rest(i) >>
         /\ FirstNonPHI(ir, Clone(i)) = Clone(i) /\ PhisOf(ir, Clone(i)) = {}
         /\ BlockOf(ir, CloneBr(i)) = Clone(i)
         /\ NextInstruction(ir, Clone(i)) = CloneBr(i)
         /\ PhisOf(ir, Rest(i)) = {Phi(i)}
         /\ FirstNonPHI(ir, Rest(i)) = Begins(Sites, NextInstruction(Source, i))
<1>1. /\ SiteInv(ir, mutations, i) /\ NamesInv(ir, Sites, mutations)
      /\ CodeInv(ir, Sites, mutations) /\ OrderInv(ir, Sites)
      /\ WellFormed(ir, Names) /\ OnePlace(ir) /\ BlocksWellFormed(ir)
  BY OverIs DEF ShapeInv
<1>2. {GlobalLoad(i), Switch(i), Clone(i), CloneBr(i), Phi(i)} \subseteq DOMAIN ir.code
  BY <1>1, SiteHas
<1>3. /\ ir.code[GlobalLoad(i)].op = "load" /\ ir.code[CloneBr(i)].op = "br"
      /\ ir.code[Switch(i)].args = << GlobalLoad(i) >>
      /\ IsNow(Sites, Source.code[i], ir.code[Clone(i)])
  BY <1>1 DEF CodeInv
<1>4. ir.code[GlobalLoad(i)].args = << Global(program.id[i]) >>
  <2>1. i \in DOMAIN program.id
    BY OverIs
  <2> QED  BY <2>1 DEF Over, SInv, IInv, FunctionInv, SourceID
<1>5. NextInstruction(ir, GlobalLoad(i)) = Switch(i)
  BY <1>1, NextIs DEF OrderInv
<1>6. /\ Clone(i) \in DOMAIN ir.layout /\ Rest(i) \in DOMAIN ir.layout
      /\ ir.layout[Clone(i)] = << Clone(i), CloneBr(i) >>
      /\ ir.code[CloneBr(i)].to = << Rest(i) >> /\ ir.code[Switch(i)].op = "switch"
      /\ ir.layout[Rest(i)][1] = Phi(i) /\ ir.code[Phi(i)].op = "phi"
      /\ \A k \in 2 .. Len(ir.layout[Rest(i)]) : ir.code[ir.layout[Rest(i)][k]].op # "phi"
  BY <1>1 DEF SiteInv
<1>7. ir.code[Clone(i)].op # "phi"
  BY <1>3, SitesArePlain DEF IsNow
<1>8. /\ FirstNonPHI(ir, Clone(i)) = Clone(i) /\ PhisOf(ir, Clone(i)) = {}
      /\ BlockOf(ir, CloneBr(i)) = Clone(i) /\ NextInstruction(ir, Clone(i)) = CloneBr(i)
  BY <1>6, <1>7, PairBlock
<1>9. /\ PhisOf(ir, Rest(i)) = {Phi(i)}
      /\ FirstNonPHI(ir, Rest(i)) = Begins(Sites, NextInstruction(Source, i))
  <2> DEFINE s == ir.layout[Rest(i)]
             y == Begins(Sites, NextInstruction(Source, i))
  <2>1. NextTo(ir, Phi(i), y)
    BY SitesArePlain, Follows DEF Now
  <2>2. /\ DOMAIN s = 1 .. Len(s) /\ Len(s) \in Nat \ {0}
    BY <1>1, <1>6, BlockIs
  <2> HIDE DEF y
  <2>3. PICK b \in DOMAIN ir.layout : \E k \in DOMAIN ir.layout[b] :
          k + 1 \in DOMAIN ir.layout[b] /\ ir.layout[b][k] = Phi(i) /\ ir.layout[b][k + 1] = y
    BY <2>1 DEF NextTo
  <2>4. PICK k \in DOMAIN ir.layout[b] :
          k + 1 \in DOMAIN ir.layout[b] /\ ir.layout[b][k] = Phi(i) /\ ir.layout[b][k + 1] = y
    BY <2>3
  <2>5. 1 \in DOMAIN s /\ s[1] = Phi(i)
    BY <1>6, <2>2
  <2>6. b = Rest(i) /\ k = 1
    <3>1. BlockOf(ir, Phi(i)) = b /\ IndexOf(ir, Phi(i)) = k
      BY <1>1, <2>4, PlaceIn
    <3>2. BlockOf(ir, Phi(i)) = Rest(i) /\ IndexOf(ir, Phi(i)) = 1
      BY <1>1, <1>6, <2>5, PlaceIn
    <3> QED  BY <3>1, <3>2
  <2>7. 1 + 1 \in DOMAIN s /\ s[1 + 1] = y
    BY <2>4, <2>6
  <2>8. 2 \in DOMAIN s /\ s[2] = y
    BY <2>7
  <2>9. ir.code[s[2]].op # "phi"
    <3>1. 2 \in 2 .. Len(s)
      BY <2>2, <2>8
    <3> QED  BY <1>6, <3>1
  <2>a. \A j \in 1 .. 2 - 1 : j = 1
    OBVIOUS
  <2>10. \A j \in 1 .. 2 - 1 : ir.code[s[j]].op = "phi"
    BY <1>6, <2>a
  <2> HIDE DEF s
  <2>11. FirstNonPHI(ir, Rest(i)) = s[2] /\ PhisOf(ir, Rest(i)) = {s[j] : j \in 1 .. 2 - 1}
    BY <1>1, <1>6, <2>8, <2>9, <2>10, FirstIs DEF s
  <2>12. 1 \in 1 .. 2 - 1
    OBVIOUS
  <2> QED  BY <2>5, <2>8, <2>11, <2>12, <2>a DEF y
<1> QED  BY <1>2, <1>3, <1>4, <1>5, <1>6, <1>8, <1>9

LEMMA MutantRuns ==
  ASSUME Over, NEW n \in DOMAIN mutations
  PROVE  /\ mutations[n].original \in Sites
         /\ {Mutant(n), MutantBr(n)} \subseteq DOMAIN ir.code
         /\ MutantInv(ir, mutations, n) /\ ir.code[Mutant(n)].op \notin Terminators \cup {"phi"}
         /\ ir.code[MutantBr(n)].op = "br"
         /\ ir.code[MutantBr(n)].to = << Rest(mutations[n].original) >>
         /\ FirstNonPHI(ir, Mutant(n)) = Mutant(n) /\ PhisOf(ir, Mutant(n)) = {}
         /\ BlockOf(ir, MutantBr(n)) = Mutant(n)
         /\ NextInstruction(ir, Mutant(n)) = MutantBr(n)
<1>1. /\ MutantInv(ir, mutations, n) /\ NamesInv(ir, Sites, mutations)
      /\ CodeInv(ir, Sites, mutations)
  BY OverIs DEF ShapeInv
<1>2. {Mutant(n), MutantBr(n)} \subseteq DOMAIN ir.code
  BY <1>1, SiteHas
<1>3. /\ mutations[n].original \in Sites
      /\ mutations[n].operator # "LoadMutator" => mutations[n].variant \in Opcodes
  BY DEF Over, SInv, IInv, MutationsInv
<1>4. ir.code[Mutant(n)].op \notin Terminators \cup {"phi"}
  BY <1>1, <1>3, MutableOps DEF MutantInv, Terminators
<1>5. /\ Mutant(n) \in DOMAIN ir.layout
      /\ ir.layout[Mutant(n)] = << Mutant(n), MutantBr(n) >>
      /\ ir.code[MutantBr(n)].to = << Rest(mutations[n].original) >>
  BY <1>1 DEF MutantInv
<1>6. /\ FirstNonPHI(ir, Mutant(n)) = Mutant(n) /\ PhisOf(ir, Mutant(n)) = {}
      /\ BlockOf(ir, MutantBr(n)) = Mutant(n)
      /\ NextInstruction(ir, Mutant(n)) = MutantBr(n)
  BY <1>4, <1>5, PairBlock
<1>7. ir.code[MutantBr(n)].op = "br"
  BY <1>1 DEF CodeInv
<1> QED  BY <1>1, <1>2, <1>3, <1>4, <1>5, <1>6, <1>7

-------------------------------------------------------------------------------
(* Machines.                                                               *)

Machine(at, regs, mem, out) == [at |-> at, regs |-> regs, mem |-> mem, out |-> out]

IsMachine(m) == m = Machine(m.at, m.regs, m.mem, m.out)

\* The values that the phis of block b take when it is entered from block p.
Incoming(f, m, b) ==
  [y \in PhisOf(f, b) |->
     ValueOf(m, (CHOOSE e \in f.code[y].in : e[2] = BlockOf(f, m.at))[1])]

\* The values of the mutated instructions are their phis'.
Seen(regs) == [i \in {j \in Origs : Now(Sites, j) \in DOMAIN regs} |-> regs[Now(Sites, i)]]

Kept(mem) == Restrict(mem, DOMAIN mem \ DOMAIN globals)

LEMMA MachineIs ==
  ASSUME NEW a, NEW r, NEW e, NEW o
  PROVE  LET m == Machine(a, r, e, o) IN
         IsMachine(m) /\ m.at = a /\ m.regs = r /\ m.mem = e /\ m.out = o
BY DEF Machine, IsMachine

LEMMA MachineOps ==
  ASSUME NEW m, IsMachine(m)
  PROVE  /\ \A x : Goto(m, x) = Machine(x, m.regs, m.mem, m.out)
         /\ \A x, v : Assign(m, x, v) = Machine(m.at, Put(m.regs, x, v), m.mem, m.out)
         /\ \A ev : Output(m, ev) = Machine(m.at, m.regs, m.mem, Append(m.out, ev))
         /\ \A f : Advance(f, m) = Machine(NextInstruction(f, m.at), m.regs, m.mem, m.out)
         /\ \A a, v : [m EXCEPT !.mem = Put(@, a, v)] = Machine(m.at, m.regs, Put(m.mem, a, v), m.out)
<1>1. m = [at |-> m.at, regs |-> m.regs, mem |-> m.mem, out |-> m.out]
  BY DEF IsMachine, Machine
<1>2. \A x : Goto(m, x) = Machine(x, m.regs, m.mem, m.out)
  BY <1>1 DEF Goto, Machine
<1>3. \A x, v : Assign(m, x, v) = Machine(m.at, Put(m.regs, x, v), m.mem, m.out)
  BY <1>1 DEF Assign, Machine
<1>4. \A ev : Output(m, ev) = Machine(m.at, m.regs, m.mem, Append(m.out, ev))
  BY <1>1 DEF Output, Machine
<1>5. \A f : Advance(f, m) = Machine(NextInstruction(f, m.at), m.regs, m.mem, m.out)
  BY <1>2 DEF Advance
<1>6. \A a, v : [m EXCEPT !.mem = Put(@, a, v)] = Machine(m.at, m.regs, Put(m.mem, a, v), m.out)
  BY <1>1 DEF Machine
<1> QED  BY <1>2, <1>3, <1>4, <1>5, <1>6

LEMMA EnterBlockIs ==
  ASSUME NEW m, IsMachine(m), NEW f, NEW b
  PROVE  EnterBlock(f, m, b)
           = Machine(FirstNonPHI(f, b), Updated(m.regs, Incoming(f, m, b)), m.mem, m.out)
<1> DEFINE u == Updated(m.regs, Incoming(f, m, b))
<1>1. m = [at |-> m.at, regs |-> m.regs, mem |-> m.mem, out |-> m.out]
  BY DEF IsMachine, Machine
<1>2. EnterBlock(f, m, b) = [Goto(m, FirstNonPHI(f, b)) EXCEPT !.regs = Updated(@, Incoming(f, m, b))]
  BY Zenon DEF EnterBlock, Incoming, PhisOf
<1>3. Goto(m, FirstNonPHI(f, b)) = Machine(FirstNonPHI(f, b), m.regs, m.mem, m.out)
  BY MachineOps
<1> HIDE DEF u
<1>4. ASSUME NEW x, NEW g
      PROVE  [Machine(x, m.regs, m.mem, m.out) EXCEPT !.regs = Updated(@, g)]
               = Machine(x, Updated(m.regs, g), m.mem, m.out)
  BY DEF Machine
<1> QED  BY <1>2, <1>3, <1>4

\* The instructions of the supermutant that are the source's, and the phis.
LEMMA NamesOfRegs ==
  ASSUME Over, NEW x \in DOMAIN ir.code
  PROVE  /\ x[1] = "orig" <=> x \in Origs \ Sites
         /\ x[1] = "phi" <=> \E i \in Sites : x = Phi(i)
         /\ x[1] \notin {"global", "arg", "gvar", "fn", "const"}
<1>1. /\ NamesInv(ir, Sites, mutations) /\ Sites \cap DOMAIN ir.code = {}
      /\ program \in Programs
  BY OverIs
<1>2. \A y \in Origs : y[1] = "orig"
  BY <1>1, ProgramIs
<1>3. \/ x \in Origs \/ x = LoaderCall
      \/ \E i \in Sites : x \in Created(i) \ {SplitBr(i)}
      \/ \E n \in DOMAIN mutations : x \in {Mutant(n), MutantBr(n)}
  BY <1>1 DEF NamesInv, MadeFor
<1>4. CASE x \in Origs
  BY <1>1, <1>2, <1>4 DEF Phi
<1>5. CASE x = LoaderCall
  BY <1>2, <1>5 DEF LoaderCall, Phi
<1>6. CASE \E i \in Sites : x \in Created(i) \ {SplitBr(i)}
  BY <1>2, <1>6 DEF Created, Clone, CloneBr, GlobalLoad, Switch, SplitBr, Phi
<1>7. CASE \E n \in DOMAIN mutations : x \in {Mutant(n), MutantBr(n)}
  BY <1>2, <1>7 DEF Mutant, MutantBr, Phi
<1> QED  BY <1>3, <1>4, <1>5, <1>6, <1>7

LEMMA SourceRegsAre ==
  ASSUME Over, NEW regs, DOMAIN regs \subseteq DOMAIN ir.code
  PROVE  SourceRegs(regs) = Seen(regs)
<1> DEFINE of(x) == IF x[1] = "phi" THEN x[2] ELSE x
           kept == {x \in DOMAIN regs : x[1] \in {"orig", "phi"}}
           seen == {j \in Origs : Now(Sites, j) \in DOMAIN regs}
<1>a. /\ Sites \subseteq Origs /\ program \in Programs
  BY OverIs
<1>b. \A y \in Origs : y[1] = "orig"
  BY <1>a, ProgramIs
<1>1. ASSUME NEW x \in kept PROVE of(x) \in seen /\ Now(Sites, of(x)) = x
  <2>1. x \in DOMAIN ir.code
    OBVIOUS
  <2>2. CASE x[1] = "orig"
    <3>1. x \in Origs \ Sites
      BY <2>1, <2>2, NamesOfRegs
    <3> QED  BY <2>2, <3>1 DEF Now
  <2>3. CASE x[1] = "phi"
    <3>1. PICK i \in Sites : x = Phi(i)
      BY <2>1, <2>3, NamesOfRegs
    <3>2. of(x) = i
      BY <3>1 DEF Phi
    <3> QED  BY <1>a, <3>1, <3>2 DEF Now
  <2> QED  BY <2>2, <2>3
<1>2. ASSUME NEW i \in seen PROVE Now(Sites, i) \in kept /\ of(Now(Sites, i)) = i
  BY <1>b DEF Now, Phi
<1> HIDE DEF of
<1>3. {of(x) : x \in kept} = seen
  BY <1>1, <1>2
<1>4. ASSUME NEW i \in seen PROVE (CHOOSE x \in kept : of(x) = i) = Now(Sites, i)
  BY <1>1, <1>2
<1>5. SourceRegs(regs) = [i \in {of(x) : x \in kept} |-> regs[CHOOSE x \in kept : of(x) = i]]
  BY Zenon DEF SourceRegs, of
<1> HIDE DEF kept, seen
<1>6. SourceRegs(regs) = [i \in seen |-> regs[Now(Sites, i)]]
  BY <1>3, <1>4, <1>5
<1> QED  BY <1>6 DEF Seen, seen

LEMMA SourceMachineIs ==
  ASSUME Over, NEW m, IsMachine(m), DOMAIN m.regs \subseteq DOMAIN ir.code
  PROVE  SourceMachine(m)
           = Machine(SourceInstruction(m.at), Seen(m.regs), Kept(m.mem), m.out)
<1>2. SourceRegs(m.regs) = Seen(m.regs)
  BY SourceRegsAre
<1> QED  BY <1>2 DEF SourceMachine, Kept, Machine

-------------------------------------------------------------------------------
(* Registers, memory and values.                                           *)

\* A value that is not the address of one of the engine's globals.
Clean(v) == \A id : v # Global(id)

\* A value that an instruction of the source can mention, and that is known.
IsValue(v) == v \in Origs \/ v[1] \in {"arg", "gvar", "fn", "const"}

Known(regs, v) == IsValue(v) /\ (v \in Sites => Phi(v) \in DOMAIN regs)

RegsInv(regs) ==
  /\ regs = [x \in DOMAIN regs |-> regs[x]]
  /\ DOMAIN regs \subseteq DOMAIN ir.code
  /\ \A x \in DOMAIN regs : x[1] # "load" => Clean(regs[x])

MemInv(mem) ==
  /\ mem = [a \in DOMAIN mem |-> mem[a]]
  /\ DOMAIN globals \subseteq DOMAIN mem
  /\ \A a \in DOMAIN mem : Clean(a) => Clean(mem[a])
  /\ \A a \in DOMAIN mem : Clean(a) \/ a \in DOMAIN globals

LEMMA GlobalsAre ==
  ASSUME Over
  PROVE  /\ \A i \in Sites : Global(program.id[i]) \in DOMAIN globals
         /\ \A g \in DOMAIN globals : \E i \in Sites : g = Global(program.id[i])
         /\ \A v : Clean(v) => v \notin DOMAIN globals
<1>1. DOMAIN globals = {Global(program.id[i]) : i \in Sites}
  BY DEF Over, SInv, SameInv
<1> QED  BY <1>1 DEF Clean

LEMMA SourceValues ==
  ASSUME program \in Programs, NEW x \in Origs
  PROVE  /\ HasOperands(Source.code[x])
         /\ \A v \in ToSet(Source.code[x].args) : IsValue(v)
         /\ \A e \in Source.code[x].in : IsValue(e[1])
<1>1. /\ HasOperands(Source.code[x])
      /\ \A v \in Values(Source, x) : v \in Origs \/ v[1] \in {"arg", "gvar", "fn", "const"}
  BY RunnableAssumption DEF IsRunnable, Source, Origs
<1> QED  BY <1>1 DEF Values, IsValue

LEMMA SeenDomain ==
  ASSUME Over, NEW regs, RegsInv(regs)
  PROVE  /\ \A v \in Origs : v \in DOMAIN Seen(regs) <=> Now(Sites, v) \in DOMAIN regs
         /\ \A v \in DOMAIN Seen(regs) : v \in Origs /\ Seen(regs)[v] = regs[Now(Sites, v)]
         /\ \A v \in DOMAIN Seen(regs) : Now(Sites, v)[1] # "load"
<1>1. \A v \in Origs : v[1] = "orig"
  BY OverIs, ProgramIs
<1>2. \A v \in Origs : Now(Sites, v)[1] # "load"
  BY <1>1 DEF Now, Phi
<1> QED  BY <1>2 DEF Seen

\* The supermutant and the source see the same value.
LEMMA ValueIs ==
  ASSUME Over, NEW m, RegsInv(m.regs), NEW s, s.regs = Seen(m.regs),
         NEW v, Known(m.regs, v)
  PROVE  ValueOf(m, Now(Sites, v)) = ValueOf(s, v) /\ Clean(ValueOf(s, v))
<1>1. /\ \A w \in Origs : w \in DOMAIN Seen(m.regs) <=> Now(Sites, w) \in DOMAIN m.regs
      /\ \A w \in DOMAIN Seen(m.regs) : w \in Origs /\ Seen(m.regs)[w] = m.regs[Now(Sites, w)]
      /\ \A w \in DOMAIN Seen(m.regs) : Now(Sites, w)[1] # "load"
  BY SeenDomain
<1>2. Sites \subseteq Origs /\ \A w \in Origs : w[1] = "orig"
  BY OverIs, ProgramIs
<1>3. CASE v \in DOMAIN Seen(m.regs)
  <2>1. Now(Sites, v) \in DOMAIN m.regs /\ Now(Sites, v)[1] # "load"
        /\ Seen(m.regs)[v] = m.regs[Now(Sites, v)]
    BY <1>1, <1>3
  <2>2. Clean(m.regs[Now(Sites, v)])
    BY <2>1 DEF RegsInv
  <2> QED  BY <1>3, <2>1, <2>2 DEF ValueOf
<1>4. CASE v \notin DOMAIN Seen(m.regs)
  <2>1. v \notin Sites
    BY <1>1, <1>2, <1>4 DEF Known, Now
  <2>2. v \notin DOMAIN m.regs
    <3>1. CASE v \in Origs
      BY <1>1, <1>4, <2>1, <3>1 DEF Now
    <3>2. CASE v \notin Origs
      <4>1. v[1] \in {"arg", "gvar", "fn", "const"}
        BY <3>2 DEF Known, IsValue
      <4> QED  BY <4>1, NamesOfRegs DEF RegsInv
    <3> QED  BY <3>1, <3>2
  <2>3. Clean(v)
    BY <1>2 DEF Known, IsValue, Clean, Global
  <2> QED  BY <1>4, <2>1, <2>2, <2>3 DEF ValueOf, Now
<1> QED  BY <1>3, <1>4

\* The value that an instruction without other effects computes.
Computed(ins, m) ==
  LET args == [k \in DOMAIN ins.args |-> ValueOf(m, ins.args[k])] IN
  IF ins.op = "load"
  THEN IF args[1] \in DOMAIN m.mem THEN m.mem[args[1]] ELSE <<"undef", args>>
  ELSE <<ins.op, args>>

LEMMA ArgsAre ==
  ASSUME Over, NEW m, RegsInv(m.regs), NEW s, s.regs = Seen(m.regs),
         NEW x, NEW y, y.args = [k \in DOMAIN x.args |-> Now(Sites, x.args[k])],
         \A k \in DOMAIN x.args : Known(m.regs, x.args[k])
  PROVE  /\ [k \in DOMAIN y.args |-> ValueOf(m, y.args[k])]
              = [k \in DOMAIN x.args |-> ValueOf(s, x.args[k])]
         /\ \A k \in DOMAIN x.args : Clean(ValueOf(s, x.args[k]))
<1>1. \A k \in DOMAIN x.args :
        /\ ValueOf(m, Now(Sites, x.args[k])) = ValueOf(s, x.args[k])
        /\ Clean(ValueOf(s, x.args[k]))
  BY ValueIs
<1>2. DOMAIN y.args = DOMAIN x.args
  OBVIOUS
<1>3. \A k \in DOMAIN x.args : y.args[k] = Now(Sites, x.args[k])
  OBVIOUS
<1>4. [k \in DOMAIN y.args |-> ValueOf(m, y.args[k])]
              = [k \in DOMAIN x.args |-> ValueOf(s, x.args[k])]
  BY <1>1, <1>2, <1>3
<1> QED  BY <1>1, <1>4

LEMMA SameComputed ==
  ASSUME Over, NEW m, RegsInv(m.regs), MemInv(m.mem),
         NEW s, s.regs = Seen(m.regs), s.mem = Kept(m.mem),
         NEW x, NEW y, y.args = [k \in DOMAIN x.args |-> Now(Sites, x.args[k])],
         y.op = x.op, x.op # "global", x.op = "load" => 1 \in DOMAIN x.args,
         \A k \in DOMAIN x.args : Known(m.regs, x.args[k])
  PROVE  Computed(y, m) = Computed(x, s) /\ Clean(Computed(x, s))
<1> DEFINE args == [k \in DOMAIN x.args |-> ValueOf(s, x.args[k])]
<1>1. /\ [k \in DOMAIN y.args |-> ValueOf(m, y.args[k])] = args
      /\ \A k \in DOMAIN x.args : Clean(args[k])
  BY ArgsAre
<1>a. DOMAIN args = DOMAIN x.args
  OBVIOUS
<1>b. /\ Computed(y, m) = IF x.op = "load"
                          THEN IF args[1] \in DOMAIN m.mem THEN m.mem[args[1]] ELSE <<"undef", args>>
                          ELSE <<x.op, args>>
      /\ Computed(x, s) = IF x.op = "load"
                          THEN IF args[1] \in DOMAIN s.mem THEN s.mem[args[1]] ELSE <<"undef", args>>
                          ELSE <<x.op, args>>
  BY <1>1 DEF Computed
<1> HIDE DEF args
<1>2. CASE x.op = "load"
  <2>1. Clean(args[1])
    BY <1>1, <1>2
  <2>2. args[1] \notin DOMAIN globals
    BY <2>1, GlobalsAre
  <2>3. /\ args[1] \in DOMAIN s.mem <=> args[1] \in DOMAIN m.mem
        /\ args[1] \in DOMAIN s.mem => s.mem[args[1]] = m.mem[args[1]]
    BY <2>2 DEF Kept, Restrict
  <2>4. args[1] \in DOMAIN m.mem => Clean(m.mem[args[1]])
    BY <2>1 DEF MemInv
  <2>5. Clean(<<"undef", args>>)
    BY DEF Clean, Global
  <2> QED  BY <1>b, <1>2, <2>3, <2>4, <2>5
<1>3. CASE x.op # "load"
  <2>1. Clean(<<x.op, args>>)
    BY DEF Clean, Global
  <2> QED  BY <1>b, <1>3, <2>1
<1> QED  BY <1>2, <1>3

\* g is f with another entry, or with those of h instead of its own.
IsPut(g, f, k, v) ==
  /\ DOMAIN g = DOMAIN f \cup {k} /\ g[k] = v
  /\ \A x \in DOMAIN f : x # k => g[x] = f[x]
  /\ g = [x \in DOMAIN g |-> g[x]]

IsUpdated(g, f, h) ==
  /\ DOMAIN g = DOMAIN f \cup DOMAIN h
  /\ \A x \in DOMAIN h : g[x] = h[x]
  /\ \A x \in DOMAIN f : x \notin DOMAIN h => g[x] = f[x]
  /\ g = [x \in DOMAIN g |-> g[x]]

LEMMA AddsOne ==
  ASSUME NEW f, NEW k, NEW v
  PROVE  IsPut(Put(f, k, v), f, k, v)
<1> DEFINE g == Put(f, k, v)
<1>1. g = [x \in DOMAIN f \cup {k} |-> IF x = k THEN v ELSE f[x]]
  BY DEF Put
<1> HIDE DEF g
<1>2. DOMAIN g = DOMAIN f \cup {k} /\ g[k] = v
  BY <1>1
<1>3. \A x \in DOMAIN f : x # k => g[x] = f[x]
  BY <1>1
<1>4. g = [x \in DOMAIN g |-> g[x]]
  BY <1>1
<1>5. IsPut(g, f, k, v)
  BY <1>2, <1>3, <1>4 DEF IsPut
<1> QED  BY <1>5 DEF g

\* A register of the source's own, or of a site's phi.
LEMMA SeenPut ==
  ASSUME Over, NEW regs, RegsInv(regs), NEW x \in Origs, NEW v
  PROVE  Seen(Put(regs, Now(Sites, x), v)) = Put(Seen(regs), x, v)
<1>1. \A y \in Origs : y[1] = "orig"
  BY OverIs, ProgramIs
<1>2. \A y \in Origs : Now(Sites, y) = Now(Sites, x) => y = x
  BY <1>1 DEF Now, Phi
<1> DEFINE r == Put(regs, Now(Sites, x), v)
<1>r. IsPut(r, regs, Now(Sites, x), v)
  BY AddsOne
<1> HIDE DEF r
<1>3. /\ DOMAIN r = DOMAIN regs \cup {Now(Sites, x)}
      /\ r[Now(Sites, x)] = v
      /\ \A y \in DOMAIN regs : y # Now(Sites, x) => r[y] = regs[y]
  BY <1>r DEF IsPut
<1>4. {j \in Origs : Now(Sites, j) \in DOMAIN r} = {j \in Origs : Now(Sites, j) \in DOMAIN regs} \cup {x}
  BY <1>2, <1>3
<1>5. \A j \in Origs : Now(Sites, j) \in DOMAIN r =>
        r[Now(Sites, j)] = IF j = x THEN v ELSE regs[Now(Sites, j)]
  BY <1>2, <1>3
<1>6. DOMAIN Seen(regs) = {j \in Origs : Now(Sites, j) \in DOMAIN regs}
  BY DEF Seen
<1>7. Put(Seen(regs), x, v) = [j \in {j \in Origs : Now(Sites, j) \in DOMAIN r} |->
                                 IF j = x THEN v ELSE regs[Now(Sites, j)]]
  <2>1. Put(Seen(regs), x, v) = [j \in {j \in Origs : Now(Sites, j) \in DOMAIN r} |->
                                 IF j = x THEN v ELSE Seen(regs)[j]]
    BY <1>4, <1>6 DEF Put
  <2>2. \A j \in {j \in Origs : Now(Sites, j) \in DOMAIN r} : j # x => Seen(regs)[j] = regs[Now(Sites, j)]
    BY <1>4 DEF Seen
  <2> QED  BY <2>1, <2>2
<1>8. Seen(r) = [j \in {j \in Origs : Now(Sites, j) \in DOMAIN r} |->
                   IF j = x THEN v ELSE regs[Now(Sites, j)]]
  BY <1>5 DEF Seen
<1> QED  BY <1>7, <1>8 DEF r

\* A register of what has been made for a site.
LEMMA SeenOther ==
  ASSUME Over, NEW regs, RegsInv(regs), NEW y, y[1] \notin {"orig", "phi"}, NEW v
  PROVE  Seen(Put(regs, y, v)) = Seen(regs)
<1>1. \A j \in Origs : j[1] = "orig"
  BY OverIs, ProgramIs
<1>2. \A j \in Origs : Now(Sites, j) # y
  BY <1>1 DEF Now, Phi
<1> DEFINE r == Put(regs, y, v)
<1>r. IsPut(r, regs, y, v)
  BY AddsOne
<1> HIDE DEF r
<1>3. /\ DOMAIN r = DOMAIN regs \cup {y}
      /\ \A x \in DOMAIN regs : x # y => r[x] = regs[x]
  BY <1>r DEF IsPut
<1>4. {j \in Origs : Now(Sites, j) \in DOMAIN r} = {j \in Origs : Now(Sites, j) \in DOMAIN regs}
  BY <1>2, <1>3
<1>5. \A j \in Origs : Now(Sites, j) \in DOMAIN regs => r[Now(Sites, j)] = regs[Now(Sites, j)]
  BY <1>2, <1>3
<1>6. Seen(r) = Seen(regs)
  BY <1>4, <1>5 DEF Seen
<1> QED  BY <1>6 DEF r

LEMMA RegsPut ==
  ASSUME Over, NEW regs, RegsInv(regs), NEW x \in DOMAIN ir.code, NEW v,
         x[1] # "load" => Clean(v)
  PROVE  RegsInv(Put(regs, x, v))
<1> DEFINE r == Put(regs, x, v)
<1>1. IsPut(r, regs, x, v)
  BY AddsOne
<1> HIDE DEF r
<1>2. RegsInv(r)
  BY <1>1 DEF RegsInv, IsPut
<1> QED  BY <1>2 DEF r

LEMMA AddsAll ==
  ASSUME NEW f, NEW h
  PROVE  IsUpdated(Updated(f, h), f, h)
<1> DEFINE g == Updated(f, h)
<1>1. g = [x \in DOMAIN f \cup DOMAIN h |-> IF x \in DOMAIN h THEN h[x] ELSE f[x]]
  BY DEF Updated
<1> HIDE DEF g
<1>2. DOMAIN g = DOMAIN f \cup DOMAIN h /\ \A x \in DOMAIN h : g[x] = h[x]
  BY <1>1
<1>3. \A x \in DOMAIN f : x \notin DOMAIN h => g[x] = f[x]
  BY <1>1
<1>4. g = [x \in DOMAIN g |-> g[x]]
  BY <1>1
<1>5. IsUpdated(g, f, h)
  BY <1>2, <1>3, <1>4 DEF IsUpdated
<1> QED  BY <1>5 DEF g

\* The phis of a block of the source, all at once.
LEMMA SeenUpdated ==
  ASSUME Over, NEW regs, RegsInv(regs), NEW F, DOMAIN F \subseteq Origs \ Sites
  PROVE  Seen(Updated(regs, F)) = Updated(Seen(regs), F)
<1>1. \A y \in Origs : y[1] = "orig"
  BY OverIs, ProgramIs
<1>2. /\ \A y \in Origs : Now(Sites, y) \in DOMAIN F => y \in DOMAIN F /\ Now(Sites, y) = y
      /\ \A y \in DOMAIN F : y \in Origs /\ Now(Sites, y) = y
  BY <1>1 DEF Now, Phi
<1> DEFINE r == Updated(regs, F)
<1>r. IsUpdated(r, regs, F)
  BY AddsAll
<1> HIDE DEF r
<1>3. /\ DOMAIN r = DOMAIN regs \cup DOMAIN F
      /\ \A x \in DOMAIN F : r[x] = F[x]
      /\ \A x \in DOMAIN regs : x \notin DOMAIN F => r[x] = regs[x]
  BY <1>r DEF IsUpdated
<1>4. {j \in Origs : Now(Sites, j) \in DOMAIN r}
        = {j \in Origs : Now(Sites, j) \in DOMAIN regs} \cup DOMAIN F
  BY <1>2, <1>3
<1>5. \A j \in Origs : Now(Sites, j) \in DOMAIN r =>
        r[Now(Sites, j)] = IF j \in DOMAIN F THEN F[j] ELSE regs[Now(Sites, j)]
  BY <1>2, <1>3
<1>6. Updated(Seen(regs), F) = [j \in {j \in Origs : Now(Sites, j) \in DOMAIN r} |->
                                  IF j \in DOMAIN F THEN F[j] ELSE regs[Now(Sites, j)]]
  <2>1. DOMAIN Seen(regs) = {j \in Origs : Now(Sites, j) \in DOMAIN regs}
    BY DEF Seen
  <2>2. Updated(Seen(regs), F) = [j \in {j \in Origs : Now(Sites, j) \in DOMAIN r} |->
                                    IF j \in DOMAIN F THEN F[j] ELSE Seen(regs)[j]]
    BY <1>4, <2>1 DEF Updated
  <2>3. \A j \in {j \in Origs : Now(Sites, j) \in DOMAIN r} :
          j \notin DOMAIN F => Seen(regs)[j] = regs[Now(Sites, j)]
    BY <1>4 DEF Seen
  <2> QED  BY <2>2, <2>3
<1>7. Seen(r) = [j \in {j \in Origs : Now(Sites, j) \in DOMAIN r} |->
                   IF j \in DOMAIN F THEN F[j] ELSE regs[Now(Sites, j)]]
  BY <1>5 DEF Seen
<1> QED  BY <1>6, <1>7 DEF r

LEMMA RegsUpdated ==
  ASSUME Over, NEW regs, RegsInv(regs), NEW F, DOMAIN F \subseteq DOMAIN ir.code,
         \A x \in DOMAIN F : Clean(F[x])
  PROVE  RegsInv(Updated(regs, F))
<1> DEFINE r == Updated(regs, F)
<1>1. IsUpdated(r, regs, F)
  BY AddsAll
<1> HIDE DEF r
<1>2. RegsInv(r)
  BY <1>1 DEF RegsInv, IsUpdated
<1> QED  BY <1>2 DEF r

LEMMA UpdatedByOne ==
  ASSUME NEW f, NEW F, NEW x, NEW v, F = [y \in {x} |-> v]
  PROVE  Updated(f, F) = Put(f, x, v)
BY DEF Updated, Put

LEMMA UpdatedByNone ==
  ASSUME NEW f, f = [x \in DOMAIN f |-> f[x]], NEW F, DOMAIN F = {}
  PROVE  Updated(f, F) = f
BY DEF Updated

\* A store of the source, and one of the loader.
LEMMA KeptPut ==
  ASSUME Over, NEW mem, MemInv(mem), NEW a, Clean(a), NEW v, Clean(v)
  PROVE  /\ Kept(Put(mem, a, v)) = Put(Kept(mem), a, v)
         /\ MemInv(Put(mem, a, v))
         /\ \A g \in DOMAIN globals : Put(mem, a, v)[g] = mem[g]
<1> DEFINE r == Put(mem, a, v)
           D == (DOMAIN mem \ DOMAIN globals) \cup {a}
<1>1. IsPut(r, mem, a, v)
  BY AddsOne
<1>2. a \notin DOMAIN globals
  BY GlobalsAre
<1>4. Put(Kept(mem), a, v) = [x \in D |-> IF x = a THEN v ELSE mem[x]]
  BY DEF Kept, Restrict, Put
<1> HIDE DEF r
<1>3. Kept(r) = [x \in D |-> IF x = a THEN v ELSE mem[x]]
  <2> HIDE DEF D
  <2>1. DOMAIN r \ DOMAIN globals = D
    BY <1>1, <1>2 DEF D, IsPut
  <2>2. \A x \in D : r[x] = IF x = a THEN v ELSE mem[x]
    BY <1>1 DEF D, IsPut
  <2> QED  BY <2>1, <2>2 DEF Kept, Restrict
<1>5. MemInv(r)
  BY <1>1 DEF MemInv, IsPut
<1>6. \A g \in DOMAIN globals : r[g] = mem[g]
  BY <1>1, <1>2 DEF MemInv, IsPut
<1> QED  BY <1>3, <1>4, <1>5, <1>6 DEF r

LEMMA KeptExcept ==
  ASSUME Over, NEW mem, MemInv(mem), NEW g \in DOMAIN globals, NEW v
  PROVE  /\ Kept([mem EXCEPT ![g] = v]) = Kept(mem)
         /\ MemInv([mem EXCEPT ![g] = v])
<1>1. ~ Clean(g)
  BY GlobalsAre
<1> DEFINE r == [mem EXCEPT ![g] = v]
<1>2. /\ DOMAIN r = DOMAIN mem /\ \A a \in DOMAIN mem : a # g => r[a] = mem[a]
      /\ r = [a \in DOMAIN r |-> r[a]]
  BY DEF MemInv
<1> HIDE DEF r
<1>3. Kept(r) = Kept(mem)
  <2>1. \A a \in DOMAIN mem \ DOMAIN globals : r[a] = mem[a]
    BY <1>2
  <2> QED  BY <1>2, <2>1 DEF Kept, Restrict
<1>4. MemInv(r)
  BY <1>1, <1>2 DEF MemInv
<1> QED  BY <1>3, <1>4 DEF r

-------------------------------------------------------------------------------
(* What executing an instruction comes to.                                 *)

\* The instructions that do something other than compute a value.
Effects == Terminators \cup {"phi", "call", "alloca", "store"}

LEMMA MachineGoes ==
  ASSUME NEW a, NEW r, NEW e, NEW o
  PROVE  /\ \A x : Goto(Machine(a, r, e, o), x) = Machine(x, r, e, o)
         /\ \A f : Advance(f, Machine(a, r, e, o)) = Machine(NextInstruction(f, a), r, e, o)
<1> DEFINE m == Machine(a, r, e, o)
<1>1. IsMachine(m) /\ m.at = a /\ m.regs = r /\ m.mem = e /\ m.out = o
  BY MachineIs
<1> HIDE DEF m
<1>2. /\ \A x : Goto(m, x) = Machine(x, m.regs, m.mem, m.out)
      /\ \A f : Advance(f, m) = Machine(NextInstruction(f, m.at), m.regs, m.mem, m.out)
  BY <1>1, MachineOps
<1> QED  BY <1>1, <1>2 DEF m

LEMMA ExecutesBr ==
  ASSUME NEW f, NEW m, IsMachine(m), f.code[m.at].op = "br"
  PROVE  Executed(f, m) = {EnterBlock(f, m, f.code[m.at].to[1])}
BY DEF Executed

LEMMA ExecutesCondbr ==
  ASSUME NEW f, NEW m, IsMachine(m), f.code[m.at].op = "condbr"
  PROVE  Executed(f, m) = {EnterBlock(f, Machine(m.at, m.regs, m.mem,
                                           Append(m.out, <<"br", ArgsOf(f, m), k>>)),
                                f.code[m.at].to[k]) : k \in 1 .. 2}
<1> DEFINE args == ArgsOf(f, m)
           ins  == f.code[m.at]
<1>1. Executed(f, m) = {EnterBlock(f, Output(m, <<"br", args, k>>), ins.to[k]) : k \in 1 .. 2}
  BY DEF Executed
<1>2. \A k : Output(m, <<"br", args, k>>)
               = Machine(m.at, m.regs, m.mem, Append(m.out, <<"br", args, k>>))
  BY MachineOps
<1> HIDE DEF args, ins
<1>3. Executed(f, m) = {EnterBlock(f, Machine(m.at, m.regs, m.mem, Append(m.out, <<"br", args, k>>)),
                                   ins.to[k]) : k \in 1 .. 2}
  BY <1>1, <1>2
<1> QED  BY <1>3 DEF args, ins

LEMMA ExecutesSwitch ==
  ASSUME NEW f, NEW m, IsMachine(m), f.code[m.at].op = "switch"
  PROVE  Executed(f, m) = {EnterBlock(f, m, SwitchTarget(f.code[m.at], ArgsOf(f, m)[1]))}
BY DEF Executed

LEMMA ExecutesRet ==
  ASSUME NEW f, NEW m, IsMachine(m), f.code[m.at].op = "ret"
  PROVE  Executed(f, m) = {Machine(Halted, m.regs, m.mem, Append(m.out, <<"ret", ArgsOf(f, m)>>))}
<1> DEFINE args == ArgsOf(f, m)
<1>1. Executed(f, m) = {Goto(Output(m, <<"ret", args>>), Halted)}
  BY DEF Executed
<1>2. Output(m, <<"ret", args>>) = Machine(m.at, m.regs, m.mem, Append(m.out, <<"ret", args>>))
  BY MachineOps
<1> HIDE DEF args
<1> QED  BY <1>1, <1>2, MachineGoes DEF args

LEMMA ExecutesCall ==
  ASSUME NEW f, NEW m, IsMachine(m), f.code[m.at].op = "call"
  PROVE  Executed(f, m) = {Machine(NextInstruction(f, m.at), m.regs, m.mem,
                                   Append(m.out, <<"call", ArgsOf(f, m)>>))}
<1> DEFINE args == ArgsOf(f, m)
<1>1. Executed(f, m) = {Advance(f, Output(m, <<"call", args>>))}
  BY DEF Executed
<1>2. Output(m, <<"call", args>>) = Machine(m.at, m.regs, m.mem, Append(m.out, <<"call", args>>))
  BY MachineOps
<1> HIDE DEF args
<1> QED  BY <1>1, <1>2, MachineGoes DEF args

LEMMA ExecutesAlloca ==
  ASSUME NEW f, NEW m, IsMachine(m), f.code[m.at].op = "alloca"
  PROVE  Executed(f, m) = {Machine(NextInstruction(f, m.at), Put(m.regs, m.at, m.at), m.mem, m.out)}
<1> DEFINE args == ArgsOf(f, m)
<1>1. Executed(f, m) = {Advance(f, Assign(m, m.at, m.at))}
  BY DEF Executed
<1>2. Assign(m, m.at, m.at) = Machine(m.at, Put(m.regs, m.at, m.at), m.mem, m.out)
  BY MachineOps
<1> HIDE DEF args
<1> QED  BY <1>1, <1>2, MachineGoes DEF args

LEMMA ExecutesStore ==
  ASSUME NEW f, NEW m, IsMachine(m), f.code[m.at].op = "store"
  PROVE  Executed(f, m) = {Machine(NextInstruction(f, m.at), m.regs,
                                   Put(m.mem, ArgsOf(f, m)[2], ArgsOf(f, m)[1]), m.out)}
<1> DEFINE args == ArgsOf(f, m)
<1>1. Executed(f, m) = {Advance(f, [m EXCEPT !.mem = Put(@, args[2], args[1])])}
  BY DEF Executed
<1>2. [m EXCEPT !.mem = Put(@, args[2], args[1])] = Machine(m.at, m.regs, Put(m.mem, args[2], args[1]), m.out)
  BY MachineOps
<1> HIDE DEF args
<1> QED  BY <1>1, <1>2, MachineGoes DEF args

LEMMA ExecutesOther ==
  ASSUME NEW f, NEW m, IsMachine(m), f.code[m.at].op \notin Effects
  PROVE  Executed(f, m) = {Machine(NextInstruction(f, m.at),
                                   Put(m.regs, m.at, Computed(f.code[m.at], m)), m.mem, m.out)}
<1> DEFINE args == ArgsOf(f, m)
           ins  == f.code[m.at]
           v    == Computed(ins, m)
<1>1. Executed(f, m) = {Advance(f, Assign(m, m.at, v))}
  <2>1. CASE ins.op = "load"
    <3>1. Executed(f, m) = {Advance(f, Assign(m, m.at,
            IF args[1] \in DOMAIN m.mem THEN m.mem[args[1]] ELSE <<"undef", args>>))}
      BY <2>1 DEF Executed
    <3> QED  BY <2>1, <3>1 DEF Computed, ArgsOf
  <2>2. CASE ins.op # "load"
    <3>1. Executed(f, m) = {Advance(f, Assign(m, m.at, <<ins.op, args>>))}
      BY <2>2 DEF Executed, Effects, Terminators
    <3> QED  BY <2>2, <3>1 DEF Computed, ArgsOf
  <2> QED  BY <2>1, <2>2
<1>2. Assign(m, m.at, v) = Machine(m.at, Put(m.regs, m.at, v), m.mem, m.out)
  BY MachineOps
<1> HIDE DEF v
<1> QED  BY <1>1, <1>2, MachineGoes DEF v

-------------------------------------------------------------------------------
(* The instruction that a site is replaced with, and the branch it is in.  *)

LEMMA PlainOps ==
  /\ \A op : MutatorFor(op) # "none" => op \notin Effects \cup {"global"}
  /\ \A op \in Opcodes : op \notin Effects \cup {"global", "load"}
  /\ \A op : MutatorFor(op) = "LoadMutator" <=> op = "load"
<1> DEFINE Plain(S) == \A op \in S : op \notin {"call", "store", "alloca", "global", "load"}
<1>1. Plain(ToSet(IntOpcodes)) /\ Plain(ToSet(FloatOpcodes))
  BY DEF ToSet, IntOpcodes, FloatOpcodes
<1>2. Plain(ToSet(SignedPredicates)) /\ Plain(ToSet(UnsignedPredicates))
  BY DEF ToSet, SignedPredicates, UnsignedPredicates
<1>3. \A op : MutatorFor(op) # "none" => op \notin {"call", "store", "alloca", "global"}
  BY <1>1, <1>2 DEF MutatorFor
<1>4. \A op : MutatorFor(op) = "LoadMutator" <=> op = "load"
  BY <1>1, <1>2 DEF MutatorFor
<1>5. Opcodes = ToSet(IntOpcodes) \cup ToSet(FloatOpcodes)
                  \cup ToSet(SignedPredicates) \cup ToSet(UnsignedPredicates)
  BY OpcodesRange
<1>6. \A op \in Opcodes : op \notin {"call", "store", "alloca", "global", "load"}
  BY <1>1, <1>2, <1>5
<1> QED  BY <1>3, <1>4, <1>6, MutableOps DEF Effects

\* What a run has instead of instruction i when i's global has value w.
Instead(i, w) ==
  IF w \in MutationsOf(mutations, i)
  THEN Replacement(Source.code[i], mutations[w].variant)
  ELSE Source.code[i]

\* y is x with the phis of the sites for the sites.
IsLike(x, y) == y.op = x.op /\ y.args = [k \in DOMAIN x.args |-> Now(Sites, x.args[k])]

Branch(i, w)    == IF w \in MutationsOf(mutations, i) THEN Mutant(w) ELSE Clone(i)
BranchEnd(i, w) == IF w \in MutationsOf(mutations, i) THEN MutantBr(w) ELSE CloneBr(i)

LEMMA ReplacedIs ==
  ASSUME NEW ins, IsIns(ins), NEW v, NEW x, x = Replacement(ins, v)
  PROVE  IF ins.op = "load" THEN x.op = "load" /\ x.args = << v >>
                            ELSE x.op = v /\ x.args = ins.args
<1>1. ins = [op |-> ins.op, ty |-> ins.ty, args |-> ins.args, to |-> ins.to, in |-> ins.in,
             cases |-> ins.cases]
  BY DEF IsIns
<1>2. CASE ins.op = "load"
  <2>1. x = [ins EXCEPT !.args = << v >>]
    BY <1>2 DEF Replacement
  <2> QED  BY <1>1, <1>2, <2>1
<1>3. CASE ins.op # "load"
  <2>1. x = [ins EXCEPT !.op = v]
    BY <1>3 DEF Replacement
  <2> QED  BY <1>1, <1>3, <2>1
<1> QED  BY <1>2, <1>3

LEMMA SourceInstructionIs ==
  /\ \A x : x[1] \in {"load", "switch", "clone", "clonebr"} => SourceInstruction(x) = x[2]
  /\ \A x : x[1] \in {"mutant", "mutantbr"} => SourceInstruction(x) = mutations[x[2]].original
  /\ SourceInstruction(LoaderCall) = FirstNonPHI(Source, Source.entry)
  /\ \A x : x[1] \in {"orig", "halted"} => SourceInstruction(x) = x
<1>1. ASSUME NEW x, x[1] \in {"load", "switch", "clone", "clonebr"}
      PROVE  SourceInstruction(x) = x[2]
  <2>1. x[1] \notin {"mutant", "mutantbr"} /\ x # LoaderCall
    BY <1>1 DEF LoaderCall
  <2> QED  BY <1>1, <2>1 DEF SourceInstruction
<1>2. ASSUME NEW x, x[1] \in {"mutant", "mutantbr"}
      PROVE  SourceInstruction(x) = mutations[x[2]].original
  <2>1. x[1] \notin {"load", "switch", "clone", "clonebr"} /\ x # LoaderCall
    BY <1>2 DEF LoaderCall
  <2> QED  BY <1>2, <2>1 DEF SourceInstruction
<1>3. SourceInstruction(LoaderCall) = FirstNonPHI(Source, Source.entry)
  <2>1. LoaderCall[1] = "call"
    BY DEF LoaderCall
  <2> QED  BY <2>1 DEF SourceInstruction, Source
<1>4. ASSUME NEW x, x[1] \in {"orig", "halted"} PROVE SourceInstruction(x) = x
  <2>1. x[1] \notin {"load", "switch", "clone", "clonebr", "mutant", "mutantbr"}
    BY <1>4
  <2>2. x # LoaderCall
    BY <1>4 DEF LoaderCall
  <2> QED  BY <2>1, <2>2 DEF SourceInstruction
<1> QED  BY <1>1, <1>2, <1>3, <1>4

LEMMA InsteadIs ==
  ASSUME Over, NEW i \in Sites, NEW w
  PROVE  LET x == Instead(i, w) IN
         /\ x.op \notin Effects \cup {"global"}
         /\ x.op = "load" => 1 \in DOMAIN x.args
         /\ \A k \in DOMAIN x.args :
              x.args[k] \in ToSet(Source.code[i].args) \/ x.args[k] \in Origs \ Sites
<1> DEFINE ins == Source.code[i]
<1>1. /\ program \in Programs /\ i \in Origs /\ MutatorFor(ins.op) # "none"
      /\ Sites \cap DOMAIN ir.code = {}
  BY OverIs
<1>2. ins.op \notin Effects \cup {"global"}
  BY <1>1, PlainOps
<1>3. HasOperands(ins) /\ IsIns(ins)
  BY <1>1, SourceValues, SourceIs DEF WellFormed
<1>4. \A k \in DOMAIN ins.args : ins.args[k] \in ToSet(ins.args)
  BY DEF ToSet
<1>5. CASE w \notin MutationsOf(mutations, i)
  <2>1. Instead(i, w) = ins
    BY <1>5 DEF Instead
  <2> HIDE DEF ins
  <2> QED  BY <1>2, <1>3, <1>4, <2>1 DEF HasOperands, ins
<1>6. CASE w \in MutationsOf(mutations, i)
  <2>1. /\ w \in DOMAIN mutations /\ mutations[w].original = i
    BY <1>6 DEF MutationsOf
  <2>2. mutations[w].operator = MutatorFor(ins.op)
    BY <2>1 DEF Over, SInv, SameInv
  <2>3. IF mutations[w].operator = "LoadMutator"
        THEN mutations[w].variant \in Origs
        ELSE mutations[w].variant \in Opcodes
    BY <2>1 DEF Over, SInv, IInv, MutationsInv
  <2>4. MutantInv(ir, mutations, w)
    BY <2>1, MutantRuns
  <2> DEFINE v == mutations[w].variant
             x == Instead(i, w)
  <2>5. x = Replacement(ins, v)
    BY <1>6 DEF Instead
  <2>6. IF ins.op = "load" THEN x.op = "load" /\ x.args = << v >>
                           ELSE x.op = v /\ x.args = ins.args
    BY <1>3, <2>5, ReplacedIs
  <2> HIDE DEF x
  <2>7. CASE ins.op = "load"
    <3>1. mutations[w].operator = "LoadMutator"
      BY <2>2, <2>7, PlainOps
    <3>2. v \in Origs \ Sites
      BY <1>1, <2>3, <2>4, <3>1 DEF MutantInv
    <3>3. DOMAIN x.args = {1} /\ x.args[1] = v
      BY <2>6, <2>7
    <3> QED  BY <2>6, <2>7, <3>2, <3>3 DEF x, Effects, Terminators
  <2>8. CASE ins.op # "load"
    <3>1. v \in Opcodes
      BY <2>2, <2>3, <2>8, PlainOps
    <3>2. v \notin Effects \cup {"global", "load"}
      BY <3>1, PlainOps
    <3> QED  BY <1>4, <2>6, <2>8, <3>2 DEF x
  <2> QED  BY <2>7, <2>8
<1> QED  BY <1>5, <1>6

LEMMA BranchIs ==
  ASSUME Over, NEW i \in Sites, NEW w
  PROVE  LET b == Branch(i, w)
             e == BranchEnd(i, w) IN
         /\ {b, e} \subseteq DOMAIN ir.code
         /\ b[1] \notin {"orig", "phi", "load", "call", "switch", "halted"}
         /\ e[1] \notin {"orig", "phi", "load", "call", "switch", "halted"}
         /\ IsLike(Instead(i, w), ir.code[b])
         /\ FirstNonPHI(ir, b) = b /\ PhisOf(ir, b) = {}
         /\ NextInstruction(ir, b) = e /\ BlockOf(ir, e) = b
         /\ ir.code[e].op = "br" /\ ir.code[e].to = << Rest(i) >>
         /\ << b, b >> \in ir.code[Phi(i)].in
         /\ \A d \in ir.code[Phi(i)].in : d[2] = b => d = << b, b >>
         /\ SwitchTarget(ir.code[Switch(i)], w) = b
         /\ SourceInstruction(b) = i /\ SourceInstruction(e) = i
<1> DEFINE b == Branch(i, w)
           e == BranchEnd(i, w)
           ins == Source.code[i]
           ids == MutationsOf(mutations, i)
           switch == ir.code[Switch(i)]
<1>1. /\ program \in Programs /\ i \in Origs
      /\ Sites \cap DOMAIN ir.code = {}
      /\ SiteInv(ir, mutations, i)
      /\ FunctionInv(ir, Sites, mutations)
  BY OverIs DEF ShapeInv, Over, SInv, IInv
<1>2. IsIns(ins)
  BY <1>1, SourceIs DEF WellFormed
<1>3. ir.code[Phi(i)].in = {<< Mutant(n), Mutant(n) >> : n \in ids} \cup {<< Clone(i), Clone(i) >>}
  BY <1>1 DEF SiteInv
<1>4. ToSet(switch.cases) = ids /\ switch.to[1] = Clone(i)
  BY <1>1 DEF SiteInv, FunctionInv
<1>5. CASE w \notin ids
  <2>1. b = Clone(i) /\ e = CloneBr(i) /\ Instead(i, w) = ins
    BY <1>5 DEF Branch, BranchEnd, Instead
  <2>2. /\ {b, e} \subseteq DOMAIN ir.code
        /\ IsNow(Sites, ins, ir.code[b])
        /\ ir.code[e].op = "br" /\ ir.code[e].to = << Rest(i) >>
        /\ FirstNonPHI(ir, b) = b /\ PhisOf(ir, b) = {}
        /\ BlockOf(ir, e) = b /\ NextInstruction(ir, b) = e
    BY <2>1, SiteRuns
  <2>3. IsLike(Instead(i, w), ir.code[b])
    BY <2>1, <2>2 DEF IsNow, IsLike
  <2>4. /\ << b, b >> \in ir.code[Phi(i)].in
        /\ \A d \in ir.code[Phi(i)].in : d[2] = b => d = << b, b >>
    BY <1>3, <2>1 DEF Mutant, Clone
  <2>5. SwitchTarget(switch, w) = b
    BY <1>4, <1>5, <2>1 DEF SwitchTarget
  <2>6. /\ b[1] = "clone" /\ e[1] = "clonebr" /\ b[2] = i /\ e[2] = i
    BY <2>1 DEF Clone, CloneBr
  <2>7. SourceInstruction(b) = i /\ SourceInstruction(e) = i
    BY <2>6, SourceInstructionIs
  <2> HIDE DEF b, e
  <2> QED  BY <2>2, <2>3, <2>4, <2>5, <2>6, <2>7 DEF b, e
<1>6. CASE w \in ids
  <2>0. w \in DOMAIN mutations /\ mutations[w].original = i
    BY <1>6 DEF MutationsOf
  <2>1. b = Mutant(w) /\ e = MutantBr(w) /\ Instead(i, w) = Replacement(ins, mutations[w].variant)
    BY <1>6 DEF Branch, BranchEnd, Instead
  <2>2. /\ {b, e} \subseteq DOMAIN ir.code
        /\ MutantInv(ir, mutations, w)
        /\ ir.code[e].op = "br" /\ ir.code[e].to = << Rest(i) >>
        /\ FirstNonPHI(ir, b) = b /\ PhisOf(ir, b) = {}
        /\ BlockOf(ir, e) = b /\ NextInstruction(ir, b) = e
    BY <2>0, <2>1, MutantRuns
  <2>3. IsLike(Instead(i, w), ir.code[b])
    <3> DEFINE v == mutations[w].variant
               x == Instead(i, w)
    <3>1. IF ins.op = "load" THEN x.op = "load" /\ x.args = << v >>
                             ELSE x.op = v /\ x.args = ins.args
      BY <1>2, <2>1, ReplacedIs
    <3>2. mutations[w].operator = MutatorFor(ins.op)
      BY <2>0 DEF Over, SInv, SameInv
    <3>3. mutations[w].operator = "LoadMutator" <=> ins.op = "load"
      BY <3>2, PlainOps
    <3> HIDE DEF x
    <3>4. CASE ins.op = "load"
      <4>1. /\ ir.code[b].op = "load" /\ ir.code[b].args = << v >> /\ v \in DOMAIN ir.code
        BY <2>1, <2>2, <3>3, <3>4 DEF MutantInv
      <4>2. Now(Sites, v) = v
        BY <1>1, <4>1 DEF Now
      <4>3. [k \in DOMAIN x.args |-> Now(Sites, x.args[k])] = << v >>
        BY <3>1, <3>4, <4>2
      <4> QED  BY <3>1, <3>4, <4>1, <4>3 DEF IsLike, x
    <3>5. CASE ins.op # "load"
      <4>1. ir.code[b].op = v /\ ir.code[b].args = ir.code[Clone(i)].args
        BY <2>0, <2>1, <2>2, <3>3, <3>5 DEF MutantInv
      <4>2. ir.code[Clone(i)].args = [k \in DOMAIN ins.args |-> Now(Sites, ins.args[k])]
        BY SiteRuns DEF IsNow
      <4> QED  BY <3>1, <3>5, <4>1, <4>2 DEF IsLike, x
    <3> QED  BY <3>4, <3>5
  <2>4. /\ << b, b >> \in ir.code[Phi(i)].in
        /\ \A d \in ir.code[Phi(i)].in : d[2] = b => d = << b, b >>
    BY <1>3, <1>6, <2>1 DEF Mutant, Clone
  <2>5. SwitchTarget(switch, w) = b
    <3>1. \E k \in DOMAIN switch.cases : switch.cases[k] = w
      BY <1>4, <1>6 DEF ToSet
    <3> DEFINE k == CHOOSE k \in DOMAIN switch.cases : switch.cases[k] = w
    <3>2. k \in DOMAIN switch.cases /\ switch.cases[k] = w
      BY <3>1
    <3>3. switch.to[k + 1] = Mutant(w)
      BY <1>1, <3>2 DEF SiteInv
    <3>4. SwitchTarget(switch, w) = switch.to[1 + k]
      BY <1>4, <1>6 DEF SwitchTarget
    <3>5. k \in Nat
      BY <1>1, <3>2 DEF FunctionInv
    <3> HIDE DEF k
    <3>6. 1 + k = k + 1
      BY <3>5
    <3> QED  BY <2>1, <3>3, <3>4, <3>6
  <2>6. b[1] = "mutant" /\ e[1] = "mutantbr" /\ b[2] = w /\ e[2] = w
    BY <2>1 DEF Mutant, MutantBr
  <2>7. SourceInstruction(b) = i /\ SourceInstruction(e) = i
    BY <2>0, <2>6, SourceInstructionIs
  <2> HIDE DEF b, e
  <2> QED  BY <2>2, <2>3, <2>4, <2>5, <2>6, <2>7 DEF b, e
<1> QED  BY <1>5, <1>6

-------------------------------------------------------------------------------
(* Where a run is, in the source program.                                  *)

\* The value of the global of site i.
Wanted(m, i) == m.mem[Global(program.id[i])]

\* Machine m is at instruction x of the source program, or in what was made for it.
Doing(m, x) ==
  \/ m.at = LoaderCall /\ x = FirstNonPHI(Source, Source.entry)
  \/ x \notin Sites /\ m.at = x
  \/ x \in Sites /\ m.at = GlobalLoad(x)
  \/ /\ x \in Sites /\ m.at = Switch(x)
     /\ GlobalLoad(x) \in DOMAIN m.regs /\ m.regs[GlobalLoad(x)] = Wanted(m, x)
  \/ x \in Sites /\ m.at = Branch(x, Wanted(m, x))
  \/ /\ x \in Sites /\ m.at = BranchEnd(x, Wanted(m, x))
     /\ Branch(x, Wanted(m, x)) \in DOMAIN m.regs
     /\ m.regs[Branch(x, Wanted(m, x))] = Computed(Instead(x, Wanted(m, x)), SourceMachine(m))

PlaceInv(m) == m.at = Halted \/ \E x \in Origs : Doing(m, x) /\ Ready(DOMAIN m.regs, x)

RunsWell(m) == IsMachine(m) /\ RegsInv(m.regs) /\ MemInv(m.mem) /\ PlaceInv(m)

\* c is the source program with its sites replaced as the globals say.
IsChosen(c, m) ==
  /\ c.layout = Source.layout
  /\ \A y \in Origs \ Sites : c.code[y] = Source.code[y]
  /\ \A i \in Sites : c.code[i] = Instead(i, Wanted(m, i))

\* m becomes n, and the run of c takes the same step or none.
Moves(m, n) == RunsWell(n) /\ \A g \in DOMAIN globals : n.mem[g] = m.mem[g]

Does(c, m, n) ==
  /\ Moves(m, n)
  /\ \/ SourceMachine(n) = SourceMachine(m)
     \/ /\ SourceMachine(m).at # Halted
        /\ SourceMachine(n) \in Executed(c, SourceMachine(m))

LEMMA SourceOf ==
  ASSUME Over, NEW m, IsMachine(m), RegsInv(m.regs)
  PROVE  LET s == SourceMachine(m) IN
         /\ s = Machine(SourceInstruction(m.at), Seen(m.regs), Kept(m.mem), m.out)
         /\ IsMachine(s) /\ s.at = SourceInstruction(m.at) /\ s.regs = Seen(m.regs)
         /\ s.mem = Kept(m.mem) /\ s.out = m.out
<1>1. SourceMachine(m) = Machine(SourceInstruction(m.at), Seen(m.regs), Kept(m.mem), m.out)
  BY SourceMachineIs DEF RegsInv
<1> QED  BY <1>1, MachineIs

LEMMA ChosenIs ==
  ASSUME Over, NEW m, NEW c, IsChosen(c, m)
  PROVE  /\ \A x : NextInstruction(c, x) = NextInstruction(Source, x)
         /\ \A x : BlockOf(c, x) = BlockOf(Source, x)
         /\ \A b \in DOMAIN Source.layout :
              FirstNonPHI(c, b) = FirstNonPHI(Source, b) /\ PhisOf(c, b) = PhisOf(Source, b)
<1>1. c.layout = Source.layout
  BY DEF IsChosen
<1>2. \A x : BlockOf(c, x) = BlockOf(Source, x)
  BY <1>1, Zenon DEF BlockOf
<1>3. ASSUME NEW x PROVE IndexOf(c, x) = IndexOf(Source, x)
  <2> DEFINE b == BlockOf(Source, x)
             l == Source.layout
  <2>1. IndexOf(c, x) = CHOOSE k \in DOMAIN c.layout[BlockOf(c, x)] : c.layout[BlockOf(c, x)][k] = x
    BY DEF IndexOf
  <2>2. IndexOf(Source, x) = CHOOSE k \in DOMAIN l[b] : l[b][k] = x
    BY DEF IndexOf
  <2>3. c.layout = l /\ BlockOf(c, x) = b
    BY <1>1, <1>2
  <2> HIDE DEF b, l
  <2> QED  BY <2>1, <2>2, <2>3
<1>4. \A x : NextInstruction(c, x) = NextInstruction(Source, x)
  BY <1>1, <1>2, <1>3, Zenon DEF NextInstruction
<1>5. \A x \in Origs : c.code[x].op = "phi" <=> Source.code[x].op = "phi"
  <2>1. \A i \in Sites : Source.code[i].op # "phi" /\ c.code[i].op # "phi"
    BY SitesArePlain, InsteadIs DEF IsChosen, Effects
  <2> QED  BY <2>1 DEF IsChosen
<1>6. ASSUME NEW b \in DOMAIN Source.layout
      PROVE  FirstNonPHI(c, b) = FirstNonPHI(Source, b) /\ PhisOf(c, b) = PhisOf(Source, b)
  <2> DEFINE s == Source.layout[b]
             P(k) == /\ Source.code[s[k]].op # "phi"
                     /\ \A j \in 1 .. k - 1 : Source.code[s[j]].op = "phi"
             R(k) == /\ c.code[s[k]].op # "phi"
                     /\ \A j \in 1 .. k - 1 : c.code[s[j]].op = "phi"
  <2>1. DOMAIN s = 1 .. Len(s) /\ Len(s) \in Nat /\ \A k \in DOMAIN s : s[k] \in Origs
    BY <1>6, SourceIs, OverIs
  <2>2. \A k \in DOMAIN s : c.code[s[k]].op = "phi" <=> Source.code[s[k]].op = "phi"
    BY <1>5, <2>1
  <2> HIDE DEF s
  <2>3. \A k \in DOMAIN s : \A j \in 1 .. k - 1 : j \in DOMAIN s
    BY <2>1
  <2>4. \A k \in DOMAIN s : P(k) <=> R(k)
    BY <2>2, <2>3
  <2>5. (CHOOSE k \in DOMAIN s : P(k)) = (CHOOSE k \in DOMAIN s : R(k))
    <3> HIDE DEF P, R
    <3> QED  BY <2>4
  <2>6. FirstNonPHI(Source, b) = s[CHOOSE k \in DOMAIN s : P(k)]
    BY Zenon DEF FirstNonPHI, s
  <2>7. FirstNonPHI(c, b) = s[CHOOSE k \in DOMAIN s : R(k)]
    BY <1>1, Zenon DEF FirstNonPHI, s
  <2>8. PhisOf(c, b) = PhisOf(Source, b)
    <3>1. PhisOf(c, b) = {y \in ToSet(s) : c.code[y].op = "phi"}
      BY <1>1 DEF PhisOf, s
    <3>2. PhisOf(Source, b) = {y \in ToSet(s) : Source.code[y].op = "phi"}
      BY DEF PhisOf, s
    <3>3. \A y \in ToSet(s) : y \in Origs
      BY <2>1 DEF ToSet
    <3> QED  BY <1>5, <3>1, <3>2, <3>3
  <2> QED  BY <2>5, <2>6, <2>7, <2>8
<1> QED  BY <1>2, <1>4, <1>6

LEMMA ReadyGrows ==
  ASSUME NEW D, NEW E, D \subseteq E, NEW x, Ready(D, x)
  PROVE  Ready(E, x)
BY DEF Ready

\* A run that comes to an instruction of the source begins with what was made for it.
LEMMA Arrives ==
  ASSUME Over, NEW n, IsMachine(n), RegsInv(n.regs), MemInv(n.mem),
         NEW x, Ready(DOMAIN n.regs, x),
         \/ n.at = Begins(Sites, x)
         \/ n.at = LoaderCall /\ x = FirstNonPHI(Source, Source.entry)
  PROVE  /\ RunsWell(n)
         /\ SourceMachine(n) = Machine(x, Seen(n.regs), Kept(n.mem), n.out)
<1>1. x \in Origs /\ x[1] = "orig"
  BY OverIs, ProgramIs DEF Ready
<1>2. Doing(n, x)
  BY DEF Doing, Begins
<1>3. SourceInstruction(n.at) = x
  <2>1. CASE n.at = LoaderCall /\ x = FirstNonPHI(Source, Source.entry)
    BY <2>1, SourceInstructionIs
  <2>2. CASE n.at = Begins(Sites, x) /\ x \in Sites
    <3>1. n.at[1] = "load" /\ n.at[2] = x
      BY <2>2 DEF Begins, GlobalLoad
    <3> QED  BY <3>1, SourceInstructionIs
  <2>3. CASE n.at = Begins(Sites, x) /\ x \notin Sites
    BY <1>1, <2>3, SourceInstructionIs DEF Begins
  <2> QED  BY <2>1, <2>2, <2>3
<1>4. RunsWell(n)
  BY <1>1, <1>2 DEF RunsWell, PlaceInv
<1> QED  BY <1>3, <1>4, SourceOf

-------------------------------------------------------------------------------
(* The steps of a site: load, switch, clone or mutant, and out of it.      *)

LEMMA StepGlobalLoad ==
  ASSUME Over, NEW m, RunsWell(m), NEW i \in Sites, m.at = GlobalLoad(i),
         Ready(DOMAIN m.regs, i), NEW n \in Executed(ir, m)
  PROVE  Moves(m, n) /\ SourceMachine(n) = SourceMachine(m)
<1> DEFINE x == GlobalLoad(i)
           g == Global(program.id[i])
           w == Wanted(m, i)
           ins == ir.code[x]
           args == [k \in DOMAIN ins.args |-> ValueOf(m, ins.args[k])]
<1>1. IsMachine(m) /\ RegsInv(m.regs) /\ MemInv(m.mem)
  BY DEF RunsWell
<1>2. /\ x \in DOMAIN ir.code /\ ins.op = "load" /\ ins.args = << g >>
      /\ NextInstruction(ir, x) = Switch(i) /\ Switch(i) \in DOMAIN ir.code
  BY SiteRuns
<1>3. g \in DOMAIN m.mem
  BY <1>1, GlobalsAre DEF MemInv
<1>4. g \notin DOMAIN m.regs
  BY <1>1, NamesOfRegs DEF RegsInv, Global
<1>5. args[1] = g
  BY <1>2, <1>4 DEF ValueOf
<1>6. Computed(ins, m) = w
  <2> HIDE DEF args
  <2>1. Computed(ins, m) = IF args[1] \in DOMAIN m.mem THEN m.mem[args[1]] ELSE <<"undef", args>>
    BY <1>2 DEF Computed, args
  <2> QED  BY <1>3, <1>5, <2>1 DEF Wanted
<1> DEFINE r == Put(m.regs, x, w)
<1>7. n = Machine(Switch(i), r, m.mem, m.out)
  <2>1. ins.op \notin Effects
    BY <1>2 DEF Effects, Terminators
  <2>2. Executed(ir, m) = {Machine(NextInstruction(ir, m.at), Put(m.regs, m.at, Computed(ins, m)), m.mem, m.out)}
    BY <1>1, <2>1, ExecutesOther
  <2> HIDE DEF ins, w
  <2> QED  BY <1>2, <1>6, <2>2
<1>8. /\ IsMachine(n) /\ n.at = Switch(i) /\ n.regs = r /\ n.mem = m.mem /\ n.out = m.out
  BY <1>7, MachineIs
<1>9. x[1] = "load"
  BY DEF GlobalLoad
<1>10. RegsInv(r) /\ Seen(r) = Seen(m.regs)
  BY <1>1, <1>2, <1>9, RegsPut, SeenOther
<1>a. IsPut(r, m.regs, x, w)
  BY AddsOne
<1> HIDE DEF r, w
<1>11. DOMAIN r = DOMAIN m.regs \cup {x} /\ r[x] = w
  BY <1>a DEF IsPut
<1>12. Wanted(n, i) = w
  BY <1>8 DEF Wanted, w
<1>13. Doing(n, i) /\ Ready(DOMAIN n.regs, i)
  <2>1. Ready(DOMAIN n.regs, i)
    BY <1>8, <1>11, ReadyGrows
  <2> QED  BY <1>8, <1>11, <1>12, <2>1 DEF Doing
<1>14. RunsWell(n)
  BY <1>1, <1>8, <1>10, <1>13, OverIs DEF RunsWell, PlaceInv
<1>15. SourceInstruction(n.at) = SourceInstruction(m.at)
  BY <1>8, SourceInstructionIs DEF Switch, GlobalLoad
<1>16. SourceMachine(n) = SourceMachine(m)
  BY <1>1, <1>8, <1>10, <1>15, SourceOf
<1> QED  BY <1>8, <1>14, <1>16 DEF Moves

LEMMA StepSwitch ==
  ASSUME Over, NEW m, RunsWell(m), NEW i \in Sites, m.at = Switch(i),
         GlobalLoad(i) \in DOMAIN m.regs, m.regs[GlobalLoad(i)] = Wanted(m, i),
         Ready(DOMAIN m.regs, i), NEW n \in Executed(ir, m)
  PROVE  Moves(m, n) /\ SourceMachine(n) = SourceMachine(m)
<1> DEFINE w == Wanted(m, i)
           b == Branch(i, w)
           ins == ir.code[Switch(i)]
<1>1. IsMachine(m) /\ RegsInv(m.regs) /\ MemInv(m.mem)
  BY DEF RunsWell
<1>2. ins.op = "switch" /\ ins.args = << GlobalLoad(i) >>
  BY SiteRuns
<1>3. /\ FirstNonPHI(ir, b) = b /\ PhisOf(ir, b) = {}
      /\ SwitchTarget(ins, w) = b /\ SourceInstruction(b) = i
  BY BranchIs
<1>4. ArgsOf(ir, m)[1] = w
  BY <1>2 DEF ArgsOf, ValueOf
<1>5. n = EnterBlock(ir, m, b)
  <2>1. Executed(ir, m) = {EnterBlock(ir, m, SwitchTarget(ins, ArgsOf(ir, m)[1]))}
    BY <1>1, <1>2, ExecutesSwitch
  <2> QED  BY <1>3, <1>4, <2>1
<1>6. EnterBlock(ir, m, b) = Machine(b, m.regs, m.mem, m.out)
  <2>1. EnterBlock(ir, m, b) = Machine(b, Updated(m.regs, Incoming(ir, m, b)), m.mem, m.out)
    BY <1>1, <1>3, EnterBlockIs
  <2>2. DOMAIN Incoming(ir, m, b) = {}
    BY <1>3 DEF Incoming
  <2>3. Updated(m.regs, Incoming(ir, m, b)) = m.regs
    BY <1>1, <2>2, UpdatedByNone DEF RegsInv
  <2> QED  BY <2>1, <2>3
<1>7. /\ IsMachine(n) /\ n.at = b /\ n.regs = m.regs /\ n.mem = m.mem /\ n.out = m.out
  BY <1>5, <1>6, MachineIs
<1> HIDE DEF b
<1>8. Wanted(n, i) = w
  BY <1>7 DEF Wanted
<1>9. Doing(n, i)
  BY <1>7, <1>8 DEF Doing, b
<1>10. RunsWell(n)
  BY <1>1, <1>7, <1>9, OverIs DEF RunsWell, PlaceInv
<1>11. SourceInstruction(m.at) = i
  BY SourceInstructionIs DEF Switch
<1>12. SourceMachine(n) = SourceMachine(m)
  BY <1>1, <1>3, <1>7, <1>11, SourceOf
<1> QED  BY <1>7, <1>10, <1>12 DEF Moves

\* The operands of what a site is replaced with are known.
LEMMA InsteadKnown ==
  ASSUME Over, NEW regs, NEW i \in Sites, Ready(DOMAIN regs, i), NEW w
  PROVE  \A k \in DOMAIN Instead(i, w).args : Known(regs, Instead(i, w).args[k])
<1> DEFINE x == Instead(i, w)
<1>1. SUFFICES ASSUME NEW k \in DOMAIN x.args PROVE Known(regs, x.args[k])
  OBVIOUS
<1>2. x.args[k] \in ToSet(Source.code[i].args) \/ x.args[k] \in Origs \ Sites
  BY InsteadIs
<1>3. program \in Programs /\ i \in Origs
  BY OverIs
<1> HIDE DEF x
<1>4. CASE x.args[k] \in ToSet(Source.code[i].args)
  BY <1>3, <1>4, SourceValues, OperandsReady DEF Known
<1>5. CASE x.args[k] \in Origs \ Sites
  BY <1>5 DEF Known, IsValue
<1> QED  BY <1>2, <1>4, <1>5

LEMMA StepBranch ==
  ASSUME Over, NEW m, RunsWell(m), NEW i \in Sites, m.at = Branch(i, Wanted(m, i)),
         Ready(DOMAIN m.regs, i), NEW n \in Executed(ir, m)
  PROVE  Moves(m, n) /\ SourceMachine(n) = SourceMachine(m)
<1> DEFINE w == Wanted(m, i)
           b == Branch(i, w)
           e == BranchEnd(i, w)
           x == Instead(i, w)
           s == SourceMachine(m)
           ins == ir.code[b]
           v == Computed(x, s)
           r == Put(m.regs, b, v)
<1>1. IsMachine(m) /\ RegsInv(m.regs) /\ MemInv(m.mem)
  BY DEF RunsWell
<1>2. /\ b \in DOMAIN ir.code /\ b[1] \notin {"orig", "phi"}
      /\ IsLike(x, ins) /\ NextInstruction(ir, b) = e
      /\ SourceInstruction(b) = i /\ SourceInstruction(e) = i
  BY BranchIs
<1>3. /\ x.op \notin Effects \cup {"global"}
      /\ x.op = "load" => 1 \in DOMAIN x.args
      /\ \A k \in DOMAIN x.args : Known(m.regs, x.args[k])
  BY InsteadIs, InsteadKnown
<1>4. s.regs = Seen(m.regs) /\ s.mem = Kept(m.mem)
  BY <1>1, SourceOf
<1>5. Computed(ins, m) = v /\ Clean(v)
  <2> HIDE DEF x, s, ins
  <2> QED  BY <1>1, <1>2, <1>3, <1>4, SameComputed DEF IsLike
<1>6. n = Machine(e, r, m.mem, m.out)
  <2>1. ins.op \notin Effects
    BY <1>2, <1>3 DEF IsLike
  <2>2. Executed(ir, m) = {Machine(NextInstruction(ir, b), Put(m.regs, b, Computed(ins, m)), m.mem, m.out)}
    BY <1>1, <2>1, ExecutesOther
  <2> HIDE DEF ins, v, e, b
  <2> QED  BY <1>2, <1>5, <2>2
<1>7. /\ IsMachine(n) /\ n.at = e /\ n.regs = r /\ n.mem = m.mem /\ n.out = m.out
  BY <1>6, MachineIs
<1> HIDE DEF b, v, e
<1>8. RegsInv(r) /\ Seen(r) = Seen(m.regs)
  BY <1>1, <1>2, <1>5, RegsPut, SeenOther
<1>a. IsPut(r, m.regs, b, v)
  BY AddsOne
<1> HIDE DEF r, w
<1>9. DOMAIN r = DOMAIN m.regs \cup {b} /\ r[b] = v
  BY <1>a DEF IsPut
<1>10. Wanted(n, i) = w
  BY <1>7 DEF Wanted, w
<1>11. SourceMachine(n) = s
  BY <1>1, <1>2, <1>7, <1>8, SourceOf DEF b, w
<1>12. Doing(n, i) /\ Ready(DOMAIN n.regs, i)
  <2>1. Ready(DOMAIN n.regs, i)
    BY <1>7, <1>9, ReadyGrows
  <2>2. n.at = BranchEnd(i, Wanted(n, i))
    BY <1>7, <1>10 DEF e
  <2>3. Branch(i, Wanted(n, i)) \in DOMAIN n.regs
    BY <1>7, <1>9, <1>10 DEF b
  <2>4. n.regs[Branch(i, Wanted(n, i))] = Computed(Instead(i, Wanted(n, i)), SourceMachine(n))
    BY <1>7, <1>9, <1>10, <1>11 DEF b, v
  <2> QED  BY <2>1, <2>2, <2>3, <2>4 DEF Doing
<1>13. RunsWell(n)
  BY <1>1, <1>7, <1>8, <1>12, OverIs DEF RunsWell, PlaceInv
<1> QED  BY <1>7, <1>11, <1>13 DEF Moves

LEMMA StepBranchEnd ==
  ASSUME Over, NEW m, RunsWell(m), NEW i \in Sites, m.at = BranchEnd(i, Wanted(m, i)),
         Branch(i, Wanted(m, i)) \in DOMAIN m.regs,
         m.regs[Branch(i, Wanted(m, i))] = Computed(Instead(i, Wanted(m, i)), SourceMachine(m)),
         Ready(DOMAIN m.regs, i), NEW c, IsChosen(c, m), NEW n \in Executed(ir, m)
  PROVE  Does(c, m, n)
<1> DEFINE w == Wanted(m, i)
           b == Branch(i, w)
           e == BranchEnd(i, w)
           x == Instead(i, w)
           s == SourceMachine(m)
           v == Computed(x, s)
           y == NextInstruction(Source, i)
           r == Put(m.regs, Phi(i), v)
           in == ir.code[Phi(i)].in
<1>1. IsMachine(m) /\ RegsInv(m.regs) /\ MemInv(m.mem)
  BY DEF RunsWell
<1>2. /\ b[1] # "load" /\ ir.code[e].op = "br" /\ ir.code[e].to = << Rest(i) >>
      /\ BlockOf(ir, e) = b /\ SourceInstruction(e) = i
      /\ << b, b >> \in in /\ \A d \in in : d[2] = b => d = << b, b >>
  BY BranchIs
<1>3. Clean(v)
  <2>1. v = m.regs[b] /\ b \in DOMAIN m.regs
    OBVIOUS
  <2> HIDE DEF v, b
  <2> QED  BY <1>1, <1>2, <2>1 DEF RegsInv
<1>4. n = EnterBlock(ir, m, Rest(i))
  <2>1. Executed(ir, m) = {EnterBlock(ir, m, ir.code[e].to[1])}
    BY <1>1, <1>2, ExecutesBr
  <2> QED  BY <1>2, <2>1
<1>5. n = Machine(Begins(Sites, y), r, m.mem, m.out)
  <2>1. n = Machine(FirstNonPHI(ir, Rest(i)), Updated(m.regs, Incoming(ir, m, Rest(i))), m.mem, m.out)
    BY <1>1, <1>4, EnterBlockIs
  <2>2. FirstNonPHI(ir, Rest(i)) = Begins(Sites, y) /\ PhisOf(ir, Rest(i)) = {Phi(i)}
    BY SiteRuns
  <2>3. (CHOOSE d \in in : d[2] = b) = << b, b >>
    <3> HIDE DEF b, in
    <3>1. << b, b >>[2] = b
      OBVIOUS
    <3> QED  BY <1>2, <3>1
  <2>4. ValueOf(m, b) = v
    BY DEF ValueOf
  <2>5. Incoming(ir, m, Rest(i)) = [z \in {Phi(i)} |-> v]
    <3>1. Incoming(ir, m, Rest(i))
            = [z \in PhisOf(ir, Rest(i)) |->
                 ValueOf(m, (CHOOSE d \in ir.code[z].in : d[2] = BlockOf(ir, m.at))[1])]
      BY DEF Incoming
    <3>2. BlockOf(ir, m.at) = b
      BY <1>2
    <3> HIDE DEF b, v
    <3>3. ASSUME NEW z \in {Phi(i)}
          PROVE  ValueOf(m, (CHOOSE d \in ir.code[z].in : d[2] = b)[1]) = v
      <4>0. z = Phi(i) /\ << b, b >>[1] = b
        OBVIOUS
      <4>1. (CHOOSE d \in ir.code[z].in : d[2] = b)[1] = b
        BY <2>3, <4>0
      <4> QED  BY <2>4, <4>1
    <3> QED  BY <2>2, <3>1, <3>2, <3>3
  <2>6. Updated(m.regs, Incoming(ir, m, Rest(i))) = r
    <3> HIDE DEF v
    <3> QED  BY <2>5, UpdatedByOne
  <2> HIDE DEF r, y
  <2> QED  BY <2>1, <2>2, <2>6
<1>6. /\ IsMachine(n) /\ n.at = Begins(Sites, y) /\ n.regs = r /\ n.mem = m.mem /\ n.out = m.out
  BY <1>5, MachineIs
<1>7. /\ s.at = i /\ IsMachine(s) /\ s.regs = Seen(m.regs) /\ s.mem = Kept(m.mem) /\ s.out = m.out
  BY <1>1, <1>2, SourceOf
<1>8. IsPut(r, m.regs, Phi(i), v)
  BY AddsOne
<1>9. RegsInv(r)
  <2>1. Phi(i) \in DOMAIN ir.code
    BY SiteRuns
  <2> HIDE DEF v
  <2> QED  BY <1>1, <1>3, <2>1, RegsPut
<1>10. Seen(r) = Put(s.regs, i, v)
  <2>1. i \in Origs /\ Now(Sites, i) = Phi(i)
    BY OverIs DEF Now
  <2> HIDE DEF v, s
  <2> QED  BY <1>1, <1>7, <2>1, SeenPut
<1>11. Ready(DOMAIN n.regs, y)
  <2>1. Source.code[i].op \notin Terminators
    BY SitesArePlain
  <2>2. DOMAIN n.regs = DOMAIN m.regs \cup {Phi(i)}
    BY <1>6, <1>8 DEF IsPut
  <2> HIDE DEF y
  <2> QED  BY <2>1, <2>2, ReadyNext DEF y
<1>12. RunsWell(n) /\ SourceMachine(n) = Machine(y, Seen(r), s.mem, s.out)
  <2> HIDE DEF r, y, s
  <2> QED  BY <1>1, <1>6, <1>7, <1>9, <1>11, Arrives
<1>13. Executed(c, s) = {Machine(y, Put(s.regs, i, v), s.mem, s.out)}
  <2>1. c.code[i] = x /\ NextInstruction(c, i) = y
    BY ChosenIs DEF IsChosen
  <2>2. x.op \notin Effects
    BY InsteadIs
  <2> HIDE DEF x, s, y
  <2>3. Executed(c, s) = {Machine(NextInstruction(c, s.at), Put(s.regs, s.at, Computed(c.code[s.at], s)),
                                  s.mem, s.out)}
    BY <1>7, <2>1, <2>2, ExecutesOther
  <2> QED  BY <1>7, <2>1, <2>3
<1>14. s.at # Halted
  BY <1>7, OverIs, ProgramIs DEF Halted
<1> HIDE DEF s, r, v, y
<1>15. SourceMachine(n) \in Executed(c, s)
  BY <1>10, <1>12, <1>13
<1> QED  BY <1>6, <1>12, <1>14, <1>15 DEF Does, Moves, s

-------------------------------------------------------------------------------
(* The steps of the source's own instructions.                             *)

\* On to the next instruction of the block.
LEMMA GoesOn ==
  ASSUME Over, NEW m, RunsWell(m), NEW x \in Origs \ Sites, m.at = x,
         Ready(DOMAIN m.regs, x), Source.code[x].op \notin Terminators,
         NEW n, IsMachine(n), n.at = NextInstruction(ir, x), RegsInv(n.regs), MemInv(n.mem),
         DOMAIN m.regs \subseteq DOMAIN n.regs
  PROVE  /\ RunsWell(n)
         /\ SourceMachine(n)
              = Machine(NextInstruction(Source, x), Seen(n.regs), Kept(n.mem), n.out)
<1> DEFINE y == NextInstruction(Source, x)
<1>1. NextTo(ir, Now(Sites, x), Begins(Sites, y)) /\ Now(Sites, x) = x
  BY Follows DEF Now
<1>2. n.at = Begins(Sites, y)
  BY <1>1, NextIs
<1>3. Ready(DOMAIN n.regs, y)
  BY ReadyNext
<1> HIDE DEF y
<1> QED  BY <1>2, <1>3, Arrives DEF y

\* On to another block.
LEMMA GoesTo ==
  ASSUME Over, NEW m, IsMachine(m), RegsInv(m.regs), MemInv(m.mem), NEW x \in Origs \ Sites, m.at = x,
         Ready(DOMAIN m.regs, x), Source.code[x].op \in Terminators,
         NEW c, IsChosen(c, m), NEW b \in ToSet(Source.code[x].to)
  PROVE  /\ Moves(m, EnterBlock(ir, m, b))
         /\ SourceMachine(EnterBlock(ir, m, b)) = EnterBlock(c, SourceMachine(m), b)
<1> DEFINE s == SourceMachine(m)
           n == EnterBlock(ir, m, b)
           y == FirstNonPHI(Source, b)
           p == BlockOf(Source, x)
           F == Incoming(ir, m, b)
           G == Incoming(c, s, b)
<1>0. /\ program \in Programs /\ x[1] = "orig"
  BY OverIs, ProgramIs
<1>1. /\ s.at = x /\ IsMachine(s) /\ s.regs = Seen(m.regs) /\ s.mem = Kept(m.mem) /\ s.out = m.out
  <2>1. SourceInstruction(x) = x
    BY <1>0, SourceInstructionIs
  <2> QED  BY <2>1, SourceOf
<1>2. /\ b \in DOMAIN Source.layout /\ b \in Succs(Source, p)
      /\ x = Final(Source, p) /\ p \in DOMAIN Source.layout
  BY <1>0, ReadyTarget, SourceAt
<1>3. /\ PhisOf(ir, b) = PhisOf(Source, b) /\ PhisOf(c, b) = PhisOf(Source, b)
      /\ PhisOf(Source, b) \subseteq Origs \ Sites /\ BlockOf(c, x) = p
      /\ FirstNonPHI(c, b) = y
  BY <1>2, EntersSource, ChosenIs
<1>4. ASSUME NEW z \in PhisOf(Source, b)
      PROVE  F[z] = G[z] /\ Clean(F[z])
  <2> DEFINE e == CHOOSE d \in Source.code[z].in : d[2] = p
  <2>1. /\ z \in Origs /\ BlockOf(Source, z) = b /\ e \in Source.code[z].in /\ e[2] = p
        /\ (CHOOSE d \in ir.code[z].in : d[2] = EndsIn(ir, p))[1] = Now(Sites, e[1])
    <3>1. e = CHOOSE d \in Source.code[z].in : d[2] = p
      OBVIOUS
    <3> HIDE DEF p, e
    <3> QED  BY <1>2, <1>4, <3>1, TakesEdge
  <2>2. EndsIn(ir, p) = BlockOf(ir, x)
    BY <1>2 DEF EndsIn
  <2>3. Known(m.regs, e[1])
    <3>1. IsValue(e[1])
      BY <1>0, <2>1, SourceValues
    <3>2. e[1] \in Sites => Phi(e[1]) \in DOMAIN m.regs
      BY <2>1, EdgeReady
    <3> QED  BY <3>1, <3>2 DEF Known
  <2>4. c.code[z].in = Source.code[z].in
    BY <1>3, <1>4 DEF IsChosen
  <2>5. F[z] = ValueOf(m, Now(Sites, e[1]))
    <3>1. F[z] = ValueOf(m, (CHOOSE d \in ir.code[z].in : d[2] = BlockOf(ir, x))[1])
      BY <1>3, <1>4 DEF Incoming
    <3> QED  BY <2>1, <2>2, <3>1
  <2>6. G[z] = ValueOf(s, e[1])
    <3> HIDE DEF s, p
    <3> QED  BY <1>1, <1>3, <1>4, <2>4 DEF Incoming
  <2> HIDE DEF e, F, G, s
  <2> QED  BY <1>1, <2>3, <2>5, <2>6, ValueIs
<1>5. DOMAIN F = PhisOf(Source, b) /\ DOMAIN G = PhisOf(Source, b)
  BY <1>3 DEF Incoming
<1>6. F = G
  BY <1>3, <1>4 DEF Incoming
<1>7. n = Machine(FirstNonPHI(ir, b), Updated(m.regs, F), m.mem, m.out)
  BY EnterBlockIs
<1>8. EnterBlock(c, s, b) = Machine(y, Updated(s.regs, G), s.mem, s.out)
  BY <1>1, <1>3, EnterBlockIs
<1>9. /\ IsMachine(n) /\ n.at = FirstNonPHI(ir, b) /\ n.regs = Updated(m.regs, F)
      /\ n.mem = m.mem /\ n.out = m.out
  BY <1>7, MachineIs
<1> HIDE DEF F, G, s, n
<1>10. RegsInv(n.regs) /\ Seen(n.regs) = Updated(Seen(m.regs), F)
  <2>1. DOMAIN F \subseteq Origs \ Sites /\ DOMAIN F \subseteq DOMAIN ir.code
    BY <1>3, <1>5, OverIs
  <2>2. \A z \in DOMAIN F : Clean(F[z])
    BY <1>4, <1>5
  <2> QED  BY <1>9, <2>1, <2>2, SeenUpdated, RegsUpdated
<1>11. Ready(DOMAIN n.regs, y)
  <2>1. IsUpdated(n.regs, m.regs, F)
    BY <1>9, AddsAll
  <2>2. DOMAIN m.regs \subseteq DOMAIN n.regs
    BY <2>1 DEF IsUpdated
  <2> QED  BY <2>2, ReadyTarget
<1>12. \/ n.at = Begins(Sites, y)
       \/ n.at = LoaderCall /\ y = FirstNonPHI(Source, Source.entry)
  <2>1. FirstNonPHI(ir, b) = IF CallsFirst(ir, b) THEN LoaderCall ELSE Begins(Sites, y)
    BY <1>2, EntersSource
  <2>2. CallsFirst(ir, b) => b = Source.entry
    BY OverIs DEF CallsFirst
  <2> QED  BY <1>9, <2>1, <2>2
<1> HIDE DEF y
<1>13. RunsWell(n) /\ SourceMachine(n) = Machine(y, Seen(n.regs), Kept(n.mem), n.out)
  BY <1>9, <1>10, <1>11, <1>12, Arrives
<1>14. SourceMachine(n) = EnterBlock(c, s, b)
  BY <1>1, <1>6, <1>8, <1>9, <1>10, <1>13
<1> QED  BY <1>9, <1>13, <1>14 DEF Moves, n, s

LEMMA SameTarget ==
  ASSUME NEW x, NEW y, y.to = x.to, y.cases = x.cases, NEW v
  PROVE  SwitchTarget(y, v) = SwitchTarget(x, v)
<1> DEFINE T(to, cases) == IF v \in ToSet(cases)
                           THEN to[1 + CHOOSE k \in DOMAIN cases : cases[k] = v]
                           ELSE to[1]
<1>1. SwitchTarget(y, v) = T(y.to, y.cases) /\ SwitchTarget(x, v) = T(x.to, x.cases)
  BY DEF SwitchTarget
<1> HIDE DEF T
<1> QED  BY <1>1

LEMMA StepSource ==
  ASSUME Over, NEW m, RunsWell(m), NEW x \in Origs \ Sites, m.at = x, Ready(DOMAIN m.regs, x),
         NEW c, IsChosen(c, m), NEW n \in Executed(ir, m)
  PROVE  Does(c, m, n)
<1> DEFINE s == SourceMachine(m)
           X == Source.code[x]
           Y == ir.code[x]
           A == ArgsOf(c, s)
           next == NextInstruction(Source, x)
<1>1. IsMachine(m) /\ RegsInv(m.regs) /\ MemInv(m.mem)
  BY DEF RunsWell
<1>2. /\ program \in Programs /\ x[1] = "orig" /\ x \in DOMAIN ir.code
      /\ IsNow(Sites, X, Y)
  BY OverIs, ProgramIs DEF CodeInv
<1>3. /\ s.at = x /\ IsMachine(s) /\ s.regs = Seen(m.regs) /\ s.mem = Kept(m.mem) /\ s.out = m.out
  <2>1. SourceInstruction(x) = x
    BY <1>2, SourceInstructionIs
  <2> QED  BY <1>1, <2>1, SourceOf
<1>4. c.code[x] = X
  BY DEF IsChosen
<1>5. Y.op = X.op /\ Y.to = X.to /\ Y.cases = X.cases /\ IsLike(X, Y)
  BY <1>2 DEF IsNow, IsLike
<1>6. /\ HasOperands(X) /\ X.op # "phi"
      /\ \A k \in DOMAIN X.args : Known(m.regs, X.args[k])
  <2>1. HasOperands(X) /\ \A v \in ToSet(X.args) : IsValue(v)
    BY <1>2, SourceValues
  <2>2. \A v \in ToSet(X.args) : v \in Sites => Phi(v) \in DOMAIN m.regs
    BY OperandsReady
  <2>3. \A k \in DOMAIN X.args : X.args[k] \in ToSet(X.args)
    BY DEF ToSet
  <2> QED  BY <2>1, <2>2, <2>3 DEF Known, Ready
<1>7. ArgsOf(ir, m) = A /\ \A k \in DOMAIN X.args : Clean(A[k])
  <2> DEFINE a == [k \in DOMAIN X.args |-> ValueOf(s, X.args[k])]
  <2>1. [k \in DOMAIN Y.args |-> ValueOf(m, Y.args[k])] = a
        /\ \A k \in DOMAIN X.args : Clean(a[k])
    <3> HIDE DEF s, X, Y
    <3> QED  BY <1>1, <1>3, <1>5, <1>6, ArgsAre DEF IsLike
  <2>2. A = a
    <3> HIDE DEF s, X
    <3> QED  BY <1>3, <1>4 DEF ArgsOf
  <2>3. ArgsOf(ir, m) = [k \in DOMAIN Y.args |-> ValueOf(m, Y.args[k])]
    BY DEF ArgsOf
  <2> HIDE DEF a, A, X, Y
  <2> QED  BY <2>1, <2>2, <2>3
<1>8. NextInstruction(c, x) = next /\ s.at # Halted
  BY <1>2, <1>3, ChosenIs DEF Halted
<1>9. \A ms, b : IsChosen(c, m) /\ ms.mem = m.mem => IsChosen(c, ms)
  BY DEF IsChosen, Wanted
<1> HIDE DEF s, X, Y, A, next
\* Where execution goes on, with other registers, other memory or other output.
<1>10. ASSUME NEW r, NEW e, NEW o, n = Machine(NextInstruction(ir, x), r, e, o),
              X.op \notin Terminators, RegsInv(r), MemInv(e), DOMAIN m.regs \subseteq DOMAIN r,
              \A g \in DOMAIN globals : e[g] = m.mem[g],
              Executed(c, s) = {Machine(next, Seen(r), Kept(e), o)}
       PROVE  Does(c, m, n)
  <2>1. /\ IsMachine(n) /\ n.at = NextInstruction(ir, x) /\ n.regs = r /\ n.mem = e /\ n.out = o
    BY <1>10, MachineIs
  <2>2. RunsWell(n) /\ SourceMachine(n) = Machine(next, Seen(r), Kept(e), o)
    <3>1. /\ RunsWell(n)
          /\ SourceMachine(n)
               = Machine(NextInstruction(Source, x), Seen(n.regs), Kept(n.mem), n.out)
      BY <1>10, <2>1, GoesOn DEF X
    <3> QED  BY <2>1, <3>1 DEF next
  <2>3. SourceMachine(n) \in Executed(c, s)
    BY <1>10, <2>2
  <2> QED  BY <1>8, <1>10, <2>1, <2>2, <2>3 DEF Does, Moves, s
\* Where it goes on in another block.
<1>11. ASSUME NEW ms, IsMachine(ms), ms.at = x, ms.regs = m.regs, ms.mem = m.mem,
              X.op \in Terminators, NEW b \in ToSet(X.to), n = EnterBlock(ir, ms, b),
              EnterBlock(c, SourceMachine(ms), b) \in Executed(c, s)
       PROVE  Does(c, m, n)
  <2>1. IsChosen(c, ms)
    BY <1>9, <1>11
  <2>2. /\ Moves(ms, EnterBlock(ir, ms, b))
        /\ SourceMachine(EnterBlock(ir, ms, b)) = EnterBlock(c, SourceMachine(ms), b)
    <3>1. RegsInv(ms.regs) /\ MemInv(ms.mem) /\ Ready(DOMAIN ms.regs, x)
      BY <1>1, <1>11
    <3> QED  BY <1>11, <2>1, <3>1, GoesTo DEF X
  <2> QED  BY <1>8, <1>11, <2>2 DEF Does, Moves, s
<1>12. CASE X.op = "br"
  <2>1. n = EnterBlock(ir, m, X.to[1]) /\ EnterBlock(c, s, X.to[1]) \in Executed(c, s)
    <3>1. Executed(ir, m) = {EnterBlock(ir, m, Y.to[1])}
      BY <1>1, <1>5, <1>12, ExecutesBr DEF Y
    <3>2. Executed(c, s) = {EnterBlock(c, s, X.to[1])}
      BY <1>3, <1>4, <1>12, ExecutesBr
    <3> QED  BY <1>5, <3>1, <3>2
  <2>2. X.to[1] \in ToSet(X.to) /\ X.op \in Terminators
    BY <1>6, <1>12 DEF HasOperands, ToSet, Terminators
  <2> QED  BY <1>1, <1>11, <2>1, <2>2 DEF s
<1>13. CASE X.op = "condbr"
  <2> DEFINE M1(k) == Machine(x, m.regs, m.mem, Append(m.out, <<"br", A, k>>))
             S1(k) == Machine(x, s.regs, s.mem, Append(s.out, <<"br", A, k>>))
  <2>1. Executed(ir, m) = {EnterBlock(ir, M1(k), Y.to[k]) : k \in 1 .. 2}
    BY <1>1, <1>5, <1>7, <1>13, ExecutesCondbr DEF Y
  <2>2. Executed(c, s) = {EnterBlock(c, S1(k), X.to[k]) : k \in 1 .. 2}
    BY <1>3, <1>4, <1>13, ExecutesCondbr DEF A
  <2> HIDE DEF M1, S1
  <2>3. PICK k \in 1 .. 2 : n = EnterBlock(ir, M1(k), X.to[k])
    BY <1>5, <2>1
  <2>4. /\ IsMachine(M1(k)) /\ M1(k).at = x /\ M1(k).regs = m.regs /\ M1(k).mem = m.mem
        /\ M1(k).out = Append(m.out, <<"br", A, k>>)
    <3> DEFINE o == Append(m.out, <<"br", A, k>>)
    <3>1. M1(k) = Machine(x, m.regs, m.mem, o)
      BY DEF M1
    <3> HIDE DEF o
    <3>2. /\ IsMachine(M1(k)) /\ M1(k).at = x /\ M1(k).regs = m.regs /\ M1(k).mem = m.mem
          /\ M1(k).out = o
      BY <3>1, MachineIs
    <3> QED  BY <3>2 DEF o
  <2>5. SourceMachine(M1(k)) = S1(k)
    <3>1. SourceMachine(M1(k)) = Machine(SourceInstruction(M1(k).at), Seen(M1(k).regs), Kept(M1(k).mem), M1(k).out)
      BY <1>1, <2>4, SourceOf
    <3>2. SourceInstruction(x) = x
      BY <1>2, SourceInstructionIs
    <3> QED  BY <1>3, <2>4, <3>1, <3>2 DEF S1
  <2>6. X.to[k] \in ToSet(X.to) /\ X.op \in Terminators
    <3>1. 1 \in DOMAIN X.to /\ 2 \in DOMAIN X.to
      BY <1>6, <1>13 DEF HasOperands
    <3>2. k = 1 \/ k = 2
      OBVIOUS
    <3> QED  BY <1>13, <3>1, <3>2 DEF ToSet, Terminators
  <2>7. EnterBlock(c, SourceMachine(M1(k)), X.to[k]) \in Executed(c, s)
    BY <2>2, <2>5
  <2> QED  BY <1>11, <2>3, <2>4, <2>6, <2>7
<1>14. CASE X.op = "switch"
  <2> DEFINE b == SwitchTarget(X, A[1])
  <2>1. n = EnterBlock(ir, m, b) /\ EnterBlock(c, s, b) \in Executed(c, s)
    <3>1. Executed(ir, m) = {EnterBlock(ir, m, SwitchTarget(Y, A[1]))}
      BY <1>1, <1>5, <1>7, <1>14, ExecutesSwitch DEF Y
    <3>2. Executed(c, s) = {EnterBlock(c, s, b)}
      BY <1>3, <1>4, <1>14, ExecutesSwitch DEF A
    <3>3. SwitchTarget(Y, A[1]) = b
      BY <1>5, SameTarget
    <3> HIDE DEF b
    <3> QED  BY <3>1, <3>2, <3>3
  <2>2. b \in ToSet(X.to) /\ X.op \in Terminators
    <3>1. 1 \in DOMAIN X.to /\ \A k \in DOMAIN X.cases : 1 + k \in DOMAIN X.to
      BY <1>6, <1>14 DEF HasOperands
    <3>2. CASE A[1] \in ToSet(X.cases)
      <4> DEFINE k == CHOOSE j \in DOMAIN X.cases : X.cases[j] = A[1]
      <4>1. \E j \in DOMAIN X.cases : X.cases[j] = A[1]
        BY <3>2 DEF ToSet
      <4>2. k \in DOMAIN X.cases
        BY <4>1
      <4>3. b = X.to[1 + k]
        BY <3>2 DEF SwitchTarget
      <4> HIDE DEF k, b
      <4> QED  BY <1>14, <3>1, <4>2, <4>3 DEF ToSet, Terminators
    <3>3. CASE A[1] \notin ToSet(X.cases)
      <4>1. b = X.to[1]
        BY <3>3 DEF SwitchTarget
      <4> HIDE DEF b
      <4> QED  BY <1>14, <3>1, <4>1 DEF ToSet, Terminators
    <3> QED  BY <3>2, <3>3
  <2> HIDE DEF b
  <2> QED  BY <1>1, <1>11, <2>1, <2>2 DEF s
<1>15. CASE X.op = "ret"
  <2>1. n = Machine(Halted, m.regs, m.mem, Append(m.out, <<"ret", A>>))
    <3>1. Executed(ir, m) = {Machine(Halted, m.regs, m.mem, Append(m.out, <<"ret", ArgsOf(ir, m)>>))}
      BY <1>1, <1>5, <1>15, ExecutesRet DEF Y
    <3> QED  BY <1>7, <3>1
  <2>2. Executed(c, s) = {Machine(Halted, s.regs, s.mem, Append(s.out, <<"ret", A>>))}
    BY <1>3, <1>4, <1>15, ExecutesRet DEF A
  <2>3. /\ IsMachine(n) /\ n.at = Halted /\ n.regs = m.regs /\ n.mem = m.mem
        /\ n.out = Append(m.out, <<"ret", A>>)
    <3> DEFINE o == Append(m.out, <<"ret", A>>)
    <3>1. n = Machine(Halted, m.regs, m.mem, o)
      BY <2>1
    <3> HIDE DEF o
    <3>2. IsMachine(n) /\ n.at = Halted /\ n.regs = m.regs /\ n.mem = m.mem /\ n.out = o
      BY <3>1, MachineIs
    <3> QED  BY <3>2 DEF o
  <2>4. SourceInstruction(Halted) = Halted
    BY SourceInstructionIs DEF Halted
  <2>5. SourceMachine(n) = Machine(Halted, s.regs, s.mem, Append(s.out, <<"ret", A>>))
    <3>1. SourceMachine(n) = Machine(SourceInstruction(n.at), Seen(n.regs), Kept(n.mem), n.out)
      BY <1>1, <2>3, SourceOf
    <3> QED  BY <1>3, <2>3, <2>4, <3>1
  <2>6. RunsWell(n)
    BY <1>1, <2>3 DEF RunsWell, PlaceInv
  <2> QED  BY <1>8, <2>2, <2>3, <2>5, <2>6 DEF Does, Moves, s
<1>16. CASE X.op = "call"
  <2>1. n = Machine(NextInstruction(ir, x), m.regs, m.mem, Append(m.out, <<"call", A>>))
    <3>1. Executed(ir, m) = {Machine(NextInstruction(ir, x), m.regs, m.mem,
                                     Append(m.out, <<"call", ArgsOf(ir, m)>>))}
      BY <1>1, <1>5, <1>16, ExecutesCall DEF Y
    <3> QED  BY <1>7, <3>1
  <2>2. Executed(c, s) = {Machine(next, Seen(m.regs), Kept(m.mem), Append(m.out, <<"call", A>>))}
    <3>1. Executed(c, s) = {Machine(NextInstruction(c, x), s.regs, s.mem, Append(s.out, <<"call", A>>))}
      BY <1>3, <1>4, <1>16, ExecutesCall DEF A
    <3> QED  BY <1>3, <1>8, <3>1
  <2>3. X.op \notin Terminators
    BY <1>16 DEF Terminators
  <2> QED  BY <1>1, <1>10, <2>1, <2>2, <2>3
<1>17. CASE X.op = "alloca"
  <2> DEFINE r == Put(m.regs, x, x)
  <2>1. n = Machine(NextInstruction(ir, x), r, m.mem, m.out)
    <3>1. Executed(ir, m) = {Machine(NextInstruction(ir, x), r, m.mem, m.out)}
      BY <1>1, <1>5, <1>17, ExecutesAlloca DEF Y
    <3> QED  BY <3>1
  <2>2. Clean(x)
    BY <1>2 DEF Clean, Global
  <2>3. RegsInv(r) /\ Seen(r) = Put(Seen(m.regs), x, x)
    BY <1>1, <1>2, <2>2, RegsPut, SeenPut DEF Now
  <2>4. Executed(c, s) = {Machine(next, Seen(r), Kept(m.mem), m.out)}
    <3>1. Executed(c, s) = {Machine(NextInstruction(c, x), Put(s.regs, x, x), s.mem, s.out)}
      BY <1>3, <1>4, <1>17, ExecutesAlloca
    <3> HIDE DEF r
    <3> QED  BY <1>3, <1>8, <2>3, <3>1
  <2>5. DOMAIN m.regs \subseteq DOMAIN r
    <3>1. IsPut(r, m.regs, x, x)
      BY AddsOne
    <3> HIDE DEF r
    <3> QED  BY <3>1 DEF IsPut
  <2>6. X.op \notin Terminators
    BY <1>17 DEF Terminators
  <2> HIDE DEF r
  <2> QED  BY <1>1, <1>10, <2>1, <2>3, <2>4, <2>5, <2>6
<1>18. CASE X.op = "store"
  <2> DEFINE e == Put(m.mem, A[2], A[1])
  <2>1. n = Machine(NextInstruction(ir, x), m.regs, e, m.out)
    <3>1. Executed(ir, m) = {Machine(NextInstruction(ir, x), m.regs,
                                     Put(m.mem, ArgsOf(ir, m)[2], ArgsOf(ir, m)[1]), m.out)}
      BY <1>1, <1>5, <1>18, ExecutesStore DEF Y
    <3> QED  BY <1>7, <3>1
  <2>2. Clean(A[1]) /\ Clean(A[2])
    BY <1>6, <1>7, <1>18 DEF HasOperands
  <2>3. /\ MemInv(e) /\ Kept(e) = Put(Kept(m.mem), A[2], A[1])
        /\ \A g \in DOMAIN globals : e[g] = m.mem[g]
    BY <1>1, <2>2, KeptPut
  <2>4. Executed(c, s) = {Machine(next, Seen(m.regs), Kept(e), m.out)}
    <3>1. Executed(c, s) = {Machine(NextInstruction(c, x), s.regs, Put(s.mem, A[2], A[1]), s.out)}
      BY <1>3, <1>4, <1>18, ExecutesStore DEF A
    <3> HIDE DEF e
    <3> QED  BY <1>3, <1>8, <2>3, <3>1
  <2>5. X.op \notin Terminators
    BY <1>18 DEF Terminators
  <2> HIDE DEF e
  <2> QED  BY <1>1, <1>10, <2>1, <2>3, <2>4, <2>5
<1>19. CASE X.op \notin Effects
  <2> DEFINE v == Computed(X, s)
             r == Put(m.regs, x, v)
  <2>1. Computed(Y, m) = v /\ Clean(v)
    BY <1>1, <1>3, <1>5, <1>6, SameComputed DEF IsLike, HasOperands
  <2>2. n = Machine(NextInstruction(ir, x), r, m.mem, m.out)
    <3>1. Executed(ir, m) = {Machine(NextInstruction(ir, x), Put(m.regs, x, Computed(Y, m)), m.mem, m.out)}
      BY <1>1, <1>5, <1>19, ExecutesOther DEF Y
    <3> QED  BY <2>1, <3>1
  <2> HIDE DEF v
  <2>3. RegsInv(r) /\ Seen(r) = Put(Seen(m.regs), x, v)
    BY <1>1, <1>2, <2>1, RegsPut, SeenPut DEF Now
  <2>4. Executed(c, s) = {Machine(next, Seen(r), Kept(m.mem), m.out)}
    <3>1. Executed(c, s) = {Machine(NextInstruction(c, x), Put(s.regs, x, Computed(X, s)), s.mem, s.out)}
      BY <1>3, <1>4, <1>19, ExecutesOther
    <3> HIDE DEF r
    <3> QED  BY <1>3, <1>8, <2>3, <3>1 DEF v
  <2>5. DOMAIN m.regs \subseteq DOMAIN r
    <3>1. IsPut(r, m.regs, x, v)
      BY AddsOne
    <3> HIDE DEF r
    <3> QED  BY <3>1 DEF IsPut
  <2>6. X.op \notin Terminators
    BY <1>19 DEF Effects
  <2> HIDE DEF r
  <2> QED  BY <1>1, <1>10, <2>2, <2>3, <2>4, <2>5, <2>6
<1> QED  BY <1>6, <1>12, <1>13, <1>14, <1>15, <1>16, <1>17, <1>18, <1>19 DEF Effects, Terminators

\* One instruction of the supermutant is one of the chosen mutant or none.
LEMMA StepDoes ==
  ASSUME Over, NEW m, RunsWell(m), m.at # Halted, m.at # LoaderCall,
         NEW c, IsChosen(c, m), NEW n \in Executed(ir, m)
  PROVE  Does(c, m, n)
<1>1. PICK x \in Origs : Doing(m, x) /\ Ready(DOMAIN m.regs, x)
  BY DEF RunsWell, PlaceInv
<1>2. CASE x \notin Sites /\ m.at = x
  BY <1>1, <1>2, StepSource
<1>3. CASE x \in Sites /\ m.at = GlobalLoad(x)
  BY <1>1, <1>3, StepGlobalLoad DEF Does
<1>4. CASE /\ x \in Sites /\ m.at = Switch(x)
           /\ GlobalLoad(x) \in DOMAIN m.regs /\ m.regs[GlobalLoad(x)] = Wanted(m, x)
  BY <1>1, <1>4, StepSwitch DEF Does
<1>5. CASE x \in Sites /\ m.at = Branch(x, Wanted(m, x))
  BY <1>1, <1>5, StepBranch DEF Does
<1>6. CASE /\ x \in Sites /\ m.at = BranchEnd(x, Wanted(m, x))
           /\ Branch(x, Wanted(m, x)) \in DOMAIN m.regs
           /\ m.regs[Branch(x, Wanted(m, x))] = Computed(Instead(x, Wanted(m, x)), SourceMachine(m))
  BY <1>1, <1>6, StepBranchEnd
<1> QED  BY <1>1, <1>2, <1>3, <1>4, <1>5, <1>6 DEF Doing

-------------------------------------------------------------------------------
(* The operators of the mutant's run are those of the supermutant's.       *)

LEMMA SameWords ==
  /\ M!Halted = Halted /\ M!NotStarted = NotStarted
  /\ \A x, mem : M!Started(x, mem) = Started(x, mem)
  /\ \A v : M!strtol(v) = strtol(v)
  /\ \A ins, v : M!Replacement(ins, v) = Replacement(ins, v)
BY DEF M!Halted, Halted, M!NotStarted, NotStarted, M!Started, Started, M!strtol, strtol,
       M!Replacement, Replacement

LEMMA SameToSet == \A s : M!ToSet(s) = ToSet(s)
BY DEF M!ToSet, ToSet

LEMMA SamePlaces ==
  /\ \A f, x : M!BlockOf(f, x) = BlockOf(f, x)
  /\ \A f, x : M!IndexOf(f, x) = IndexOf(f, x)
  /\ \A f, b : M!FirstNonPHI(f, b) = FirstNonPHI(f, b)
  /\ \A f, x : M!NextInstruction(f, x) = NextInstruction(f, x)
<1>0. \A s, x : M!Contains(s, x) = Contains(s, x)
  BY DEF M!Contains, Contains
<1>1. \A f, x : M!BlockOf(f, x) = BlockOf(f, x)
  BY <1>0 DEF M!BlockOf, BlockOf
<1>2. \A f, x : M!IndexOf(f, x) = IndexOf(f, x)
  BY <1>1 DEF M!IndexOf, IndexOf
<1>3. \A f, b : M!FirstNonPHI(f, b) = FirstNonPHI(f, b)
  BY DEF M!FirstNonPHI, FirstNonPHI
<1>4. \A f, x : M!NextInstruction(f, x) = NextInstruction(f, x)
  BY <1>1, <1>2 DEF M!NextInstruction, NextInstruction
<1> QED  BY <1>1, <1>2, <1>3, <1>4

LEMMA SameMachineOps ==
  /\ \A m, v : M!ValueOf(m, v) = ValueOf(m, v)
  /\ \A f, m : M!ArgsOf(f, m) = ArgsOf(f, m)
  /\ \A m, x : M!Goto(m, x) = Goto(m, x)
  /\ \A f, m : M!Advance(f, m) = Advance(f, m)
  /\ \A m, x, v : M!Put(m, x, v) = Put(m, x, v)
  /\ \A m, x, v : M!Assign(m, x, v) = Assign(m, x, v)
  /\ \A m, e : M!Output(m, e) = Output(m, e)
  /\ \A f, g : M!Updated(f, g) = Updated(f, g)
  /\ \A x, v : M!SwitchTarget(x, v) = SwitchTarget(x, v)
<1>1. \A m, v : M!ValueOf(m, v) = ValueOf(m, v)
  BY DEF M!ValueOf, ValueOf
<1>2. \A f, m : M!ArgsOf(f, m) = ArgsOf(f, m)
  BY <1>1 DEF M!ArgsOf, ArgsOf
<1>3. \A m, x : M!Goto(m, x) = Goto(m, x)
  BY DEF M!Goto, Goto
<1>4. \A f, m : M!Advance(f, m) = Advance(f, m)
  BY <1>3, SamePlaces DEF M!Advance, Advance
<1>5. \A m, x, v : M!Put(m, x, v) = Put(m, x, v)
  BY DEF M!Put, Put
<1>6. \A m, x, v : M!Assign(m, x, v) = Assign(m, x, v)
  BY <1>5 DEF M!Assign, Assign
<1>7. \A m, e : M!Output(m, e) = Output(m, e)
  BY DEF M!Output, Output
<1>8. \A f, g : M!Updated(f, g) = Updated(f, g)
  BY DEF M!Updated, Updated
<1>9. \A x, v : M!SwitchTarget(x, v) = SwitchTarget(x, v)
  BY SameToSet DEF M!SwitchTarget, SwitchTarget
<1> QED  BY <1>1, <1>2, <1>3, <1>4, <1>5, <1>6, <1>7, <1>8, <1>9

LEMMA SameInterpreter ==
  ASSUME NEW f, NEW m
  PROVE  M!Executed(f, m) = Executed(f, m)
<1>1. ASSUME NEW k, NEW b PROVE M!EnterBlock(f, k, b) = EnterBlock(f, k, b)
  <2> DEFINE in(from, x) == (CHOOSE e \in f.code[x].in : e[2] = from)[1]
             phis(S) == {x \in S : f.code[x].op = "phi"}
  <2>1. M!EnterBlock(f, k, b) = [M!Goto(k, M!FirstNonPHI(f, b)) EXCEPT
          !.regs = M!Updated(@, [x \in phis(M!ToSet(f.layout[b])) |->
                                  M!ValueOf(k, in(M!BlockOf(f, k.at), x))])]
    BY DEF M!EnterBlock
  <2>2. EnterBlock(f, k, b) = [Goto(k, FirstNonPHI(f, b)) EXCEPT
          !.regs = Updated(@, [x \in phis(ToSet(f.layout[b])) |->
                                ValueOf(k, in(BlockOf(f, k.at), x))])]
    BY DEF EnterBlock
  <2> HIDE DEF in, phis
  <2>3. M!BlockOf(f, k.at) = BlockOf(f, k.at)
    BY SamePlaces
  <2>4. M!ToSet(f.layout[b]) = ToSet(f.layout[b])
    BY SameToSet
  <2>5. [x \in phis(M!ToSet(f.layout[b])) |-> M!ValueOf(k, in(M!BlockOf(f, k.at), x))]
          = [x \in phis(ToSet(f.layout[b])) |-> ValueOf(k, in(BlockOf(f, k.at), x))]
    BY <2>3, <2>4, SameMachineOps
  <2>6. M!Goto(k, M!FirstNonPHI(f, b)) = Goto(k, FirstNonPHI(f, b))
    BY SamePlaces, SameMachineOps
  <2> QED  BY <2>1, <2>2, <2>5, <2>6, SameMachineOps
<1> QED  BY <1>1, SameMachineOps, SameWords DEF M!Executed, Executed

-------------------------------------------------------------------------------
(* The environment of a run.                                               *)

IDs == {program.id[i] : i \in Sites}

\* Until the loader is done, cs are its checks that are still to come: the global of
\* a site is zero, or what the environment says if its check has been made.
EnvInv(m, e, cs) ==
  /\ DOMAIN e \subseteq IDs /\ cs \in Seq(IDs)
  /\ m.at # LoaderCall => cs = <<>>
  /\ \A i \in Sites :
       IF program.id[i] \in DOMAIN e
       THEN program.id[i] \in ToSet(cs) \/ Wanted(m, i) = strtol(e[program.id[i]])
       ELSE Wanted(m, i) = 0

\* There is a run only when the pass is over.
RunInv ==
  machine # NotStarted =>
    phase = "done" /\ RunsWell(machine) /\ EnvInv(machine, env, checks)

RInv == SInv /\ RunInv

LEMMA SiteIDs ==
  ASSUME Over
  PROVE  /\ \A i \in Sites : SourceID(i) = program.id[i] /\ program.id[i] \in IDs
         /\ \A i \in Sites : \A j \in DOMAIN program.id : program.id[i] = program.id[j] => i = j
         /\ \A id \in IDs : Global(id) \in DOMAIN globals
         /\ ToSet(loader) = IDs /\ loader \in Seq(IDs)
<1>1. program \in Programs /\ Sites \subseteq DOMAIN program.id
  BY OverIs
<1>2. \A i, j \in DOMAIN program.id : program.id[i] = program.id[j] => i = j
  BY <1>1, RunnableAssumption DEF IsRunnable
<1>3. OneForEach(loader, program.id, Sites)
  BY DEF Over, SInv, FlowInv, LoaderInv
<1> QED  BY <1>1, <1>2, <1>3, GlobalsAre DEF SourceID, IDs, OneForEach

\* What is published.
LEMMA RowsAre ==
  ASSUME Over
  PROVE  /\ DOMAIN PublishedRows = DOMAIN mutations
         /\ \A n \in DOMAIN mutations :
              /\ PublishedRows[n].instruction = program.id[mutations[n].original]
              /\ PublishedRows[n].variant = mutations[n].variant
<1> DEFINE row(id) == CHOOSE n \in DOMAIN table : table[n].id = id
<1>1. /\ phase = "done"
      /\ PublishedRows = [id \in {table[n].id : n \in DOMAIN table} |->
              [instruction |-> table[row(id)].instruction,
               variant     |-> IF table[row(id)].replacement = None
                               THEN mutations[row(id)].variant
                               ELSE table[row(id)].replacement]]
  BY DEF Over, PublishedRows
<1>2. /\ table = [n \in 1 .. Len(mutations) |-> toJSON(n, mutations[n])]
      /\ DOMAIN mutations = 1 .. Len(mutations)
  BY <1>1 DEF Over, SInv, IInv, TableInv, MutationsInv
<1>3. /\ DOMAIN table = DOMAIN mutations
      /\ \A n \in DOMAIN mutations :
           /\ table[n].id = n /\ table[n].instruction = SourceID(mutations[n].original)
           /\ table[n].replacement = IF mutations[n].operator = "LoadMutator" THEN None
                                     ELSE mutations[n].variant
  BY <1>2 DEF toJSON
<1>4. /\ {table[n].id : n \in DOMAIN table} = DOMAIN mutations
      /\ \A n \in DOMAIN mutations : row(n) = n
  BY <1>3
<1> HIDE DEF row
<1>5. \A n \in DOMAIN mutations :
        /\ mutations[n].original \in Sites
        /\ mutations[n].operator # "LoadMutator" => mutations[n].variant \in Opcodes
  BY DEF Over, SInv, IInv, MutationsInv
<1>6. \A n \in DOMAIN mutations :
        (IF table[n].replacement = None THEN mutations[n].variant ELSE table[n].replacement)
          = mutations[n].variant
  BY <1>3, <1>5, NoneAssumption
<1>7. \A n \in DOMAIN mutations :
        PublishedRows[n] = [instruction |-> table[n].instruction, variant |-> mutations[n].variant]
  BY <1>1, <1>4, <1>6
<1> QED  BY <1>1, <1>3, <1>4, <1>5, <1>7, SiteIDs

\* Once the loader is done, the globals choose the mutant that the environment does.
LEMMA ChosenMutantIs ==
  ASSUME Over, NEW m, EnvInv(m, env, <<>>)
  PROVE  IsChosen(M!ChosenMutant, m)
<1>1. /\ program \in Programs /\ Sites \subseteq DOMAIN program.id /\ Sites \subseteq Origs
      /\ Source = [entry |-> Source.entry, layout |-> Source.layout, code |-> Source.code]
  BY OverIs, SourceIs DEF WellFormed, IsFunction
<1>2. M!ChosenMutant = [Source EXCEPT !.code = [y \in Origs |-> M!Chosen(y)]]
  BY DEF M!ChosenMutant, Source, Origs
<1>3. /\ M!ChosenMutant.layout = Source.layout
      /\ M!ChosenMutant.code = [y \in Origs |-> M!Chosen(y)]
  BY <1>1, <1>2
<1> DEFINE Selected(y) == /\ y \in DOMAIN program.id
                       /\ program.id[y] \in DOMAIN env
                       /\ strtol(env[program.id[y]]) \in DOMAIN PublishedRows
                       /\ PublishedRows[strtol(env[program.id[y]])].instruction = program.id[y]
<1>4. ASSUME NEW y \in Origs
      PROVE  M!Chosen(y) = IF Selected(y)
               THEN Replacement(Source.code[y],
                                PublishedRows[strtol(env[program.id[y]])].variant)
               ELSE Source.code[y]
  BY SameWords, Zenon DEF M!Chosen, Source
<1>5. \A n \in DOMAIN mutations : mutations[n].original \in Sites /\ n # 0
  BY DEF Over, SInv, IInv, MutationsInv
<1>6. ASSUME NEW y \in Origs \ Sites PROVE ~ Selected(y)
  BY <1>5, <1>6, RowsAre, SiteIDs
<1>7. ASSUME NEW i \in Sites PROVE M!Chosen(i) = Instead(i, Wanted(m, i))
  <2> DEFINE w == Wanted(m, i)
  <2>1. i \in Origs /\ i \in DOMAIN program.id
    BY <1>1
  <2>a. ToSet(<<>>) = {}
    BY DEF ToSet
  <2>2. IF program.id[i] \in DOMAIN env THEN w = strtol(env[program.id[i]]) ELSE w = 0
    BY <2>a DEF EnvInv
  <2> HIDE DEF w
  <2>3. Selected(i) <=> program.id[i] \in DOMAIN env /\ w \in MutationsOf(mutations, i)
    BY <1>5, <2>1, <2>2, RowsAre, SiteIDs DEF MutationsOf
  <2>4. program.id[i] \notin DOMAIN env => w \notin MutationsOf(mutations, i)
    BY <1>5, <2>2 DEF MutationsOf
  <2>5. Selected(i) => PublishedRows[strtol(env[program.id[i]])].variant = mutations[w].variant
    BY <2>2, <2>3, RowsAre DEF MutationsOf
  <2> HIDE DEF Selected
  <2> QED  BY <1>4, <2>1, <2>3, <2>4, <2>5 DEF Instead, w
<1> HIDE DEF Selected
<1> QED  BY <1>1, <1>3, <1>4, <1>6, <1>7 DEF IsChosen

\* How the entry block begins.
LEMMA EntryIs ==
  ASSUME Over, NEW x, x = FirstNonPHI(Source, Source.entry)
  PROVE  IF program.name = "main"
         THEN /\ FirstInstruction = LoaderCall
              /\ NextInstruction(ir, LoaderCall) = Begins(Sites, x)
         ELSE FirstInstruction = Begins(Sites, x)
<1> DEFINE b == Source.entry
<1>1. /\ program \in Programs /\ b \in DOMAIN Source.layout /\ ir.entry = b
      /\ HeadInv(ir, Sites)
  BY OverIs, ProgramIs DEF Source
<1>2. FirstNonPHI(ir, b) = IF CallsFirst(ir, b) THEN LoaderCall ELSE Begins(Sites, x)
  BY <1>1, EntersSource
<1>3. CallsFirst(ir, b) <=> program.name = "main"
  <2>1. LoaderCall \in DOMAIN ir.code => program.name = "main"
    BY DEF Over, SInv, SameInv
  <2>2. program.name = "main" => StartsWith(ir, LoaderCall)
    BY DEF Over, SInv, FlowInv, LoaderInv
  <2>3. StartsWith(ir, LoaderCall) => LoaderCall \in DOMAIN ir.code
    <3>1. OnePlace(ir) /\ WellFormed(ir, Names)
      BY OverIs
    <3>2. ASSUME StartsWith(ir, LoaderCall) PROVE 1 \in DOMAIN ir.layout[ir.entry]
      BY <3>1, <3>2 DEF StartsWith, WellFormed
    <3> QED  BY <3>1, <3>2 DEF StartsWith, OnePlace
  <2> QED  BY <1>1, <2>1, <2>2, <2>3 DEF CallsFirst
<1>4. x = Source.layout[b][1]
  <2>1. /\ WellFormed(Source, Origs) /\ OnePlace(Source) /\ BlocksWellFormed(Source)
    BY <1>1, SourceIs
  <2>2. Source.code[Source.layout[b][1]].op # "phi" /\ Source.layout[b] # <<>>
    BY <1>1, ProgramIs DEF Source
  <2>3. 1 \in DOMAIN Source.layout[b]
    BY <1>1, <2>1, <2>2 DEF WellFormed
  <2>4. \A j \in 1 .. 1 - 1 : FALSE
    OBVIOUS
  <2> QED  BY <1>1, <2>1, <2>2, <2>3, <2>4, FirstIs
<1>5. program.name = "main" => NextInstruction(ir, LoaderCall) = Begins(Sites, x)
  BY <1>1, <1>3, <1>4, NextIs DEF HeadInv
<1> QED  BY <1>1, <1>2, <1>3, <1>5 DEF FirstInstruction

-------------------------------------------------------------------------------
(* The steps of a run.                                                     *)

LEMMA NotStartedIs ==
  /\ NotStarted.at = Halted /\ SourceMachine(NotStarted) = NotStarted
  /\ Halted # LoaderCall /\ Halted[1] # "load"
<1>1. /\ NotStarted.at = Halted /\ NotStarted.regs = <<>> /\ NotStarted.mem = <<>>
      /\ NotStarted.out = <<>>
  BY DEF NotStarted
<1>2. Halted # LoaderCall /\ Halted[1] = "halted"
  BY DEF Halted, LoaderCall
<1>3. SourceInstruction(Halted) = Halted
  BY <1>2, SourceInstructionIs
<1>4. SourceRegs(<<>>) = <<>>
  BY DEF SourceRegs
<1>5. Restrict(<<>>, DOMAIN <<>> \ DOMAIN globals) = <<>>
  BY DEF Restrict
<1>6. SourceMachine(NotStarted)
        = [at |-> Halted, regs |-> <<>>, mem |-> <<>>, out |-> <<>>]
  BY <1>1, <1>3, <1>4, <1>5 DEF SourceMachine
<1> QED  BY <1>1, <1>2, <1>6 DEF NotStarted

\* The engine's globals are not the mutant's.
LEMMA LaunchIs ==
  ASSUME Over, NEW e, DOMAIN e \subseteq IDs, NEW n,
         n = Started(IF program.name = "main" THEN FirstInstruction ELSE LoaderCall, ZeroGlobals)
  PROVE  /\ RunsWell(n) /\ EnvInv(n, e, loader)
         /\ SourceMachine(n) = Started(FirstNonPHI(Source, Source.entry), <<>>)
<1> DEFINE x == FirstNonPHI(Source, Source.entry)
<1>1. n = Machine(LoaderCall, <<>>, ZeroGlobals, <<>>)
  BY EntryIs DEF Started, Machine
<1>2. /\ IsMachine(n) /\ n.at = LoaderCall /\ n.regs = <<>> /\ n.mem = ZeroGlobals
      /\ n.out = <<>>
  BY <1>1, MachineIs
<1>3. RegsInv(<<>>)
  BY DEF RegsInv
<1>4. MemInv(ZeroGlobals)
  BY GlobalsAre DEF MemInv, ZeroGlobals
<1>5. Ready(DOMAIN n.regs, x)
  BY ReadyAtEntry
<1> HIDE DEF x
<1>6. RunsWell(n) /\ SourceMachine(n) = Machine(x, Seen(n.regs), Kept(n.mem), n.out)
  BY <1>2, <1>3, <1>4, <1>5, Arrives DEF x
<1>7. Seen(<<>>) = <<>> /\ Kept(ZeroGlobals) = <<>>
  BY DEF Seen, Kept, Restrict, ZeroGlobals
<1>8. EnvInv(n, e, loader)
  <2>1. \A i \in Sites : Wanted(n, i) = 0
    BY <1>2, GlobalsAre DEF Wanted, ZeroGlobals
  <2> QED  BY <1>2, <2>1, SiteIDs DEF EnvInv
<1> QED  BY <1>2, <1>6, <1>7, <1>8 DEF Started, Machine, x

\* A check writes nothing but a global of the engine.
LEMMA CheckIs ==
  ASSUME Over, NEW m, RunsWell(m), m.at = LoaderCall,
         NEW e, NEW cs, cs # <<>>, EnvInv(m, e, cs),
         NEW n, n = IF Head(cs) \in DOMAIN e
                    THEN [m EXCEPT !.mem[Global(Head(cs))] = strtol(e[Head(cs)])] ELSE m
  PROVE  RunsWell(n) /\ EnvInv(n, e, Tail(cs)) /\ SourceMachine(n) = SourceMachine(m)
<1> DEFINE x == FirstNonPHI(Source, Source.entry)
           h == Head(cs)
           g == Global(h)
           mem == [m.mem EXCEPT ![g] = strtol(e[h])]
<1>1. /\ IsMachine(m) /\ RegsInv(m.regs) /\ MemInv(m.mem)
  BY DEF RunsWell
<1>2. cs \in Seq(IDs) /\ h \in IDs /\ Tail(cs) \in Seq(IDs)
  BY DEF EnvInv
<1>3. g \in DOMAIN globals /\ g \in DOMAIN m.mem
  BY <1>1, <1>2, SiteIDs DEF MemInv
<1>4. \A id \in ToSet(cs) : id = h \/ id \in ToSet(Tail(cs))
  <2> SUFFICES ASSUME NEW id \in ToSet(cs), id # h PROVE id \in ToSet(Tail(cs))
    OBVIOUS
  <2>1. PICK k \in DOMAIN cs : cs[k] = id
    BY DEF ToSet
  <2>2. k \in 1 .. Len(cs) /\ k # 1
    BY <1>2, <2>1
  <2>3. k - 1 \in DOMAIN Tail(cs) /\ Tail(cs)[k - 1] = cs[k]
    BY <1>2, <2>2
  <2> QED  BY <2>1, <2>3 DEF ToSet
<1>5. Ready(DOMAIN m.regs, x)
  BY ReadyAtEntry
<1>6. SourceMachine(m) = Machine(x, Seen(m.regs), Kept(m.mem), m.out)
  BY <1>1, <1>5, Arrives
<1>7. CASE h \in DOMAIN e
  <2>1. n = Machine(m.at, m.regs, mem, m.out)
    <3>1. m = [at |-> m.at, regs |-> m.regs, mem |-> m.mem, out |-> m.out]
      BY <1>1 DEF IsMachine, Machine
    <3>2. n = [m EXCEPT !.mem = mem]
      BY <1>7, <3>1
    <3> HIDE DEF mem
    <3> QED  BY <3>1, <3>2 DEF Machine
  <2>2. Kept(mem) = Kept(m.mem) /\ MemInv(mem)
    BY <1>1, <1>3, KeptExcept
  <2>3. mem[g] = strtol(e[h]) /\ \A a \in DOMAIN m.mem : a # g => mem[a] = m.mem[a]
    BY <1>3
  <2> HIDE DEF mem, x
  <2>4. /\ IsMachine(n) /\ n.at = LoaderCall /\ n.regs = m.regs /\ n.mem = mem /\ n.out = m.out
    <3> DEFINE o == Machine(m.at, m.regs, mem, m.out)
    <3>1. IsMachine(o) /\ o.at = m.at /\ o.regs = m.regs /\ o.mem = mem /\ o.out = m.out
      BY MachineIs
    <3> HIDE DEF o
    <3> QED  BY <2>1, <3>1 DEF o
  <2>5. RunsWell(n) /\ SourceMachine(n) = Machine(x, Seen(n.regs), Kept(n.mem), n.out)
    BY <1>1, <1>5, <2>2, <2>4, Arrives DEF x
  <2>6. ASSUME NEW i \in Sites
        PROVE  IF program.id[i] \in DOMAIN e
               THEN program.id[i] \in ToSet(Tail(cs)) \/ Wanted(n, i) = strtol(e[program.id[i]])
               ELSE Wanted(n, i) = 0
    <3> DEFINE id == program.id[i]
    <3>1. Global(id) \in DOMAIN m.mem /\ (id # h => Global(id) # g)
      BY <1>1, SiteIDs DEF MemInv, Global
    <3>2. IF id \in DOMAIN e THEN id \in ToSet(cs) \/ Wanted(m, i) = strtol(e[id])
          ELSE Wanted(m, i) = 0
      BY DEF EnvInv
    <3>3. CASE id = h
      BY <1>7, <2>3, <2>4, <3>3 DEF Wanted
    <3>4. CASE id # h
      <4>1. Wanted(n, i) = Wanted(m, i)
        BY <2>3, <2>4, <3>1, <3>4 DEF Wanted
      <4> QED  BY <1>4, <3>2, <3>4, <4>1
    <3> QED  BY <3>3, <3>4
  <2>7. DOMAIN e \subseteq IDs
    BY DEF EnvInv
  <2> HIDE DEF h
  <2> QED  BY <1>2, <1>6, <2>2, <2>4, <2>5, <2>6, <2>7 DEF EnvInv
<1>8. CASE h \notin DOMAIN e
  <2>1. n = m
    BY <1>8
  <2>2. \A i \in Sites :
          IF program.id[i] \in DOMAIN e
          THEN program.id[i] \in ToSet(Tail(cs)) \/ Wanted(m, i) = strtol(e[program.id[i]])
          ELSE Wanted(m, i) = 0
    BY <1>4, <1>8 DEF EnvInv
  <2> HIDE DEF h
  <2> QED  BY <1>2, <2>1, <2>2 DEF EnvInv
<1> QED  BY <1>7, <1>8

\* The loader returns to what main begins with.
LEMMA ReturnIs ==
  ASSUME Over, NEW m, RunsWell(m), m.at = LoaderCall, NEW e, EnvInv(m, e, <<>>),
         NEW n, n = IF program.name = "main" THEN Advance(ir, m) ELSE Goto(m, FirstInstruction)
  PROVE  RunsWell(n) /\ EnvInv(n, e, <<>>) /\ SourceMachine(n) = SourceMachine(m)
<1> DEFINE x == FirstNonPHI(Source, Source.entry)
<1>1. /\ IsMachine(m) /\ RegsInv(m.regs) /\ MemInv(m.mem)
  BY DEF RunsWell
<1>2. Ready(DOMAIN m.regs, x)
  BY ReadyAtEntry
<1>3. n = Machine(Begins(Sites, x), m.regs, m.mem, m.out)
  <2>1. CASE program.name = "main"
    <3>1. n = Machine(NextInstruction(ir, m.at), m.regs, m.mem, m.out)
      BY <1>1, <2>1, MachineOps
    <3> QED  BY <2>1, <3>1, EntryIs
  <2>2. CASE program.name # "main"
    <3>1. n = Machine(FirstInstruction, m.regs, m.mem, m.out)
      BY <1>1, <2>2, MachineOps
    <3> QED  BY <2>2, <3>1, EntryIs
  <2> QED  BY <2>1, <2>2
<1>4. SourceMachine(m) = Machine(x, Seen(m.regs), Kept(m.mem), m.out)
  BY <1>1, <1>2, Arrives
<1> HIDE DEF x
<1>5. /\ IsMachine(n) /\ n.at = Begins(Sites, x) /\ n.regs = m.regs /\ n.mem = m.mem
      /\ n.out = m.out
  BY <1>3, MachineIs
<1>6. RunsWell(n) /\ SourceMachine(n) = Machine(x, Seen(n.regs), Kept(n.mem), n.out)
  BY <1>1, <1>2, <1>5, Arrives
<1>7. EnvInv(n, e, <<>>)
  BY <1>5 DEF EnvInv, Wanted
<1> QED  BY <1>4, <1>5, <1>6, <1>7

\* The run takes a step of the mutant that the environment chooses, or none.
LEMMA RunIs ==
  ASSUME Over, NEW m, RunsWell(m), m.at # Halted, m.at # LoaderCall, EnvInv(m, env, <<>>),
         NEW n \in Executed(ir, m)
  PROVE  /\ RunsWell(n) /\ EnvInv(n, env, <<>>)
         /\ \/ SourceMachine(n) = SourceMachine(m)
            \/ /\ SourceMachine(m).at # Halted
               /\ SourceMachine(n) \in M!Executed(M!ChosenMutant, SourceMachine(m))
<1>1. Does(M!ChosenMutant, m, n)
  BY ChosenMutantIs, StepDoes
<1>2. EnvInv(n, env, <<>>)
  BY <1>1, GlobalsAre DEF Does, Moves, EnvInv, Wanted
<1> QED  BY <1>1, <1>2, SameInterpreter DEF Does, Moves

-------------------------------------------------------------------------------
(* The pass is over: what is not the run's stays.                          *)

LEMMA MachineStays ==
  ASSUME UNCHANGED vars, NEW n, machine' = n
  PROVE  SourceMachine(machine)' = SourceMachine(n)
BY DEF vars, engineVars, maps, SourceMachine, SourceInstruction, SourceRegs

LEMMA RowsStay == UNCHANGED vars => PublishedRows' = PublishedRows
BY DEF vars, engineVars, maps, PublishedRows

LEMMA DoingStays ==
  ASSUME UNCHANGED vars, NEW n, machine' = n, NEW x
  PROVE  Doing(machine, x)' <=> Doing(n, x)
<1>1. SourceMachine(machine)' = SourceMachine(n)
  BY MachineStays
<1>2. /\ program' = program /\ mutations' = mutations
      /\ instructionToSwitchMap' = instructionToSwitchMap
  BY DEF vars, engineVars, maps
<1>3. Wanted(machine, x)' = Wanted(n, x)
  BY <1>2 DEF Wanted
<1>4. /\ Branch(x, Wanted(machine, x))' = Branch(x, Wanted(n, x))
      /\ BranchEnd(x, Wanted(machine, x))' = BranchEnd(x, Wanted(n, x))
      /\ Instead(x, Wanted(machine, x))' = Instead(x, Wanted(n, x))
  BY <1>2, <1>3 DEF Branch, BranchEnd, Instead, Source
<1>5. Computed(Instead(x, Wanted(machine, x)), SourceMachine(machine))'
        = Computed(Instead(x, Wanted(n, x)), SourceMachine(n))
  BY <1>1, <1>4
<1>6. FirstNonPHI(Source, Source.entry)' = FirstNonPHI(Source, Source.entry) /\ Sites' = Sites
  BY <1>2 DEF Source, Sites
<1> QED  BY <1>2, <1>3, <1>4, <1>5, <1>6 DEF Doing

LEMMA ReadyStays ==
  ASSUME UNCHANGED vars, NEW n, machine' = n, NEW x
  PROVE  Ready(DOMAIN machine.regs, x)' <=> Ready(DOMAIN n.regs, x)
<1>1. program' = program /\ instructionToSwitchMap' = instructionToSwitchMap
  BY DEF vars, engineVars, maps
<1>2. Source' = Source /\ Sites' = Sites /\ Origs' = Origs
  BY <1>1 DEF Source, Sites, Origs
<1>3. ASSUME NEW y PROVE Precedes(y, x)' <=> Precedes(y, x)
  BY <1>2 DEF Precedes
<1> QED  BY <1>2, <1>3 DEF Ready

LEMMA RunStays ==
  ASSUME UNCHANGED vars, NEW n, machine' = n, RunsWell(n)
  PROVE  RunsWell(machine)'
<1>1. /\ program' = program /\ globals' = globals /\ ir' = ir
      /\ instructionToSwitchMap' = instructionToSwitchMap
  BY DEF vars, engineVars, maps
<1>2. IsMachine(machine)'
  BY DEF RunsWell
<1>3. RegsInv(machine.regs)'
  BY <1>1 DEF RunsWell, RegsInv
<1>4. MemInv(machine.mem)'
  BY <1>1 DEF RunsWell, MemInv
<1>5. PlaceInv(machine)'
  <2>1. CASE n.at = Halted
    BY <2>1 DEF PlaceInv
  <2>2. CASE n.at # Halted
    <3>1. PICK x \in Origs : Doing(n, x) /\ Ready(DOMAIN n.regs, x)
      BY <2>2 DEF RunsWell, PlaceInv
    <3>2. Doing(machine, x)' /\ Ready(DOMAIN machine.regs, x)'
      BY <3>1, DoingStays, ReadyStays
    <3>3. Origs' = Origs
      BY <1>1 DEF Origs
    <3> QED  BY <3>1, <3>2, <3>3 DEF PlaceInv
  <2> QED  BY <2>1, <2>2
<1> QED  BY <1>2, <1>3, <1>4, <1>5 DEF RunsWell

LEMMA EnvStays ==
  ASSUME UNCHANGED vars, NEW n, machine' = n, NEW e, env' = e, NEW cs, checks' = cs,
         EnvInv(n, e, cs)
  PROVE  EnvInv(machine, env, checks)'
<1>1. program' = program /\ instructionToSwitchMap' = instructionToSwitchMap
  BY DEF vars, engineVars, maps
<1>2. Sites' = Sites
  BY <1>1 DEF Sites
<1>3. IDs' = IDs
  BY <1>1, <1>2 DEF IDs
<1>4. ASSUME NEW i PROVE Wanted(machine, i)' = Wanted(n, i)
  BY <1>1 DEF Wanted
<1> QED  BY <1>1, <1>2, <1>3, <1>4 DEF EnvInv

\* What the pass does is nothing to the run, but that the table is published.
LEMMA PassIs ==
  ASSUME machine = NotStarted, machine' = machine
  PROVE  SourceMachine(machine) = NotStarted /\ SourceMachine(machine)' = NotStarted
<1>1. SourceMachine(machine) = NotStarted
  BY NotStartedIs
<1>2. SourceMachine(machine)' = NotStarted
  <2>1. /\ machine'.at = Halted /\ machine'.regs = <<>> /\ machine'.mem = <<>>
        /\ machine'.out = <<>>
    BY DEF NotStarted
  <2>2. SourceInstruction(machine.at)' = Halted
    <3>1. Halted[1] \notin {"load", "switch", "clone", "clonebr", "mutant", "mutantbr"}
      BY DEF Halted
    <3>2. Halted # LoaderCall
      BY NotStartedIs
    <3> QED  BY <2>1, <3>1, <3>2 DEF SourceInstruction
  <2>3. SourceRegs(machine.regs)' = <<>>
    BY <2>1 DEF SourceRegs
  <2>4. Restrict(machine.mem, DOMAIN machine.mem \ DOMAIN globals)' = <<>>
    BY <2>1 DEF Restrict
  <2> QED  BY <2>1, <2>2, <2>3, <2>4 DEF SourceMachine, NotStarted
<1> QED  BY <1>1, <1>2

-------------------------------------------------------------------------------
(* The invariant of a run, and what each step of it is in the mutant's.    *)

\* What is said of one step.
Good == RInv' /\ [M!Next]_M!abstractVars

\* A step of the run itself takes machine, the checks and the environment somewhere.
LEMMA GoodRun ==
  ASSUME RInv, UNCHANGED vars, phase = "done",
         NEW n, machine' = n, NEW e, env' = e, NEW cs, checks' = cs,
         RunsWell(n), EnvInv(n, e, cs),
         \/ SourceMachine(n) = SourceMachine(machine) /\ UNCHANGED env
         \/ M!Launch
         \/ M!Step
  PROVE  Good
<1>1. SInv'
  BY StepSame DEF RInv
<1>2. RunInv'
  BY RunStays, EnvStays DEF RunInv, vars
<1>3. [M!Next]_M!abstractVars
  <2>1. CASE SourceMachine(n) = SourceMachine(machine) /\ UNCHANGED env
    <3>1. SourceMachine(machine)' = SourceMachine(machine)
      BY <2>1, MachineStays
    <3>2. program' = program /\ PublishedRows' = PublishedRows
      BY RowsStay DEF vars, engineVars
    <3> QED  BY <2>1, <3>1, <3>2 DEF M!abstractVars
  <2>2. CASE M!Launch \/ M!Step
    BY <2>2 DEF M!Next
  <2> QED  BY <2>1, <2>2
<1> QED  BY <1>1, <1>2, <1>3 DEF Good, RInv

LEMMA GoodSupermutate == RInv /\ Supermutate => Good
<1> SUFFICES ASSUME RInv, Supermutate PROVE Good
  OBVIOUS
<1>1. /\ Next /\ phase # "done" /\ env' = env /\ checks' = checks /\ machine' = machine
  BY DEF Supermutate, runVars
<1>2. machine = NotStarted
  BY <1>1 DEF RInv, RunInv
<1>3. SInv' /\ program' = program
  <2>1. SInv'
    BY <1>1, StepSame DEF RInv
  <2>2. program' = program
    BY <1>1 DEF Next, Construct, prepare, Collect, Begin, BeginMutate, Skip, SkipCandidate,
                Inject, InjectCandidate, inject, End, EndMutate, Mutated, WriteTable,
                writeMutationTable, WriteBitcode, Returned, vars, engineVars
  <2> QED  BY <2>1, <2>2
<1>4. RunInv'
  BY <1>1, <1>2 DEF RunInv, NotStarted
<1>5. [M!Next]_M!abstractVars
  <2>1. /\ SourceMachine(machine) = NotStarted
        /\ SourceMachine(machine)' = SourceMachine(machine)
    BY <1>1, <1>2, PassIs
  <2>2. CASE PublishedRows' = PublishedRows
    BY <1>1, <1>3, <2>1, <2>2 DEF M!abstractVars
  <2>3. CASE PublishedRows' # PublishedRows
    BY <1>1, <1>3, <2>1, <2>3, SameWords DEF M!Next, M!Publish
  <2> QED  BY <2>2, <2>3
<1> QED  BY <1>3, <1>4, <1>5 DEF Good, RInv

LEMMA GoodLaunch == RInv /\ Launch => Good
<1> SUFFICES ASSUME RInv, Launch PROVE Good
  OBVIOUS
<1>1. PICK n, e, cs : machine' = n /\ env' = e /\ checks' = cs
  OBVIOUS
<1>2. /\ phase = "done" /\ machine = NotStarted /\ env' \in Environments /\ checks' = loader
      /\ machine' = Started(IF program.name = "main" THEN FirstInstruction ELSE LoaderCall,
                            ZeroGlobals)
      /\ UNCHANGED vars
  BY DEF Launch
<1>3. Over
  BY <1>2 DEF RInv, Over
<1>4. DOMAIN e \subseteq IDs
  <2>1. PICK S \in SUBSET ToSet(loader) : env' \in [S -> (0 .. Len(mutations)) \cup {Junk}]
    BY <1>2 DEF Environments
  <2> QED  BY <1>1, <1>3, <2>1, SiteIDs
<1>5. /\ RunsWell(n) /\ EnvInv(n, e, cs)
      /\ SourceMachine(n) = Started(FirstNonPHI(Source, Source.entry), <<>>)
  BY <1>1, <1>2, <1>3, <1>4, LaunchIs
<1>6. M!Launch
  <2>1. SourceMachine(machine) = NotStarted
    BY <1>2, NotStartedIs
  <2>2. SourceMachine(machine)' = SourceMachine(n)
    BY <1>1, <1>2, MachineStays
  <2>3. program' = program /\ PublishedRows' = PublishedRows
    BY <1>2, RowsStay DEF vars, engineVars
  <2> QED  BY <1>5, <2>1, <2>2, <2>3, SameWords, SamePlaces DEF M!Launch, Source
<1> QED  BY <1>1, <1>2, <1>5, <1>6, GoodRun

LEMMA GoodCheck == RInv /\ LoaderCheck => Good
<1> SUFFICES ASSUME RInv, LoaderCheck PROVE Good
  OBVIOUS
<1>1. PICK m, n, e, cs, ds :
        machine = m /\ machine' = n /\ env = e /\ checks = cs /\ checks' = ds
  OBVIOUS
<1>2. /\ m.at = LoaderCall /\ cs # <<>> /\ ds = Tail(cs) /\ UNCHANGED vars /\ env' = e
      /\ n = IF Head(cs) \in DOMAIN e
             THEN [m EXCEPT !.mem[Global(Head(cs))] = strtol(e[Head(cs)])] ELSE m
  BY <1>1 DEF LoaderCheck
<1>3. machine # NotStarted
  BY <1>1, <1>2, NotStartedIs
<1>4. phase = "done" /\ Over /\ RunsWell(m) /\ EnvInv(m, e, cs)
  BY <1>1, <1>3 DEF RInv, RunInv, Over
<1>5. RunsWell(n) /\ EnvInv(n, e, ds) /\ SourceMachine(n) = SourceMachine(m)
  BY <1>2, <1>4, CheckIs
<1> QED  BY <1>1, <1>2, <1>4, <1>5, GoodRun

LEMMA GoodReturn == RInv /\ LoaderReturn => Good
<1> SUFFICES ASSUME RInv, LoaderReturn PROVE Good
  OBVIOUS
<1>1. PICK m, n, e, cs : machine = m /\ machine' = n /\ env = e /\ checks = cs
  OBVIOUS
<1>2. /\ m.at = LoaderCall /\ cs = <<>> /\ UNCHANGED vars /\ env' = e /\ checks' = cs
      /\ n = IF program.name = "main" THEN Advance(ir, m) ELSE Goto(m, FirstInstruction)
  BY <1>1 DEF LoaderReturn
<1>3. machine # NotStarted
  BY <1>1, <1>2, NotStartedIs
<1>4. phase = "done" /\ Over /\ RunsWell(m) /\ EnvInv(m, e, <<>>)
  BY <1>1, <1>2, <1>3 DEF RInv, RunInv, Over
<1>5. RunsWell(n) /\ EnvInv(n, e, <<>>) /\ SourceMachine(n) = SourceMachine(m)
  BY <1>2, <1>4, ReturnIs
<1> QED  BY <1>1, <1>2, <1>4, <1>5, GoodRun

LEMMA GoodStep == RInv /\ Step => Good
<1> SUFFICES ASSUME RInv, Step PROVE Good
  OBVIOUS
<1>1. PICK m, n, e, cs : machine = m /\ machine' = n /\ env = e /\ checks = cs
  OBVIOUS
<1>2. /\ m.at # Halted /\ m.at # LoaderCall /\ UNCHANGED vars /\ env' = e /\ checks' = cs
      /\ n \in Executed(ir, m)
  BY <1>1 DEF Step
<1>3. machine # NotStarted
  BY <1>1, <1>2, NotStartedIs
<1>4. phase = "done" /\ Over /\ RunsWell(m) /\ EnvInv(m, env, <<>>) /\ cs = <<>>
  BY <1>1, <1>2, <1>3 DEF RInv, RunInv, Over, EnvInv
<1>5. /\ RunsWell(n) /\ EnvInv(n, e, cs)
      /\ \/ SourceMachine(n) = SourceMachine(m)
         \/ /\ SourceMachine(m).at # Halted
            /\ SourceMachine(n) \in M!Executed(M!ChosenMutant, SourceMachine(m))
  BY <1>1, <1>2, <1>4, RunIs
<1>6. \/ SourceMachine(n) = SourceMachine(machine) /\ UNCHANGED env
      \/ M!Step
  <2>1. SourceMachine(machine)' = SourceMachine(n)
    BY <1>1, <1>2, MachineStays
  <2>2. program' = program /\ PublishedRows' = PublishedRows
    BY <1>2, RowsStay DEF vars, engineVars
  <2>3. CASE /\ SourceMachine(m).at # Halted
             /\ SourceMachine(n) \in M!Executed(M!ChosenMutant, SourceMachine(m))
    BY <1>1, <1>2, <2>1, <2>2, <2>3, SameWords DEF M!Step
  <2> QED  BY <1>1, <1>2, <1>5, <2>3
<1> QED  BY <1>1, <1>2, <1>4, <1>5, <1>6, GoodRun

LEMMA GoodStutter == RInv /\ UNCHANGED << vars, runVars >> => Good
<1> SUFFICES ASSUME RInv, UNCHANGED << vars, runVars >> PROVE Good
  OBVIOUS
<1>1. UNCHANGED vars /\ machine' = machine /\ env' = env /\ checks' = checks
  BY DEF runVars
<1>2. CASE machine = NotStarted
  <2>1. SInv'
    BY <1>1, StepSame DEF RInv
  <2>2. RunInv'
    BY <1>1, <1>2 DEF RunInv, NotStarted
  <2>3. UNCHANGED M!abstractVars
    <3>1. SourceMachine(machine)' = SourceMachine(machine)
      BY <1>1, <1>2, PassIs
    <3>2. program' = program /\ PublishedRows' = PublishedRows
      BY <1>1, RowsStay DEF vars, engineVars
    <3> QED  BY <1>1, <3>1, <3>2 DEF M!abstractVars
  <2> QED  BY <2>1, <2>2, <2>3 DEF Good, RInv
<1>3. CASE machine # NotStarted
  <2>1. PICK m, e, cs : machine = m /\ env = e /\ checks = cs
    OBVIOUS
  <2>2. phase = "done" /\ RunsWell(m) /\ EnvInv(m, e, cs)
    BY <1>3, <2>1 DEF RInv, RunInv
  <2> QED  BY <1>1, <2>1, <2>2, GoodRun
<1> QED  BY <1>2, <1>3

LEMMA RunStep == RInv /\ [RunNext]_<< vars, runVars >> => Good
<1>1. Exit => UNCHANGED << vars, runVars >>
  BY DEF Exit
<1> QED  BY <1>1, GoodSupermutate, GoodLaunch, GoodCheck, GoodReturn, GoodStep, GoodStutter
         DEF RunNext

LEMMA RunStarts == RunInit => RInv /\ M!Init
<1> SUFFICES ASSUME RunInit PROVE RInv /\ M!Init
  OBVIOUS
<1>1. Init /\ env = <<>> /\ machine = NotStarted
  BY DEF RunInit
<1>2. SInv
  BY <1>1, InitInv, InitFlow, InitSame DEF SInv
<1>3. PublishedRows = <<>>
  BY <1>1 DEF Init, PublishedRows
<1>4. SourceMachine(machine) = NotStarted
  BY <1>1, NotStartedIs
<1> QED  BY <1>1, <1>2, <1>3, <1>4, SameWords DEF RInv, RunInv, M!Init

\* RInv holds in every state of every run: what the supermutator leaves corresponds
\* to the source program, a run of it is somewhere in the source, with the values
\* it needs, and the globals are what the checks have made of the environment.
THEOREM RunInvariance == RunSpec => []RInv
<1>1. RunInit => RInv
  BY RunStarts
<1>2. RInv /\ [RunNext]_<< vars, runVars >> => RInv'
  BY RunStep DEF Good
<1> QED  BY <1>1, <1>2, PTL DEF RunSpec

\* Wherever a run looks up a mutant, every check of the loader has been made, for
\* main itself and for a function that main calls.
THEOREM LoaderIsFirst == RunSpec => []LoaderRunsFirst
<1>1. RInv => LoaderRunsFirst
  <2> SUFFICES ASSUME RInv, machine.at[1] = "load", NEW id \in DOMAIN env
               PROVE  machine.mem[Global(id)] = strtol(env[id])
    BY DEF LoaderRunsFirst
  <2>1. machine # NotStarted /\ machine.at # LoaderCall
    BY NotStartedIs DEF LoaderCall
  <2>2. phase = "done" /\ EnvInv(machine, env, checks)
    BY <2>1 DEF RInv, RunInv
  <2>3. /\ \A j \in DOMAIN env : j \in IDs /\ checks = <<>>
        /\ \A i \in Sites :
             program.id[i] \in DOMAIN env =>
               program.id[i] \in ToSet(checks) \/ Wanted(machine, i) = strtol(env[program.id[i]])
    BY <2>1, <2>2 DEF EnvInv
  <2>4. ToSet(<<>>) = {}
    BY DEF ToSet
  <2>5. PICK i \in Sites : id = program.id[i]
    BY <2>3 DEF IDs
  <2> QED  BY <2>3, <2>4, <2>5 DEF Wanted
<1> QED  BY <1>1, RunInvariance, PTL

\* The mutation table keeps its promise.  A run of the supermutant, with any of
\* the environments, is step by step a run of the source program with one
\* replacement for each site whose variable has the ID of a row of that site, and
\* none for the others: the same branches, calls, memory and result.  A
\* diamond is one step, of its clone or of the mutant that its global selects.
THEOREM RunRefines == RunSpec => ImplementsMutantRun
<1>1. RunInit => M!Init
  BY RunStarts
<1>2. RInv /\ [RunNext]_<< vars, runVars >> => [M!Next]_M!abstractVars
  BY RunStep DEF Good
<1> QED  BY <1>1, <1>2, RunInvariance, PTL DEF RunSpec, ImplementsMutantRun, M!Spec
================================================================================
