------------------------------- MODULE IR_proofs -------------------------------
(***************************************************************************)
(* What the edits of IR do to a function: each keeps it a function whose   *)
(* instructions all have a place in a block, and changes the code of the   *)
(* instructions it names and of no other.                                  *)
(***************************************************************************)
EXTENDS IR, SequenceTheorems, FiniteSetTheorems, WellFoundedInduction, TLAPS

LEMMA PutIs ==
  ASSUME NEW m, NEW k, NEW v
  PROVE  /\ DOMAIN Put(m, k, v) = DOMAIN m \cup {k}
         /\ Put(m, k, v)[k] = v
         /\ \A x \in DOMAIN m : x # k => Put(m, k, v)[x] = m[x]
BY DEF Put

LEMMA EditIs ==
  ASSUME NEW f, NEW layout, NEW code
  PROVE  /\ IsFunction(Edit(f, layout, code))
         /\ Edit(f, layout, code).entry = f.entry
         /\ Edit(f, layout, code).layout = layout
         /\ Edit(f, layout, code).code = code
BY DEF Edit, IsFunction

LEMMA InsIs ==
  ASSUME NEW op, NEW ty, NEW args, args = [k \in DOMAIN args |-> args[k]]
  PROVE  /\ IsIns(Ins(op, ty, args))
         /\ Ins(op, ty, args).op = op
         /\ Ins(op, ty, args).args = args
         /\ Ins(op, ty, args).to = <<>>
         /\ Ins(op, ty, args).in = {}
         /\ Ins(op, ty, args).cases = <<>>
BY DEF IsIns, Ins

\* The three fields that the engine changes.
LEMMA ChangedIns ==
  ASSUME NEW x, IsIns(x), NEW v
  PROVE  /\ [x EXCEPT !.to = v] = [op |-> x.op, ty |-> x.ty, args |-> x.args,
                                    to |-> v, in |-> x.in, cases |-> x.cases]
         /\ [x EXCEPT !.in = v] = [op |-> x.op, ty |-> x.ty, args |-> x.args,
                                    to |-> x.to, in |-> v, cases |-> x.cases]
         /\ [x EXCEPT !.cases = v] = [op |-> x.op, ty |-> x.ty, args |-> x.args,
                                       to |-> x.to, in |-> x.in, cases |-> v]
         /\ [x EXCEPT !.args = v] = [op |-> x.op, ty |-> x.ty, args |-> v,
                                      to |-> x.to, in |-> x.in, cases |-> x.cases]
         /\ [x EXCEPT !.op = v] = [op |-> v, ty |-> x.ty, args |-> x.args,
                                    to |-> x.to, in |-> x.in, cases |-> x.cases]
BY DEF IsIns

\* A new instruction, with jumps or with the values of a phi.
IsNew(x, op, args) == IsIns(x) /\ x.op = op /\ x.args = args /\ x.cases = <<>>

LEMMA NewInsIs ==
  ASSUME NEW op, NEW ty, NEW args, args = [k \in DOMAIN args |-> args[k]], NEW v
  PROVE  /\ IsNew([Ins(op, ty, args) EXCEPT !.to = v], op, args)
         /\ IsNew([Ins(op, ty, args) EXCEPT !.in = v], op, args)
<1> DEFINE x == Ins(op, ty, args)
<1>1. IsIns(x) /\ x.op = op /\ x.args = args /\ x.cases = <<>>
  BY InsIs
<1> HIDE DEF x
<1>2. /\ [x EXCEPT !.to = v] = [op |-> x.op, ty |-> x.ty, args |-> x.args,
                                 to |-> v, in |-> x.in, cases |-> x.cases]
      /\ [x EXCEPT !.in = v] = [op |-> x.op, ty |-> x.ty, args |-> x.args,
                                 to |-> x.to, in |-> v, cases |-> x.cases]
  BY <1>1, ChangedIns
<1> DEFINE y == [x EXCEPT !.to = v]
           z == [x EXCEPT !.in = v]
<1>3. y = [op |-> x.op, ty |-> x.ty, args |-> x.args,
           to |-> v, in |-> x.in, cases |-> x.cases]
  BY <1>2
<1>4. z = [op |-> x.op, ty |-> x.ty, args |-> x.args,
           to |-> x.to, in |-> v, cases |-> x.cases]
  BY <1>2
<1> HIDE DEF y, z
<1>5. IsNew(y, op, args)
  BY <1>1, <1>3 DEF IsNew, IsIns
<1>6. IsNew(z, op, args)
  BY <1>1, <1>4 DEF IsNew, IsIns
<1> QED  BY <1>5, <1>6 DEF x, y, z

LEMMA NewInsAt ==
  ASSUME NEW op, NEW ty, NEW args, args = [k \in DOMAIN args |-> args[k]], NEW v
  PROVE  /\ [Ins(op, ty, args) EXCEPT !.to = v].to = v
         /\ [Ins(op, ty, args) EXCEPT !.to = v].in = {}
         /\ [Ins(op, ty, args) EXCEPT !.in = v].to = <<>>
         /\ [Ins(op, ty, args) EXCEPT !.in = v].in = v
<1> DEFINE x == Ins(op, ty, args)
<1>1. IsIns(x) /\ x.to = <<>> /\ x.in = {}
  BY InsIs
<1> HIDE DEF x
<1>2. /\ [x EXCEPT !.to = v] = [op |-> x.op, ty |-> x.ty, args |-> x.args,
                                 to |-> v, in |-> x.in, cases |-> x.cases]
      /\ [x EXCEPT !.in = v] = [op |-> x.op, ty |-> x.ty, args |-> x.args,
                                 to |-> x.to, in |-> v, cases |-> x.cases]
  BY <1>1, ChangedIns
<1> DEFINE y == [x EXCEPT !.to = v]
           z == [x EXCEPT !.in = v]
<1>3. y = [op |-> x.op, ty |-> x.ty, args |-> x.args,
           to |-> v, in |-> x.in, cases |-> x.cases]
  BY <1>2
<1>4. z = [op |-> x.op, ty |-> x.ty, args |-> x.args,
           to |-> x.to, in |-> v, cases |-> x.cases]
  BY <1>2
<1> HIDE DEF y, z
<1>5. y.to = v /\ y.in = {} /\ z.to = <<>> /\ z.in = v
  BY <1>1, <1>3, <1>4
<1> QED  BY <1>5 DEF x, y, z

LEMMA SingletonIs == ASSUME NEW a PROVE <<a>> = [k \in DOMAIN <<a>> |-> <<a>>[k]]
OBVIOUS

LEMMA EmptyIs == <<>> = [k \in DOMAIN <<>> |-> <<>>[k]]
OBVIOUS

LEMMA JumpIs ==
  ASSUME NEW b
  PROVE  /\ IsIns(Jump(b)) /\ Jump(b).op = "br" /\ Jump(b).args = <<>>
         /\ Jump(b).to = <<b>> /\ Jump(b).in = {} /\ Jump(b).cases = <<>>
<1> DEFINE e == <<>>
           x == Ins("br", "void", e)
<1>1. e = [k \in DOMAIN e |-> e[k]]
  OBVIOUS
<1>2. Jump(b) = [x EXCEPT !.to = <<b>>]
  BY DEF Jump
<1> HIDE DEF e
<1>3. IsIns(x) /\ x.op = "br" /\ x.args = e /\ x.in = {} /\ x.cases = <<>>
  BY <1>1, InsIs
<1> HIDE DEF x
<1>4. Jump(b) = [op |-> x.op, ty |-> x.ty, args |-> x.args,
                 to |-> <<b>>, in |-> x.in, cases |-> x.cases]
  BY <1>2, <1>3, ChangedIns
<1> QED  BY <1>1, <1>3, <1>4 DEF IsIns, e

\* Where an instruction is found.
LEMMA Located ==
  ASSUME NEW f, NEW N, WellFormed(f, N), NEW x \in DOMAIN f.code
  PROVE  /\ BlockOf(f, x) \in DOMAIN f.layout
         /\ f.layout[BlockOf(f, x)] \in Seq(N)
         /\ IndexOf(f, x) \in 1 .. Len(f.layout[BlockOf(f, x)])
         /\ f.layout[BlockOf(f, x)][IndexOf(f, x)] = x
<1>1. PICK b \in DOMAIN f.layout : \E k \in DOMAIN f.layout[b] : f.layout[b][k] = x
  BY DEF WellFormed, Placed
<1>2. f.layout[b] \in Seq(N)
  BY DEF WellFormed
<1>3. Contains(f.layout[b], x)
  BY <1>1, <1>2 DEF Contains
<1>4. BlockOf(f, x) \in DOMAIN f.layout /\ Contains(f.layout[BlockOf(f, x)], x)
  BY <1>3 DEF BlockOf
<1>5. f.layout[BlockOf(f, x)] \in Seq(N)
  BY <1>4 DEF WellFormed
<1>6. \E k \in DOMAIN f.layout[BlockOf(f, x)] : f.layout[BlockOf(f, x)][k] = x
  BY <1>4, <1>5 DEF Contains
<1>7. /\ IndexOf(f, x) \in DOMAIN f.layout[BlockOf(f, x)]
      /\ f.layout[BlockOf(f, x)][IndexOf(f, x)] = x
  BY <1>6 DEF IndexOf
<1> QED  BY <1>4, <1>5, <1>7

-------------------------------------------------------------------------------
(* Sequences.                                                              *)

LEMMA AppendIs ==
  ASSUME NEW S, NEW s \in Seq(S), NEW e \in S
  PROVE  /\ Append(s, e) \in Seq(S) /\ Len(Append(s, e)) = Len(s) + 1
         /\ Append(s, e)[Len(s) + 1] = e
         /\ \A k \in 1 .. Len(s) : Append(s, e)[k] = s[k]
OBVIOUS

LEMMA PairIs ==
  ASSUME NEW a, NEW b
  PROVE  Append(Append(<<>>, a), b) = << a, b >>
<1>1. Append(<<>>, a) = << a >>
  OBVIOUS
<1> DEFINE S == {a, b}
           u == << a >>
           r == Append(u, b)
           t == << a, b >>
<1>2. u \in Seq(S) /\ Len(u) = 1 /\ u[1] = a /\ b \in S
  OBVIOUS
<1>3. t \in Seq(S) /\ Len(t) = 2 /\ t[1] = a /\ t[2] = b
  OBVIOUS
<1> HIDE DEF u, t, S
<1>4. /\ r \in Seq(S) /\ Len(r) = Len(u) + 1
      /\ r[Len(u) + 1] = b /\ \A k \in 1 .. Len(u) : r[k] = u[k]
  BY <1>2, AppendIs
<1> HIDE DEF r
<1>5. \A k \in 1 .. Len(r) : r[k] = t[k]
  BY <1>2, <1>3, <1>4
<1>6. r = t
  BY <1>2, <1>3, <1>4, <1>5, SeqEqual
<1> QED  BY <1>1, <1>6 DEF u, r, t

Holds(s, e) == \E m \in DOMAIN s : s[m] = e

\* t is s with e in front of place k, or without its place k.
Inserted(s, k, e, t) ==
  /\ Len(t) = Len(s) + 1 /\ t[k] = e
  /\ \A j \in 1 .. k - 1 : t[j] = s[j]
  /\ \A j \in k .. Len(s) : t[j + 1] = s[j]

Removed(s, k, t) ==
  /\ Len(t) = Len(s) - 1
  /\ \A j \in 1 .. k - 1 : t[j] = s[j]
  /\ \A j \in k + 1 .. Len(s) : t[j - 1] = s[j]

LEMMA InsertAtIs ==
  ASSUME NEW N, NEW s \in Seq(N), NEW k \in 1 .. Len(s), NEW e \in N
  PROVE  InsertAt(s, k, e) \in Seq(N) /\ Inserted(s, k, e, InsertAt(s, k, e))
<1> DEFINE a == SubSeq(s, 1, k - 1)
           c == SubSeq(s, k, Len(s))
           r == (a \o <<e>>) \o c
<1>1. InsertAt(s, k, e) = r
  BY DEF InsertAt
<1>2. /\ a \in Seq(N) /\ Len(a) = k - 1
      /\ \A j \in 1 .. k - 1 : a[j] = s[j]
  OBVIOUS
<1>3. /\ c \in Seq(N) /\ Len(c) = Len(s) - k + 1
      /\ \A j \in 1 .. Len(s) - k + 1 : c[j] = s[k + j - 1]
  OBVIOUS
<1>4. /\ a \o <<e>> \in Seq(N) /\ Len(a \o <<e>>) = k
      /\ (a \o <<e>>)[k] = e
      /\ \A j \in 1 .. k - 1 : (a \o <<e>>)[j] = s[j]
  <2> HIDE DEF a, c
  <2> QED  BY <1>2
<1>5. /\ r \in Seq(N) /\ Len(r) = Len(s) + 1 /\ r[k] = e
      /\ \A j \in 1 .. k - 1 : r[j] = s[j]
      /\ \A j \in k .. Len(s) : r[j + 1] = s[j]
  <2> DEFINE d == a \o <<e>>
  <2>1. d \in Seq(N) /\ Len(d) = k /\ d[k] = e /\ \A j \in 1 .. k - 1 : d[j] = s[j]
    BY <1>4
  <2>2. r = d \o c
    OBVIOUS
  <2>3. c \in Seq(N)
    BY <1>3
  <2> HIDE DEF a, c, d, r
  <2>4. /\ d \o c \in Seq(N) /\ Len(d \o c) = k + Len(c)
        /\ \A j \in 1 .. k : (d \o c)[j] = d[j]
        /\ \A j \in 1 .. Len(c) : (d \o c)[k + j] = c[j]
    BY <2>1, <2>3
  <2>5. ASSUME NEW j \in k .. Len(s) PROVE r[j + 1] = s[j]
    <3>1. j - k + 1 \in 1 .. Len(c) /\ k + (j - k + 1) = j + 1
      BY <1>3
    <3>2. r[j + 1] = c[j - k + 1]
      BY <2>2, <2>4, <3>1
    <3>3. j - k + 1 \in 1 .. Len(s) - k + 1 /\ k + (j - k + 1) - 1 = j
      OBVIOUS
    <3> QED  BY <1>3, <3>2, <3>3
  <2> QED  BY <1>3, <2>1, <2>2, <2>4, <2>5
<1> HIDE DEF r
<1> QED  BY <1>1, <1>5 DEF Inserted

LEMMA InsertAtKeeps ==
  ASSUME NEW N, NEW s \in Seq(N), NEW k \in 1 .. Len(s), NEW e \in N
  PROVE  /\ InsertAt(s, k, e) \in Seq(N)
         /\ Holds(InsertAt(s, k, e), e)
         /\ \A j \in DOMAIN s : Holds(InsertAt(s, k, e), s[j])
<1> DEFINE r == InsertAt(s, k, e)
<1>5. /\ r \in Seq(N) /\ Len(r) = Len(s) + 1 /\ r[k] = e
      /\ \A j \in 1 .. k - 1 : r[j] = s[j]
      /\ \A j \in k .. Len(s) : r[j + 1] = s[j]
  <2>1. r \in Seq(N) /\ Inserted(s, k, e, r)
    BY InsertAtIs
  <2> HIDE DEF r
  <2> QED  BY <2>1 DEF Inserted
<1> HIDE DEF r
<1>6. ASSUME NEW j \in DOMAIN s PROVE \E m \in DOMAIN r : r[m] = s[j]
  <2>1. CASE j < k
    <3>1. j \in DOMAIN r /\ r[j] = s[j]
      BY <1>5, <2>1
    <3> QED  BY <3>1
  <2>2. CASE ~ j < k
    <3>1. j + 1 \in DOMAIN r /\ r[j + 1] = s[j]
      BY <1>5, <2>2
    <3> QED  BY <3>1
  <2> QED  BY <2>1, <2>2
<1>7. k \in DOMAIN r
  BY <1>5
<1> QED  BY <1>5, <1>6, <1>7 DEF Holds, r

LEMMA RemoveAtIs ==
  ASSUME NEW N, NEW s \in Seq(N), NEW k \in 1 .. Len(s)
  PROVE  RemoveAt(s, k) \in Seq(N) /\ Removed(s, k, RemoveAt(s, k))
<1> DEFINE a == SubSeq(s, 1, k - 1)
           c == SubSeq(s, k + 1, Len(s))
           r == a \o c
<1>1. RemoveAt(s, k) = r
  BY DEF RemoveAt
<1>2. /\ a \in Seq(N) /\ Len(a) = k - 1
      /\ \A j \in 1 .. k - 1 : a[j] = s[j]
  OBVIOUS
<1>3. /\ c \in Seq(N) /\ Len(c) = Len(s) - k
      /\ \A j \in 1 .. Len(s) - k : c[j] = s[k + j]
  OBVIOUS
<1>4. /\ r \in Seq(N) /\ Len(r) = Len(s) - 1
      /\ \A j \in 1 .. k - 1 : r[j] = s[j]
      /\ \A j \in k + 1 .. Len(s) : r[j - 1] = s[j]
  <2>1. a \in Seq(N) /\ c \in Seq(N)
    BY <1>2, <1>3
  <2>2. r = a \o c
    OBVIOUS
  <2> HIDE DEF a, c, r
  <2>3. k - 1 \in Nat /\ Len(a) = k - 1
    BY <1>2
  <2>4. /\ a \o c \in Seq(N) /\ Len(a \o c) = k - 1 + Len(c)
        /\ \A j \in 1 .. k - 1 : (a \o c)[j] = a[j]
        /\ \A j \in 1 .. Len(c) : (a \o c)[k - 1 + j] = c[j]
    BY <2>1, <2>3
  <2>5. /\ r \in Seq(N) /\ Len(r) = k - 1 + Len(c)
        /\ \A j \in 1 .. k - 1 : r[j] = a[j]
        /\ \A j \in 1 .. Len(c) : r[k - 1 + j] = c[j]
    BY <2>2, <2>4
  <2>6. ASSUME NEW j \in k + 1 .. Len(s) PROVE r[j - 1] = s[j]
    <3>1. j - k \in 1 .. Len(c) /\ k - 1 + (j - k) = j - 1
      BY <1>3
    <3>2. r[j - 1] = c[j - k]
      BY <2>5, <3>1
    <3>3. j - k \in 1 .. Len(s) - k /\ k + (j - k) = j
      OBVIOUS
    <3> QED  BY <1>3, <3>2, <3>3
  <2> QED  BY <1>2, <1>3, <2>5, <2>6
<1> HIDE DEF r
<1> QED  BY <1>1, <1>4 DEF Removed

LEMMA RemoveAtKeeps ==
  ASSUME NEW N, NEW s \in Seq(N), NEW k \in 1 .. Len(s)
  PROVE  /\ RemoveAt(s, k) \in Seq(N)
         /\ \A j \in DOMAIN s : j # k =>
              \E m \in DOMAIN RemoveAt(s, k) : RemoveAt(s, k)[m] = s[j]
<1> DEFINE r == RemoveAt(s, k)
<1>4. /\ r \in Seq(N) /\ Len(r) = Len(s) - 1
      /\ \A j \in 1 .. k - 1 : r[j] = s[j]
      /\ \A j \in k + 1 .. Len(s) : r[j - 1] = s[j]
  <2>1. r \in Seq(N) /\ Removed(s, k, r)
    BY RemoveAtIs
  <2> HIDE DEF r
  <2> QED  BY <2>1 DEF Removed
<1> HIDE DEF r
<1>5. ASSUME NEW j \in DOMAIN s, j # k PROVE \E m \in DOMAIN r : r[m] = s[j]
  <2>1. CASE j < k
    <3>1. j \in DOMAIN r /\ r[j] = s[j]
      BY <1>4, <2>1
    <3> QED  BY <3>1
  <2>2. CASE ~ j < k
    <3>1. j - 1 \in DOMAIN r /\ r[j - 1] = s[j]
      BY <1>4, <1>5, <2>2
    <3> QED  BY <3>1
  <2> QED  BY <2>1, <2>2
<1> QED  BY <1>4, <1>5 DEF r

-------------------------------------------------------------------------------
(* The edits.                                                              *)

\* What an edit has to keep.
LEMMA EditKeeps ==
  ASSUME NEW f, NEW N, NEW layout, NEW code,
         \A b \in DOMAIN layout : layout[b] \in Seq(N),
         \A x \in DOMAIN code : IsIns(code[x]) /\ Placed(layout, x)
  PROVE  WellFormed(Edit(f, layout, code), N)
BY EditIs DEF WellFormed

LEMMA AddBlockIs ==
  ASSUME NEW f, NEW N, WellFormed(f, N), NEW b, b \notin DOMAIN f.layout
  PROVE  /\ WellFormed(AddBlock(f, b), N)
         /\ DOMAIN AddBlock(f, b).layout = DOMAIN f.layout \cup {b}
         /\ AddBlock(f, b).code = f.code
<1> DEFINE layout == Put(f.layout, b, <<>>)
<1>1. /\ DOMAIN layout = DOMAIN f.layout \cup {b}
      /\ layout[b] = <<>>
      /\ \A c \in DOMAIN f.layout : c # b => layout[c] = f.layout[c]
  BY DEF Put
<1>2. AddBlock(f, b) = Edit(f, layout, f.code)
  BY DEF AddBlock
<1> HIDE DEF layout
<1>3. ASSUME NEW c \in DOMAIN layout PROVE layout[c] \in Seq(N)
  <2>1. CASE c = b
    BY <1>1, <2>1
  <2>2. CASE c # b
    BY <1>1, <2>2 DEF WellFormed
  <2> QED  BY <2>1, <2>2
<1>4. ASSUME NEW x \in DOMAIN f.code PROVE IsIns(f.code[x]) /\ Placed(layout, x)
  BY <1>1 DEF WellFormed, Placed
<1> QED  BY <1>1, <1>2, <1>3, <1>4, EditIs, EditKeeps

\* With t for block b and the code replaced, every instruction has a place.
Covers(f, b, t, code) ==
  /\ \A k \in DOMAIN f.layout[b] : f.layout[b][k] \in DOMAIN code =>
       \E m \in DOMAIN t : t[m] = f.layout[b][k]
  /\ \A y \in DOMAIN code :
       /\ IsIns(code[y])
       /\ y \in DOMAIN f.code \/ \E m \in DOMAIN t : t[m] = y

LEMMA BlockEditKeeps ==
  ASSUME NEW f, NEW N, WellFormed(f, N), NEW b \in DOMAIN f.layout,
         NEW t \in Seq(N), NEW code,
         Covers(f, b, t, code)
  PROVE  /\ WellFormed(Edit(f, Put(f.layout, b, t), code), N)
         /\ DOMAIN Edit(f, Put(f.layout, b, t), code).layout = DOMAIN f.layout
         /\ Edit(f, Put(f.layout, b, t), code).code = code
<1> DEFINE layout == Put(f.layout, b, t)
<1>1. /\ DOMAIN layout = DOMAIN f.layout
      /\ layout[b] = t
      /\ \A c \in DOMAIN f.layout : c # b => layout[c] = f.layout[c]
  BY DEF Put
<1> HIDE DEF layout
<1>2. \A c \in DOMAIN layout : layout[c] \in Seq(N)
  BY <1>1 DEF WellFormed
<1>3. ASSUME NEW y \in DOMAIN code PROVE IsIns(code[y]) /\ Placed(layout, y)
  <2>1. CASE \E m \in DOMAIN t : t[m] = y
    BY <2>1, <1>1 DEF Covers, Placed
  <2>2. CASE y \in DOMAIN f.code
    <3>1. PICK c \in DOMAIN f.layout : \E k \in DOMAIN f.layout[c] : f.layout[c][k] = y
      BY <2>2 DEF WellFormed, Placed
    <3>2. \E k \in DOMAIN layout[c] : layout[c][k] = y
      BY <3>1, <1>1 DEF Covers
    <3> QED  BY <3>1, <3>2, <1>1 DEF Covers, Placed
  <2>3. IsIns(code[y]) /\ (y \in DOMAIN f.code \/ \E m \in DOMAIN t : t[m] = y)
    BY DEF Covers
  <2> QED  BY <2>1, <2>2, <2>3
<1>4. WellFormed(Edit(f, layout, code), N)
  BY <1>2, <1>3, EditKeeps
<1>5. /\ Edit(f, layout, code).layout = layout
      /\ Edit(f, layout, code).code = code
  BY EditIs
<1> QED  BY <1>1, <1>4, <1>5 DEF layout

LEMMA PushBackIs ==
  ASSUME NEW f, NEW N, WellFormed(f, N), NEW b \in DOMAIN f.layout,
         NEW x \in N, NEW ins, IsIns(ins)
  PROVE  /\ WellFormed(PushBack(f, b, x, ins), N)
         /\ DOMAIN PushBack(f, b, x, ins).layout = DOMAIN f.layout
         /\ DOMAIN PushBack(f, b, x, ins).code = DOMAIN f.code \cup {x}
         /\ PushBack(f, b, x, ins).code[x] = ins
         /\ \A y \in DOMAIN f.code \ {x} :
              PushBack(f, b, x, ins).code[y] = f.code[y]
<1> DEFINE s == f.layout[b]
           t == Append(s, x)
           code == Put(f.code, x, ins)
<1>1. /\ DOMAIN code = DOMAIN f.code \cup {x}
      /\ code[x] = ins
      /\ \A y \in DOMAIN f.code : y # x => code[y] = f.code[y]
  BY DEF Put
<1>2. PushBack(f, b, x, ins) = Edit(f, Put(f.layout, b, t), code)
  BY DEF PushBack
<1>3. s \in Seq(N)
  BY DEF WellFormed
<1>4. /\ t \in Seq(N)
      /\ Len(s) + 1 \in DOMAIN t /\ t[Len(s) + 1] = x
      /\ \A k \in DOMAIN s : k \in DOMAIN t /\ t[k] = s[k]
  <2> HIDE DEF s
  <2> QED  BY <1>3
<1> HIDE DEF code, t
<1>5. \A y \in DOMAIN code :
        IsIns(code[y]) /\ (y \in DOMAIN f.code \/ \E m \in DOMAIN t : t[m] = y)
  BY <1>1, <1>4 DEF WellFormed
<1>6. \A k \in DOMAIN f.layout[b] : \E m \in DOMAIN t : t[m] = f.layout[b][k]
  BY <1>4
<1>c. Covers(f, b, t, code)
  BY <1>5, <1>6 DEF Covers
<1>7. /\ WellFormed(Edit(f, Put(f.layout, b, t), code), N)
      /\ DOMAIN Edit(f, Put(f.layout, b, t), code).layout = DOMAIN f.layout
      /\ Edit(f, Put(f.layout, b, t), code).code = code
  BY <1>4, <1>c, BlockEditKeeps
<1> QED  BY <1>1, <1>2, <1>7

LEMMA InsertBeforeIs ==
  ASSUME NEW f, NEW N, WellFormed(f, N), NEW i \in DOMAIN f.code,
         NEW x \in N, NEW ins, IsIns(ins)
  PROVE  /\ WellFormed(InsertBefore(f, i, x, ins), N)
         /\ DOMAIN InsertBefore(f, i, x, ins).layout = DOMAIN f.layout
         /\ DOMAIN InsertBefore(f, i, x, ins).code = DOMAIN f.code \cup {x}
         /\ InsertBefore(f, i, x, ins).code[x] = ins
         /\ \A y \in DOMAIN f.code \ {x} :
              InsertBefore(f, i, x, ins).code[y] = f.code[y]
<1> DEFINE b == BlockOf(f, i)
           s == f.layout[b]
           k == IndexOf(f, i)
           t == InsertAt(s, k, x)
           code == Put(f.code, x, ins)
<1>1. /\ DOMAIN code = DOMAIN f.code \cup {x}
      /\ code[x] = ins
      /\ \A y \in DOMAIN f.code : y # x => code[y] = f.code[y]
  BY DEF Put
<1>2. InsertBefore(f, i, x, ins) = Edit(f, Put(f.layout, b, t), code)
  BY DEF InsertBefore
<1>3. b \in DOMAIN f.layout /\ s \in Seq(N) /\ k \in 1 .. Len(s)
  BY Located
<1>4. /\ t \in Seq(N)
      /\ \E m \in DOMAIN t : t[m] = x
      /\ \A j \in DOMAIN s : \E m \in DOMAIN t : t[m] = s[j]
  <2>1. x \in N
    OBVIOUS
  <2> HIDE DEF s, k
  <2>2. /\ InsertAt(s, k, x) \in Seq(N)
        /\ Holds(InsertAt(s, k, x), x)
        /\ \A j \in DOMAIN s : Holds(InsertAt(s, k, x), s[j])
    BY <1>3, <2>1, InsertAtKeeps
  <2>3. t = InsertAt(s, k, x)
    OBVIOUS
  <2> HIDE DEF t
  <2> QED  BY <2>2, <2>3 DEF Holds
<1> HIDE DEF b, code, t
<1>5. \A y \in DOMAIN code :
        IsIns(code[y]) /\ (y \in DOMAIN f.code \/ \E m \in DOMAIN t : t[m] = y)
  BY <1>1, <1>4 DEF WellFormed
<1>6. \A j \in DOMAIN f.layout[b] : \E m \in DOMAIN t : t[m] = f.layout[b][j]
  BY <1>4
<1>c. Covers(f, b, t, code)
  BY <1>5, <1>6 DEF Covers
<1>7. /\ WellFormed(Edit(f, Put(f.layout, b, t), code), N)
      /\ DOMAIN Edit(f, Put(f.layout, b, t), code).layout = DOMAIN f.layout
      /\ Edit(f, Put(f.layout, b, t), code).code = code
  BY <1>3, <1>4, <1>c, BlockEditKeeps
<1> QED  BY <1>1, <1>2, <1>7

LEMMA EraseIs ==
  ASSUME NEW f, NEW N, WellFormed(f, N), NEW x \in DOMAIN f.code
  PROVE  /\ WellFormed(Erase(f, x), N)
         /\ DOMAIN Erase(f, x).layout = DOMAIN f.layout
         /\ DOMAIN Erase(f, x).code = DOMAIN f.code \ {x}
         /\ \A y \in DOMAIN f.code \ {x} : Erase(f, x).code[y] = f.code[y]
<1> DEFINE b == BlockOf(f, x)
           s == f.layout[b]
           k == IndexOf(f, x)
           t == RemoveAt(s, k)
           code == Restrict(f.code, DOMAIN f.code \ {x})
<1>1. /\ DOMAIN code = DOMAIN f.code \ {x}
      /\ \A y \in DOMAIN f.code \ {x} : code[y] = f.code[y]
  BY DEF Restrict
<1>2. Erase(f, x) = Edit(f, Put(f.layout, b, t), code)
  BY DEF Erase
<1>3. b \in DOMAIN f.layout /\ s \in Seq(N) /\ k \in 1 .. Len(s) /\ s[k] = x
  BY Located
<1>4. /\ t \in Seq(N)
      /\ \A j \in DOMAIN s : j # k => \E m \in DOMAIN t : t[m] = s[j]
  <2> HIDE DEF s, k
  <2> QED  BY <1>3, RemoveAtKeeps
<1> HIDE DEF b, code, t
<1>5. \A y \in DOMAIN code :
        IsIns(code[y]) /\ (y \in DOMAIN f.code \/ \E m \in DOMAIN t : t[m] = y)
  BY <1>1 DEF WellFormed
<1>6. \A j \in DOMAIN f.layout[b] : f.layout[b][j] \in DOMAIN code =>
        \E m \in DOMAIN t : t[m] = f.layout[b][j]
  BY <1>1, <1>3, <1>4
<1>c. Covers(f, b, t, code)
  BY <1>5, <1>6 DEF Covers
<1>7. /\ WellFormed(Edit(f, Put(f.layout, b, t), code), N)
      /\ DOMAIN Edit(f, Put(f.layout, b, t), code).layout = DOMAIN f.layout
      /\ Edit(f, Put(f.layout, b, t), code).code = code
  BY <1>3, <1>4, <1>c, BlockEditKeeps
<1> QED  BY <1>1, <1>2, <1>7

\* An edit of the code alone: no instruction comes or goes.
LEMMA CodeEditKeeps ==
  ASSUME NEW f, NEW N, WellFormed(f, N), NEW code, DOMAIN code = DOMAIN f.code,
         \A y \in DOMAIN code : IsIns(code[y])
  PROVE  /\ WellFormed(Edit(f, f.layout, code), N)
         /\ Edit(f, f.layout, code).layout = f.layout
         /\ Edit(f, f.layout, code).code = code
<1>1. \A b \in DOMAIN f.layout : f.layout[b] \in Seq(N)
  BY DEF WellFormed
<1>2. \A y \in DOMAIN code : IsIns(code[y]) /\ Placed(f.layout, y)
  BY DEF WellFormed
<1> QED  BY <1>1, <1>2, EditKeeps, EditIs

LEMMA ReplaceAllUsesIs ==
  ASSUME NEW f, NEW N, WellFormed(f, N), NEW old, NEW new
  PROVE  LET g == ReplaceAllUses(f, old, new) IN
         /\ WellFormed(g, N)
         /\ g.layout = f.layout
         /\ DOMAIN g.code = DOMAIN f.code
         /\ \A y \in DOMAIN f.code :
              /\ g.code[y].op = f.code[y].op
              /\ g.code[y].to = f.code[y].to
              /\ g.code[y].cases = f.code[y].cases
              /\ g.code[y].args = [k \in DOMAIN f.code[y].args |->
                    IF f.code[y].args[k] = old THEN new ELSE f.code[y].args[k]]
<1> DEFINE V(v) == IF v = old THEN new ELSE v
           B(b) == b
           code == [x \in DOMAIN f.code |-> Rename(f.code[x], V, B)]
<1>1. ReplaceAllUses(f, old, new) = Edit(f, f.layout, code)
  BY DEF ReplaceAllUses
<1>2. DOMAIN code = DOMAIN f.code
  OBVIOUS
<1>3. ASSUME NEW y \in DOMAIN f.code
      PROVE  /\ IsIns(code[y])
             /\ code[y].op = f.code[y].op
             /\ code[y].to = f.code[y].to
             /\ code[y].cases = f.code[y].cases
             /\ code[y].args = [k \in DOMAIN f.code[y].args |-> V(f.code[y].args[k])]
  <2>1. code[y] = Rename(f.code[y], V, B)
    OBVIOUS
  <2> QED  BY <2>1 DEF Rename, IsIns
<1> HIDE DEF code
<1>4. /\ WellFormed(Edit(f, f.layout, code), N)
      /\ Edit(f, f.layout, code).layout = f.layout
      /\ Edit(f, f.layout, code).code = code
  BY <1>2, <1>3, CodeEditKeeps
<1> QED  BY <1>1, <1>2, <1>3, <1>4

LEMMA AddIncomingIs ==
  ASSUME NEW f, NEW N, WellFormed(f, N), NEW phi \in DOMAIN f.code,
         NEW value, NEW block
  PROVE  LET g == AddIncoming(f, phi, value, block) IN
         /\ WellFormed(g, N)
         /\ g.layout = f.layout
         /\ DOMAIN g.code = DOMAIN f.code
         /\ g.code[phi].op = f.code[phi].op
         /\ \A y \in DOMAIN f.code \ {phi} : g.code[y] = f.code[y]
<1> DEFINE x == f.code[phi]
           v == x.in \cup {<<value, block>>}
           new == [x EXCEPT !.in = v]
           code == Put(f.code, phi, new)
<1>1. AddIncoming(f, phi, value, block) = Edit(f, f.layout, code)
  BY DEF AddIncoming
<1>2. IsIns(x)
  BY DEF WellFormed
<1>3. IsIns(new) /\ new.op = x.op
  <2>1. new = [op |-> x.op, ty |-> x.ty, args |-> x.args,
               to |-> x.to, in |-> v, cases |-> x.cases]
    <3> HIDE DEF x, v
    <3> QED  BY <1>2, ChangedIns
  <2> HIDE DEF new, x, v
  <2> QED  BY <1>2, <2>1 DEF IsIns
<1> HIDE DEF new
<1>4. /\ DOMAIN code = DOMAIN f.code
      /\ code[phi] = new
      /\ \A y \in DOMAIN f.code \ {phi} : code[y] = f.code[y]
  BY DEF Put
<1> HIDE DEF code
<1>5. \A y \in DOMAIN code : IsIns(code[y])
  BY <1>3, <1>4 DEF WellFormed
<1>6. /\ WellFormed(Edit(f, f.layout, code), N)
      /\ Edit(f, f.layout, code).layout = f.layout
      /\ Edit(f, f.layout, code).code = code
  BY <1>4, <1>5, CodeEditKeeps
<1> QED  BY <1>1, <1>3, <1>4, <1>6

LEMMA AddCaseIs ==
  ASSUME NEW f, NEW N, WellFormed(f, N), NEW switch \in DOMAIN f.code,
         NEW id, NEW block
  PROVE  LET g == AddCase(f, switch, id, block) IN
         /\ WellFormed(g, N)
         /\ g.layout = f.layout
         /\ DOMAIN g.code = DOMAIN f.code
         /\ g.code[switch].op = f.code[switch].op
         /\ g.code[switch].cases = Append(f.code[switch].cases, id)
         /\ \A y \in DOMAIN f.code \ {switch} : g.code[y] = f.code[y]
<1> DEFINE x == f.code[switch]
           c == Append(x.cases, id)
           t == Append(x.to, block)
           new == [x EXCEPT !.cases = c, !.to = t]
           code == Put(f.code, switch, new)
<1>1. AddCase(f, switch, id, block) = Edit(f, f.layout, code)
  BY DEF AddCase
<1>2. IsIns(x)
  BY DEF WellFormed
<1>3. IsIns(new) /\ new.op = x.op /\ new.cases = c
  <2> HIDE DEF x, c, t
  <2>1. new = [op |-> x.op, ty |-> x.ty, args |-> x.args,
               to |-> t, in |-> x.in, cases |-> c]
    <3> DEFINE y == [x EXCEPT !.cases = c]
    <3>1. new = [y EXCEPT !.to = t]
      OBVIOUS
    <3>2. y = [op |-> x.op, ty |-> x.ty, args |-> x.args,
               to |-> x.to, in |-> x.in, cases |-> c]
      BY <1>2, ChangedIns
    <3> HIDE DEF y
    <3>3. IsIns(y)
      BY <1>2, <3>2 DEF IsIns
    <3>4. [y EXCEPT !.to = t] = [op |-> y.op, ty |-> y.ty, args |-> y.args,
                                  to |-> t, in |-> y.in, cases |-> y.cases]
      BY <3>3, ChangedIns
    <3> HIDE DEF new
    <3> QED  BY <3>1, <3>2, <3>4
  <2> HIDE DEF new
  <2> QED  BY <1>2, <2>1 DEF IsIns
<1> HIDE DEF new
<1>4. /\ DOMAIN code = DOMAIN f.code
      /\ code[switch] = new
      /\ \A y \in DOMAIN f.code \ {switch} : code[y] = f.code[y]
  BY DEF Put
<1> HIDE DEF code
<1>5. \A y \in DOMAIN code : IsIns(code[y])
  BY <1>3, <1>4 DEF WellFormed
<1>6. /\ WellFormed(Edit(f, f.layout, code), N)
      /\ Edit(f, f.layout, code).layout = f.layout
      /\ Edit(f, f.layout, code).code = code
  BY <1>4, <1>5, CodeEditKeeps
<1> QED  BY <1>1, <1>3, <1>4, <1>6

\* The jump br goes to the end of the block that is split.
LEMMA SplitBlockIs ==
  ASSUME NEW f, NEW N, WellFormed(f, N), NEW i \in DOMAIN f.code,
         NEW new, new \notin DOMAIN f.layout, NEW br \in N
  PROVE  LET g == SplitBlock(f, i, new, br) IN
         /\ WellFormed(g, N)
         /\ DOMAIN g.layout = DOMAIN f.layout \cup {new}
         /\ Last(g.layout[BlockOf(f, i)]) = br
         /\ DOMAIN g.code = DOMAIN f.code \cup {br}
         /\ \A y \in DOMAIN f.code \ {br} :
              /\ g.code[y].op = f.code[y].op
              /\ g.code[y].to = f.code[y].to
              /\ g.code[y].cases = f.code[y].cases
              /\ g.code[y].args = f.code[y].args
<1> DEFINE b == BlockOf(f, i)
           k == IndexOf(f, i)
           s == f.layout[b]
           V(v) == v
           B(p) == IF p = b THEN new ELSE p
           tail == SubSeq(s, k, Len(s))
           head == Append(SubSeq(s, 1, k - 1), br)
           layout == Put(Put(f.layout, new, tail), b, head)
           renamed == [x \in DOMAIN f.code |-> Rename(f.code[x], V, B)]
           code == Put(renamed, br, Jump(new))
<1>1. SplitBlock(f, i, new, br) = Edit(f, layout, code)
  BY DEF SplitBlock
<1>2. b \in DOMAIN f.layout /\ s \in Seq(N) /\ k \in 1 .. Len(s)
  BY Located
<1>3. /\ tail \in Seq(N) /\ Len(tail) = Len(s) - k + 1
      /\ \A j \in 1 .. Len(s) - k + 1 : tail[j] = s[k + j - 1]
  <2> HIDE DEF s, k
  <2> QED  BY <1>2
<1>4. /\ head \in Seq(N) /\ Len(head) = k /\ head[k] = br /\ Last(head) = br
      /\ \A j \in 1 .. k - 1 : head[j] = s[j]
  <2> DEFINE a == SubSeq(s, 1, k - 1)
  <2> HIDE DEF s, k
  <2>1. /\ a \in Seq(N) /\ Len(a) = k - 1
        /\ \A j \in 1 .. k - 1 : a[j] = s[j]
    BY <1>2
  <2>2. head = Append(a, br)
    OBVIOUS
  <2> HIDE DEF a, head
  <2>3. /\ head \in Seq(N) /\ Len(head) = k /\ head[k] = br
        /\ \A j \in 1 .. k - 1 : head[j] = a[j]
    BY <1>2, <2>1, <2>2
  <2> QED  BY <2>1, <2>3 DEF Last
<1> HIDE DEF tail, head
<1>5. ASSUME NEW j \in DOMAIN s PROVE Holds(tail, s[j]) \/ Holds(head, s[j])
  <2> HIDE DEF s, k
  <2>1. CASE j < k
    BY <1>2, <1>4, <2>1 DEF Holds
  <2>2. CASE ~ j < k
    <3>1. j - k + 1 \in 1 .. Len(s) - k + 1 /\ k + (j - k + 1) - 1 = j
      BY <1>2, <2>2
    <3>2. tail[j - k + 1] = s[j] /\ j - k + 1 \in DOMAIN tail
      BY <1>3, <3>1
    <3> QED  BY <3>2 DEF Holds
  <2> QED  BY <2>1, <2>2
<1>6. /\ DOMAIN layout = DOMAIN f.layout \cup {new}
      /\ layout[b] = head /\ layout[new] = tail
      /\ \A c \in DOMAIN f.layout : c # b => layout[c] = f.layout[c]
  <2> HIDE DEF b
  <2> QED  BY <1>2 DEF Put
<1> HIDE DEF layout
<1>7. ASSUME NEW c \in DOMAIN layout PROVE layout[c] \in Seq(N)
  <2>1. CASE c = b
    BY <1>4, <1>6, <2>1
  <2>2. CASE c = new
    BY <1>3, <1>6, <2>2
  <2>3. CASE c # b /\ c # new
    BY <1>6, <2>3 DEF WellFormed
  <2> QED  BY <2>1, <2>2, <2>3
<1>8. ASSUME NEW y \in DOMAIN f.code
      PROVE  /\ IsIns(renamed[y])
             /\ renamed[y].op = f.code[y].op
             /\ renamed[y].to = f.code[y].to
             /\ renamed[y].cases = f.code[y].cases
             /\ renamed[y].args = f.code[y].args
  <2>1. renamed[y] = Rename(f.code[y], V, B)
    OBVIOUS
  <2>2. IsIns(f.code[y])
    BY DEF WellFormed
  <2> HIDE DEF renamed
  <2> QED  BY <2>1, <2>2 DEF Rename, IsIns
<1>9. /\ DOMAIN code = DOMAIN f.code \cup {br}
      /\ code[br] = Jump(new)
      /\ \A y \in DOMAIN f.code \ {br} : code[y] = renamed[y]
  BY DEF Put
<1> HIDE DEF code, renamed
<1>10. ASSUME NEW y \in DOMAIN code PROVE IsIns(code[y]) /\ Placed(layout, y)
  <2>1. CASE y = br
    <3>1. b \in DOMAIN layout /\ k \in DOMAIN layout[b] /\ layout[b][k] = br
      BY <1>2, <1>4, <1>6
    <3> QED  BY <2>1, <3>1, <1>9, JumpIs DEF Placed
  <2>2. CASE y # br
    <3>1. y \in DOMAIN f.code /\ IsIns(code[y])
      BY <2>2, <1>8, <1>9
    <3>2. PICK c \in DOMAIN f.layout : \E j \in DOMAIN f.layout[c] : f.layout[c][j] = y
      BY <3>1 DEF WellFormed, Placed
    <3>3. CASE c = b
      <4>1. Holds(tail, y) \/ Holds(head, y)
        BY <3>2, <3>3, <1>5
      <4>2. Holds(layout[new], y) \/ Holds(layout[b], y)
        BY <4>1, <1>6
      <4> QED  BY <3>1, <4>2, <1>2, <1>6 DEF Placed, Holds
    <3>4. CASE c # b
      BY <3>1, <3>2, <3>4, <1>6 DEF Placed
    <3> QED  BY <3>3, <3>4
  <2> QED  BY <2>1, <2>2
<1>11. WellFormed(Edit(f, layout, code), N)
  BY <1>7, <1>10, EditKeeps
<1>12. /\ Edit(f, layout, code).layout = layout
       /\ Edit(f, layout, code).code = code
  BY EditIs
<1> QED  BY <1>1, <1>4, <1>6, <1>8, <1>9, <1>11, <1>12

-------------------------------------------------------------------------------
(* The edits, place by place: where an edit puts and finds an instruction, *)
(* and that a function in which each has one place stays one.              *)

\* Instruction x is at place k of block b and nowhere else.
OnlyAt(f, x, b, k) ==
  /\ b \in DOMAIN f.layout /\ k \in DOMAIN f.layout[b] /\ f.layout[b][k] = x
  /\ \A c \in DOMAIN f.layout : \A l \in DOMAIN f.layout[c] :
       f.layout[c][l] = x => c = b /\ l = k

LEMMA PlaceIs ==
  ASSUME NEW f, OnePlace(f), NEW b \in DOMAIN f.layout, NEW k \in DOMAIN f.layout[b]
  PROVE  OnlyAt(f, f.layout[b][k], b, k)
BY DEF OnlyAt, OnePlace

LEMMA OnlyAtIs ==
  ASSUME NEW f, NEW N, WellFormed(f, N), NEW x, NEW b, NEW k, OnlyAt(f, x, b, k)
  PROVE  /\ BlockOf(f, x) = b /\ IndexOf(f, x) = k
         /\ f.layout[b] \in Seq(N) /\ k \in 1 .. Len(f.layout[b]) /\ f.layout[b][k] = x
<1>1. \A c \in DOMAIN f.layout : f.layout[c] \in Seq(N)
  BY DEF WellFormed
<1>2. \A c \in DOMAIN f.layout : Contains(f.layout[c], x) <=> c = b
  BY <1>1 DEF OnlyAt, Contains
<1>3. BlockOf(f, x) = b
  BY <1>2 DEF BlockOf, OnlyAt
<1>4. \A l \in DOMAIN f.layout[b] : f.layout[b][l] = x <=> l = k
  BY DEF OnlyAt
<1>5. IndexOf(f, x) = k
  BY <1>3, <1>4 DEF IndexOf, OnlyAt
<1> QED  BY <1>1, <1>3, <1>5 DEF OnlyAt

\* Where what is in t comes from.
LEMMA InsertedHolds ==
  ASSUME NEW N, NEW s \in Seq(N), NEW t \in Seq(N), NEW k \in 1 .. Len(s), NEW e,
         Inserted(s, k, e, t), NEW j \in DOMAIN t
  PROVE  \/ j < k /\ j \in DOMAIN s /\ t[j] = s[j]
         \/ j = k /\ t[j] = e
         \/ k < j /\ j - 1 \in DOMAIN s /\ t[j] = s[j - 1]
<1>1. CASE j < k
  BY <1>1 DEF Inserted
<1>2. CASE j = k
  BY <1>2 DEF Inserted
<1>3. CASE k < j
  <2>1. j - 1 \in k .. Len(s) /\ (j - 1) + 1 = j
    BY <1>3 DEF Inserted
  <2>2. t[(j - 1) + 1] = s[j - 1]
    BY <2>1 DEF Inserted
  <2> QED  BY <1>3, <2>1, <2>2
<1> QED  BY <1>1, <1>2, <1>3

LEMMA RemovedHolds ==
  ASSUME NEW N, NEW s \in Seq(N), NEW t \in Seq(N), NEW k \in 1 .. Len(s),
         Removed(s, k, t), NEW j \in DOMAIN t
  PROVE  \/ j < k /\ j \in DOMAIN s /\ t[j] = s[j]
         \/ k <= j /\ j + 1 \in DOMAIN s /\ t[j] = s[j + 1]
<1>1. CASE j < k
  BY <1>1 DEF Removed
<1>2. CASE ~ j < k
  <2>1. j + 1 \in k + 1 .. Len(s) /\ (j + 1) - 1 = j
    BY <1>2 DEF Removed
  <2>2. t[(j + 1) - 1] = s[j + 1]
    BY <2>1 DEF Removed
  <2> QED  BY <1>2, <2>1, <2>2
<1> QED  BY <1>1, <1>2

\* With t for block b each instruction still has one place, if t has none twice
\* and takes none from another block.
LEMMA OnePlaceKept ==
  ASSUME NEW f, OnePlace(f), NEW b \in DOMAIN f.layout, NEW t, NEW code,
         \A k \in DOMAIN t : /\ t[k] \in DOMAIN code
                             /\ t[k] \in DOMAIN f.code => Holds(f.layout[b], t[k]),
         \A k, l \in DOMAIN t : t[k] = t[l] => k = l,
         \A c \in DOMAIN f.layout : c # b =>
           \A k \in DOMAIN f.layout[c] : f.layout[c][k] \in DOMAIN code
  PROVE  OnePlace(Edit(f, Put(f.layout, b, t), code))
<1> DEFINE layout == Put(f.layout, b, t)
           g == Edit(f, layout, code)
<1>1. /\ DOMAIN layout = DOMAIN f.layout
      /\ layout[b] = t
      /\ \A c \in DOMAIN f.layout : c # b => layout[c] = f.layout[c]
  BY DEF Put
<1>2. g.layout = layout /\ g.code = code
  BY EditIs
<1> HIDE DEF layout, g
<1>3. \A c \in DOMAIN layout : \A k \in DOMAIN layout[c] : layout[c][k] \in DOMAIN code
  BY <1>1
<1>4. ASSUME NEW c \in DOMAIN layout, NEW d \in DOMAIN layout,
             NEW k \in DOMAIN layout[c], NEW l \in DOMAIN layout[d],
             layout[c][k] = layout[d][l]
      PROVE  c = d /\ k = l
  <2>1. CASE c = b /\ d = b
    BY <1>1, <1>4, <2>1
  <2>2. CASE c # b /\ d # b
    BY <1>1, <1>4, <2>2 DEF OnePlace
  <2>3. ASSUME NEW m \in DOMAIN t, NEW e \in DOMAIN f.layout, e # b,
               NEW n \in DOMAIN f.layout[e]
        PROVE  t[m] # f.layout[e][n]
    BY <2>3 DEF OnePlace, Holds
  <2>4. CASE c = b /\ d # b
    BY <1>1, <1>4, <2>3, <2>4
  <2>5. CASE c # b /\ d = b
    BY <1>1, <1>4, <2>3, <2>5
  <2> QED  BY <2>1, <2>2, <2>4, <2>5
<1>5. OnePlace(g)
  BY <1>2, <1>3, <1>4 DEF OnePlace
<1> QED  BY <1>5 DEF g, layout

LEMMA AddBlockAt ==
  ASSUME NEW f, OnePlace(f), NEW b, b \notin DOMAIN f.layout
  PROVE  LET g == AddBlock(f, b) IN
         /\ g.entry = f.entry
         /\ DOMAIN g.layout = DOMAIN f.layout \cup {b}
         /\ g.layout[b] = <<>>
         /\ \A c \in DOMAIN f.layout : g.layout[c] = f.layout[c]
         /\ g.code = f.code
         /\ OnePlace(g)
<1> DEFINE layout == Put(f.layout, b, <<>>)
           g == AddBlock(f, b)
<1>1. /\ DOMAIN layout = DOMAIN f.layout \cup {b}
      /\ layout[b] = <<>>
      /\ \A c \in DOMAIN f.layout : layout[c] = f.layout[c]
  BY DEF Put
<1>2. g.entry = f.entry /\ g.layout = layout /\ g.code = f.code
  BY EditIs DEF AddBlock
<1> HIDE DEF layout, g
<1>3. DOMAIN <<>> = {}
  OBVIOUS
<1>4. OnePlace(g)
  BY <1>1, <1>2, <1>3 DEF OnePlace
<1> QED  BY <1>1, <1>2, <1>4 DEF g

LEMMA PushBackAt ==
  ASSUME NEW f, NEW N, WellFormed(f, N), OnePlace(f), NEW b \in DOMAIN f.layout,
         NEW x \in N, x \notin DOMAIN f.code, NEW ins
  PROVE  LET g == PushBack(f, b, x, ins) IN
         /\ g.entry = f.entry
         /\ DOMAIN g.layout = DOMAIN f.layout
         /\ g.layout[b] = Append(f.layout[b], x)
         /\ \A c \in DOMAIN f.layout : c # b => g.layout[c] = f.layout[c]
         /\ g.code = Put(f.code, x, ins)
         /\ OnePlace(g)
<1> DEFINE s == f.layout[b]
           t == Append(s, x)
           code == Put(f.code, x, ins)
           g == Edit(f, Put(f.layout, b, t), code)
<1>1. DOMAIN code = DOMAIN f.code \cup {x}
  BY DEF Put
<1>2. s \in Seq(N)
  BY DEF WellFormed
<1>3. /\ DOMAIN t = DOMAIN s \cup {Len(s) + 1} /\ Len(s) + 1 \notin DOMAIN s
      /\ t[Len(s) + 1] = x
      /\ \A k \in DOMAIN s : t[k] = s[k]
  <2> HIDE DEF s
  <2> QED  BY <1>2
<1>4. \A k \in DOMAIN s : s[k] \in DOMAIN f.code /\ s[k] # x
  BY DEF OnePlace
<1>5. \A k, l \in DOMAIN s : s[k] = s[l] => k = l
  BY DEF OnePlace
<1>6. /\ DOMAIN Put(f.layout, b, t) = DOMAIN f.layout
      /\ Put(f.layout, b, t)[b] = t
      /\ \A c \in DOMAIN f.layout : c # b => Put(f.layout, b, t)[c] = f.layout[c]
  BY DEF Put
<1>7. g.entry = f.entry /\ g.layout = Put(f.layout, b, t) /\ g.code = code
  BY EditIs
<1> HIDE DEF code, t
<1>8. \A k \in DOMAIN t : /\ t[k] \in DOMAIN code
                          /\ t[k] \in DOMAIN f.code => Holds(s, t[k])
  BY <1>1, <1>3, <1>4 DEF Holds
<1>9. \A k, l \in DOMAIN t : t[k] = t[l] => k = l
  BY <1>3, <1>4, <1>5
<1>10. \A c \in DOMAIN f.layout : c # b =>
         \A k \in DOMAIN f.layout[c] : f.layout[c][k] \in DOMAIN code
  BY <1>1 DEF OnePlace
<1>11. OnePlace(g)
  BY <1>8, <1>9, <1>10, OnePlaceKept
<1>12. PushBack(f, b, x, ins) = g
  BY DEF PushBack, code, t
<1> HIDE DEF g
<1> QED  BY <1>6, <1>7, <1>11, <1>12 DEF t, code

LEMMA InsertBeforeAt ==
  ASSUME NEW f, NEW N, WellFormed(f, N), OnePlace(f),
         NEW i, NEW b, NEW k, OnlyAt(f, i, b, k),
         NEW x \in N, x \notin DOMAIN f.code, NEW ins
  PROVE  LET g == InsertBefore(f, i, x, ins) IN
         /\ g.entry = f.entry
         /\ DOMAIN g.layout = DOMAIN f.layout
         /\ g.layout[b] \in Seq(N) /\ Inserted(f.layout[b], k, x, g.layout[b])
         /\ \A c \in DOMAIN f.layout : c # b => g.layout[c] = f.layout[c]
         /\ g.code = Put(f.code, x, ins)
         /\ OnePlace(g)
<1> DEFINE s == f.layout[b]
           t == InsertAt(s, k, x)
           code == Put(f.code, x, ins)
           g == Edit(f, Put(f.layout, b, t), code)
<1>1. DOMAIN code = DOMAIN f.code \cup {x}
  BY DEF Put
<1>2. /\ BlockOf(f, i) = b /\ IndexOf(f, i) = k /\ b \in DOMAIN f.layout
      /\ s \in Seq(N) /\ k \in 1 .. Len(s)
  BY OnlyAtIs DEF OnlyAt
<1>3. t \in Seq(N) /\ Inserted(s, k, x, t)
  <2> HIDE DEF s
  <2> QED  BY <1>2, InsertAtIs
<1>4. \A j \in DOMAIN s : s[j] \in DOMAIN f.code /\ s[j] # x
  BY <1>2 DEF OnePlace
<1>5. \A j, l \in DOMAIN s : s[j] = s[l] => j = l
  BY <1>2 DEF OnePlace
<1>6. /\ DOMAIN Put(f.layout, b, t) = DOMAIN f.layout
      /\ Put(f.layout, b, t)[b] = t
      /\ \A c \in DOMAIN f.layout : c # b => Put(f.layout, b, t)[c] = f.layout[c]
  BY <1>2 DEF Put
<1>7. g.entry = f.entry /\ g.layout = Put(f.layout, b, t) /\ g.code = code
  BY EditIs
<1>12. InsertBefore(f, i, x, ins) = g
  BY <1>2 DEF InsertBefore
<1> HIDE DEF code, t, g
<1>13. ASSUME NEW j \in DOMAIN t
       PROVE  \/ j < k /\ j \in DOMAIN s /\ t[j] = s[j]
              \/ j = k /\ t[j] = x
              \/ k < j /\ j - 1 \in DOMAIN s /\ t[j] = s[j - 1]
  <2> HIDE DEF s
  <2> QED  BY <1>2, <1>3, InsertedHolds
<1>8. \A j \in DOMAIN t : /\ t[j] \in DOMAIN code
                          /\ t[j] \in DOMAIN f.code => Holds(s, t[j])
  BY <1>1, <1>4, <1>13 DEF Holds
<1>9. ASSUME NEW j \in DOMAIN t, NEW l \in DOMAIN t, t[j] = t[l] PROVE j = l
  <2>1. j \in Nat /\ l \in Nat /\ k \in Nat
    BY <1>2, <1>3
  <2>2. CASE j = k \/ l = k
    BY <1>4, <1>9, <1>13, <2>1, <2>2
  <2>3. CASE j # k /\ l # k
    <3>1. \E m, n \in DOMAIN s :
            /\ s[m] = t[j] /\ s[n] = t[l]
            /\ m = IF j < k THEN j ELSE j - 1
            /\ n = IF l < k THEN l ELSE l - 1
      BY <1>13, <2>1, <2>3
    <3>2. (IF j < k THEN j ELSE j - 1) = (IF l < k THEN l ELSE l - 1)
      BY <1>5, <1>9, <3>1
    <3> QED  BY <1>13, <2>1, <2>3, <3>2
  <2> QED  BY <2>2, <2>3
<1>10. \A c \in DOMAIN f.layout : c # b =>
         \A j \in DOMAIN f.layout[c] : f.layout[c][j] \in DOMAIN code
  BY <1>1 DEF OnePlace
<1>11. OnePlace(g)
  BY <1>2, <1>8, <1>9, <1>10, OnePlaceKept DEF g
<1> QED  BY <1>3, <1>6, <1>7, <1>11, <1>12 DEF code

LEMMA EraseAt ==
  ASSUME NEW f, NEW N, WellFormed(f, N), OnePlace(f),
         NEW x \in DOMAIN f.code, NEW b, NEW k, OnlyAt(f, x, b, k)
  PROVE  LET g == Erase(f, x) IN
         /\ g.entry = f.entry
         /\ DOMAIN g.layout = DOMAIN f.layout
         /\ g.layout[b] \in Seq(N) /\ Removed(f.layout[b], k, g.layout[b])
         /\ \A c \in DOMAIN f.layout : c # b => g.layout[c] = f.layout[c]
         /\ DOMAIN g.code = DOMAIN f.code \ {x}
         /\ \A y \in DOMAIN f.code \ {x} : g.code[y] = f.code[y]
         /\ OnePlace(g)
<1> DEFINE s == f.layout[b]
           t == RemoveAt(s, k)
           code == Restrict(f.code, DOMAIN f.code \ {x})
           g == Edit(f, Put(f.layout, b, t), code)
<1>1. /\ DOMAIN code = DOMAIN f.code \ {x}
      /\ \A y \in DOMAIN f.code \ {x} : code[y] = f.code[y]
  BY DEF Restrict
<1>2. /\ BlockOf(f, x) = b /\ IndexOf(f, x) = k /\ b \in DOMAIN f.layout
      /\ s \in Seq(N) /\ k \in 1 .. Len(s) /\ s[k] = x
  BY OnlyAtIs DEF OnlyAt
<1>3. t \in Seq(N) /\ Removed(s, k, t)
  <2> HIDE DEF s
  <2> QED  BY <1>2, RemoveAtIs
<1>4. \A j \in DOMAIN s : s[j] \in DOMAIN f.code /\ (j # k => s[j] # x)
  BY <1>2 DEF OnePlace
<1>5. \A j, l \in DOMAIN s : s[j] = s[l] => j = l
  BY <1>2 DEF OnePlace
<1>6. /\ DOMAIN Put(f.layout, b, t) = DOMAIN f.layout
      /\ Put(f.layout, b, t)[b] = t
      /\ \A c \in DOMAIN f.layout : c # b => Put(f.layout, b, t)[c] = f.layout[c]
  BY <1>2 DEF Put
<1>7. g.entry = f.entry /\ g.layout = Put(f.layout, b, t) /\ g.code = code
  BY EditIs
<1>12. Erase(f, x) = g
  BY <1>2 DEF Erase
<1> HIDE DEF code, t, g
<1>13. ASSUME NEW j \in DOMAIN t
       PROVE  \/ j < k /\ j \in DOMAIN s /\ t[j] = s[j]
              \/ k <= j /\ j + 1 \in DOMAIN s /\ t[j] = s[j + 1]
  <2> HIDE DEF s
  <2> QED  BY <1>2, <1>3, RemovedHolds
<1>8. ASSUME NEW j \in DOMAIN t
      PROVE  t[j] \in DOMAIN code /\ Holds(s, t[j])
  <2>1. j \in Nat /\ k \in Nat
    BY <1>2, <1>3
  <2>2. \E m \in DOMAIN s : m # k /\ t[j] = s[m]
    BY <1>13, <2>1
  <2> QED  BY <1>1, <1>4, <2>2 DEF Holds
<1>9. ASSUME NEW j \in DOMAIN t, NEW l \in DOMAIN t, t[j] = t[l] PROVE j = l
  <2>1. j \in Nat /\ l \in Nat /\ k \in Nat
    BY <1>2, <1>3
  <2>2. \E m, n \in DOMAIN s :
          /\ s[m] = t[j] /\ s[n] = t[l]
          /\ m = IF j < k THEN j ELSE j + 1
          /\ n = IF l < k THEN l ELSE l + 1
    BY <1>13, <2>1
  <2>3. (IF j < k THEN j ELSE j + 1) = (IF l < k THEN l ELSE l + 1)
    BY <1>5, <1>9, <2>2
  <2> QED  BY <2>1, <2>3
<1>10. \A c \in DOMAIN f.layout : c # b =>
         \A j \in DOMAIN f.layout[c] : f.layout[c][j] \in DOMAIN code
  BY <1>1, <1>2 DEF OnePlace
<1>11. OnePlace(g)
  BY <1>2, <1>8, <1>9, <1>10, OnePlaceKept DEF g
<1> QED  BY <1>1, <1>3, <1>6, <1>7, <1>11, <1>12

\* The first k - 1 places of b and the jump stay, the others are the new block.
LEMMA SplitBlockAt ==
  ASSUME NEW f, NEW N, WellFormed(f, N), OnePlace(f),
         NEW i, NEW b, NEW k, OnlyAt(f, i, b, k),
         NEW new, new \notin DOMAIN f.layout,
         NEW br \in N, br \notin DOMAIN f.code
  PROVE  LET g == SplitBlock(f, i, new, br)
             s == f.layout[b]
         IN
         /\ g.entry = f.entry
         /\ DOMAIN g.layout = DOMAIN f.layout \cup {new}
         /\ g.layout[b] \in Seq(N) /\ Len(g.layout[b]) = k /\ g.layout[b][k] = br
         /\ \A j \in 1 .. k - 1 : g.layout[b][j] = s[j]
         /\ g.layout[new] \in Seq(N) /\ Len(g.layout[new]) = Len(s) - k + 1
         /\ \A j \in 1 .. Len(s) - k + 1 : g.layout[new][j] = s[k + j - 1]
         /\ \A c \in DOMAIN f.layout : c # b => g.layout[c] = f.layout[c]
         /\ DOMAIN g.code = DOMAIN f.code \cup {br}
         /\ g.code[br] = Jump(new)
         /\ \A y \in DOMAIN f.code :
              /\ g.code[y].op = f.code[y].op
              /\ g.code[y].to = f.code[y].to
              /\ g.code[y].cases = f.code[y].cases
              /\ g.code[y].args = f.code[y].args
              /\ g.code[y].in =
                   {<<e[1], IF e[2] = b THEN new ELSE e[2]>> : e \in f.code[y].in}
         /\ OnePlace(g)
<1> DEFINE s == f.layout[b]
           V(v) == v
           B(p) == IF p = b THEN new ELSE p
           tail == SubSeq(s, k, Len(s))
           head == Append(SubSeq(s, 1, k - 1), br)
           layout == Put(Put(f.layout, new, tail), b, head)
           renamed == [x \in DOMAIN f.code |-> Rename(f.code[x], V, B)]
           code == Put(renamed, br, Jump(new))
           g == SplitBlock(f, i, new, br)
<1>1. /\ BlockOf(f, i) = b /\ IndexOf(f, i) = k /\ b \in DOMAIN f.layout
      /\ s \in Seq(N) /\ k \in 1 .. Len(s) /\ b # new
  BY OnlyAtIs DEF OnlyAt
<1>2. g = Edit(f, layout, code)
  BY <1>1 DEF SplitBlock
<1>3. /\ tail \in Seq(N) /\ Len(tail) = Len(s) - k + 1
      /\ \A j \in 1 .. Len(s) - k + 1 : tail[j] = s[k + j - 1]
  <2> HIDE DEF s
  <2> QED  BY <1>1
<1>4. /\ head \in Seq(N) /\ Len(head) = k /\ head[k] = br
      /\ \A j \in 1 .. k - 1 : head[j] = s[j]
  <2> DEFINE a == SubSeq(s, 1, k - 1)
  <2> HIDE DEF s
  <2>1. /\ a \in Seq(N) /\ Len(a) = k - 1
        /\ \A j \in 1 .. k - 1 : a[j] = s[j]
    BY <1>1
  <2>2. head = Append(a, br)
    OBVIOUS
  <2> HIDE DEF a, head
  <2>3. /\ head \in Seq(N) /\ Len(head) = k /\ head[k] = br
        /\ \A j \in 1 .. k - 1 : head[j] = a[j]
    BY <1>1, <2>1, <2>2
  <2> QED  BY <2>1, <2>3
<1>5. /\ DOMAIN layout = DOMAIN f.layout \cup {new}
      /\ layout[b] = head /\ layout[new] = tail
      /\ \A c \in DOMAIN f.layout : c # b => layout[c] = f.layout[c]
  <2> HIDE DEF head, tail
  <2> QED  BY <1>1 DEF Put
<1>6. ASSUME NEW y \in DOMAIN f.code
      PROVE  /\ renamed[y].op = f.code[y].op
             /\ renamed[y].to = f.code[y].to
             /\ renamed[y].cases = f.code[y].cases
             /\ renamed[y].args = f.code[y].args
             /\ renamed[y].in = {<<e[1], B(e[2])>> : e \in f.code[y].in}
  <2>1. renamed[y] = Rename(f.code[y], V, B)
    OBVIOUS
  <2>2. IsIns(f.code[y])
    BY DEF WellFormed
  <2> HIDE DEF renamed
  <2> QED  BY <2>1, <2>2 DEF Rename, IsIns
<1>7. /\ DOMAIN code = DOMAIN f.code \cup {br}
      /\ code[br] = Jump(new)
      /\ \A y \in DOMAIN f.code : code[y] = renamed[y]
  <2>1. DOMAIN renamed = DOMAIN f.code
    OBVIOUS
  <2> HIDE DEF renamed
  <2> QED  BY <2>1 DEF Put
<1>8. g.entry = f.entry /\ g.layout = layout /\ g.code = code
  BY <1>2, EditIs
<1>9. OnePlace(g)
  <2>1. \A j \in DOMAIN s : s[j] \in DOMAIN f.code /\ s[j] # br
    BY <1>1 DEF OnePlace
  <2>2. \A j, l \in DOMAIN s : s[j] = s[l] => j = l
    BY <1>1 DEF OnePlace
  <2>3. \A c \in DOMAIN f.layout : c # b => \A j \in DOMAIN f.layout[c] :
          /\ f.layout[c][j] \in DOMAIN f.code /\ f.layout[c][j] # br
          /\ \A l \in DOMAIN s : f.layout[c][j] # s[l]
    BY <1>1 DEF OnePlace
  <2>4. \A c, d \in DOMAIN f.layout : \A j \in DOMAIN f.layout[c], l \in DOMAIN f.layout[d] :
          f.layout[c][j] = f.layout[d][l] => c = d /\ j = l
    BY DEF OnePlace
  <2> HIDE DEF head, tail, layout, code, g, renamed
  <2>5. ASSUME NEW j \in DOMAIN head
        PROVE  \/ j = k /\ head[j] = br
               \/ j < k /\ j \in DOMAIN s /\ head[j] = s[j]
    <3> HIDE DEF s
    <3> QED  BY <1>1, <1>4
  <2>6. ASSUME NEW j \in DOMAIN tail
        PROVE  k + j - 1 \in DOMAIN s /\ tail[j] = s[k + j - 1]
    <3> HIDE DEF s
    <3>1. j \in 1 .. Len(s) - k + 1
      BY <1>1, <1>3
    <3>2. k + j - 1 \in 1 .. Len(s)
      BY <1>1, <3>1
    <3>3. tail[j] = s[k + j - 1]
      BY <1>3, <3>1
    <3> QED  BY <1>1, <3>2, <3>3
  <2>7. /\ \A j \in DOMAIN head : j \in Nat
        /\ \A j \in DOMAIN tail : j \in Nat \ {0}
        /\ k \in Nat
    BY <1>1, <1>3, <1>4
  <2> HIDE DEF s
  <2>8. \A j, l \in DOMAIN head : head[j] = head[l] => j = l
    BY <2>1, <2>2, <2>5
  <2>9. ASSUME NEW j \in DOMAIN tail, NEW l \in DOMAIN tail, tail[j] = tail[l] PROVE j = l
    <3>1. k + j - 1 = k + l - 1
      BY <2>2, <2>6, <2>9
    <3> QED  BY <2>7, <3>1
  <2>10. ASSUME NEW j \in DOMAIN head, NEW l \in DOMAIN tail PROVE head[j] # tail[l]
    <3>1. k + l - 1 \in DOMAIN s /\ tail[l] = s[k + l - 1]
      BY <2>6
    <3>2. CASE j = k /\ head[j] = br
      BY <2>1, <3>1, <3>2
    <3>3. CASE j < k /\ j \in DOMAIN s /\ head[j] = s[j]
      <4>1. j # k + l - 1
        BY <2>7, <3>3
      <4> QED  BY <2>2, <3>1, <3>3, <4>1
    <3> QED  BY <2>5, <3>2, <3>3
  <2>11. /\ \A j \in DOMAIN head : head[j] \in DOMAIN code
         /\ \A j \in DOMAIN tail : tail[j] \in DOMAIN code
         /\ \A c \in DOMAIN f.layout : c # b => \A j \in DOMAIN f.layout[c] :
              /\ f.layout[c][j] \in DOMAIN code
              /\ \A l \in DOMAIN head : f.layout[c][j] # head[l]
              /\ \A l \in DOMAIN tail : f.layout[c][j] # tail[l]
    BY <1>7, <2>1, <2>3, <2>5, <2>6
  <2>12. \A c \in DOMAIN layout : \A j \in DOMAIN layout[c] : layout[c][j] \in DOMAIN code
    BY <1>5, <2>11
  <2>13. ASSUME NEW c \in DOMAIN layout, NEW d \in DOMAIN layout,
                NEW j \in DOMAIN layout[c], NEW l \in DOMAIN layout[d],
                layout[c][j] = layout[d][l]
         PROVE  c = d /\ j = l
    <3>1. CASE c \notin {b, new} /\ d \notin {b, new}
      BY <1>5, <2>4, <2>13, <3>1
    <3>2. CASE c \notin {b, new} /\ d \in {b, new}
      BY <1>5, <2>11, <2>13, <3>2
    <3>3. CASE c \in {b, new} /\ d \notin {b, new}
      BY <1>5, <2>11, <2>13, <3>3
    <3>4. CASE c \in {b, new} /\ d \in {b, new}
      BY <1>5, <2>8, <2>9, <2>10, <2>13, <3>4
    <3> QED  BY <3>1, <3>2, <3>3, <3>4
  <2> QED  BY <1>8, <2>12, <2>13 DEF OnePlace
<1> HIDE DEF g, head, tail, layout, code, renamed
<1>10. /\ g.entry = f.entry
       /\ DOMAIN g.layout = DOMAIN f.layout \cup {new}
       /\ g.layout[b] \in Seq(N) /\ Len(g.layout[b]) = k /\ g.layout[b][k] = br
       /\ \A j \in 1 .. k - 1 : g.layout[b][j] = s[j]
       /\ g.layout[new] \in Seq(N) /\ Len(g.layout[new]) = Len(s) - k + 1
       /\ \A j \in 1 .. Len(s) - k + 1 : g.layout[new][j] = s[k + j - 1]
       /\ \A c \in DOMAIN f.layout : c # b => g.layout[c] = f.layout[c]
  BY <1>3, <1>4, <1>5, <1>8
<1>11. /\ DOMAIN g.code = DOMAIN f.code \cup {br}
       /\ g.code[br] = Jump(new)
       /\ \A y \in DOMAIN f.code :
            /\ g.code[y].op = f.code[y].op
            /\ g.code[y].to = f.code[y].to
            /\ g.code[y].cases = f.code[y].cases
            /\ g.code[y].args = f.code[y].args
            /\ g.code[y].in = {<<e[1], B(e[2])>> : e \in f.code[y].in}
  BY <1>6, <1>7, <1>8
<1> QED  BY <1>9, <1>10, <1>11 DEF g

LEMMA ReplaceAllUsesAt ==
  ASSUME NEW f, NEW N, WellFormed(f, N), OnePlace(f), NEW old, NEW new
  PROVE  LET g == ReplaceAllUses(f, old, new) IN
         /\ g.entry = f.entry
         /\ \A y \in DOMAIN f.code :
              g.code[y].in =
                {<<IF e[1] = old THEN new ELSE e[1], e[2]>> : e \in f.code[y].in}
         /\ OnePlace(g)
<1> DEFINE V(v) == IF v = old THEN new ELSE v
           B(b) == b
           code == [x \in DOMAIN f.code |-> Rename(f.code[x], V, B)]
           g == ReplaceAllUses(f, old, new)
<1>1. g.entry = f.entry /\ g.layout = f.layout /\ g.code = code
  BY EditIs DEF ReplaceAllUses
<1>2. DOMAIN code = DOMAIN f.code
  OBVIOUS
<1>3. ASSUME NEW y \in DOMAIN f.code
      PROVE  code[y].in = {<<V(e[1]), e[2]>> : e \in f.code[y].in}
  <2>1. code[y] = Rename(f.code[y], V, B)
    OBVIOUS
  <2> HIDE DEF code
  <2> QED  BY <2>1 DEF Rename
<1> HIDE DEF g, code
<1>4. OnePlace(g)
  BY <1>1, <1>2 DEF OnePlace
<1> QED  BY <1>1, <1>3, <1>4 DEF g

LEMMA AddIncomingAt ==
  ASSUME NEW f, NEW N, WellFormed(f, N), OnePlace(f), NEW phi \in DOMAIN f.code,
         NEW value, NEW block
  PROVE  LET g == AddIncoming(f, phi, value, block) IN
         /\ g.entry = f.entry
         /\ g.code[phi].to = f.code[phi].to
         /\ g.code[phi].args = f.code[phi].args
         /\ g.code[phi].cases = f.code[phi].cases
         /\ g.code[phi].in = f.code[phi].in \cup {<<value, block>>}
         /\ OnePlace(g)
<1> DEFINE x == f.code[phi]
           v == x.in \cup {<<value, block>>}
           new == [x EXCEPT !.in = v]
           code == Put(f.code, phi, new)
           g == AddIncoming(f, phi, value, block)
<1>1. g.entry = f.entry /\ g.layout = f.layout /\ g.code = code
  BY EditIs DEF AddIncoming
<1>2. IsIns(x)
  BY DEF WellFormed
<1>3. DOMAIN code = DOMAIN f.code /\ code[phi] = new
  BY DEF Put
<1>4. new = [op |-> x.op, ty |-> x.ty, args |-> x.args,
             to |-> x.to, in |-> v, cases |-> x.cases]
  <2> HIDE DEF x, v
  <2> QED  BY <1>2, ChangedIns
<1> HIDE DEF new, code, g
<1>5. new.to = x.to /\ new.args = x.args /\ new.cases = x.cases /\ new.in = v
  BY <1>4
<1>6. OnePlace(g)
  BY <1>1, <1>3 DEF OnePlace
<1> QED  BY <1>1, <1>3, <1>5, <1>6 DEF g

LEMMA AddCaseAt ==
  ASSUME NEW f, NEW N, WellFormed(f, N), OnePlace(f), NEW switch \in DOMAIN f.code,
         NEW id, NEW block
  PROVE  LET g == AddCase(f, switch, id, block) IN
         /\ g.entry = f.entry
         /\ g.code[switch].to = Append(f.code[switch].to, block)
         /\ g.code[switch].args = f.code[switch].args
         /\ g.code[switch].in = f.code[switch].in
         /\ OnePlace(g)
<1> DEFINE x == f.code[switch]
           c == Append(x.cases, id)
           t == Append(x.to, block)
           y == [x EXCEPT !.cases = c]
           new == [x EXCEPT !.cases = c, !.to = t]
           code == Put(f.code, switch, new)
           g == AddCase(f, switch, id, block)
<1>1. g.entry = f.entry /\ g.layout = f.layout /\ g.code = code
  BY EditIs DEF AddCase
<1>2. IsIns(x)
  BY DEF WellFormed
<1>3. DOMAIN code = DOMAIN f.code /\ code[switch] = new
  BY DEF Put
<1>4. new = [op |-> x.op, ty |-> x.ty, args |-> x.args,
             to |-> t, in |-> x.in, cases |-> c]
  <2> HIDE DEF x, c, t
  <2>1. new = [y EXCEPT !.to = t]
    OBVIOUS
  <2>2. y = [op |-> x.op, ty |-> x.ty, args |-> x.args,
             to |-> x.to, in |-> x.in, cases |-> c]
    BY <1>2, ChangedIns
  <2> HIDE DEF y, new
  <2>3. IsIns(y)
    BY <1>2, <2>2 DEF IsIns
  <2>4. [y EXCEPT !.to = t] = [op |-> y.op, ty |-> y.ty, args |-> y.args,
                                to |-> t, in |-> y.in, cases |-> y.cases]
    BY <2>3, ChangedIns
  <2> QED  BY <2>1, <2>2, <2>4
<1> HIDE DEF new, code, g
<1>5. new.to = t /\ new.args = x.args /\ new.in = x.in
  BY <1>4
<1>6. OnePlace(g)
  BY <1>1, <1>3 DEF OnePlace
<1> QED  BY <1>1, <1>3, <1>5, <1>6 DEF g

-------------------------------------------------------------------------------
(* Reachability.  Closure is a recursive function on the sets of blocks.   *)

\* T with what the blocks of T lead to.
Extended(E, T) == T \cup UNION {E[b] : b \in T}

\* E leads from a block of B to blocks of B.
IsRelation(E, B) == E = [b \in B |-> E[b]] /\ \A b \in B : E[b] \subseteq B

\* g extends a set of blocks until there is nothing to add.
IsGrow(g, E, B) ==
  g = [T \in SUBSET B |-> IF Extended(E, T) = T THEN T ELSE g[Extended(E, T)]]

ClosedUnder(E, T) == \A b \in T : E[b] \subseteq T

\* The least set that contains T and is closed.
Least(E, B, T) == {b \in B : \A C \in SUBSET B : T \subseteq C /\ ClosedUnder(E, C) => b \in C}

LEMMA ExtendedIs ==
  ASSUME NEW E, NEW B, IsRelation(E, B), NEW T \in SUBSET B
  PROVE  /\ Extended(E, T) \in SUBSET B /\ T \subseteq Extended(E, T)
         /\ Extended(E, T) = T <=> ClosedUnder(E, T)
         /\ \A C \in SUBSET B : ClosedUnder(E, C) =>
              (T \subseteq C <=> Extended(E, T) \subseteq C)
<1>1. Extended(E, T) \in SUBSET B /\ T \subseteq Extended(E, T)
  BY DEF IsRelation, Extended
<1>2. Extended(E, T) = T <=> ClosedUnder(E, T)
  BY DEF Extended, ClosedUnder
<1>3. ASSUME NEW C \in SUBSET B, ClosedUnder(E, C)
      PROVE  T \subseteq C <=> Extended(E, T) \subseteq C
  BY <1>3 DEF Extended, ClosedUnder
<1> QED  BY <1>1, <1>2, <1>3

\* There is such a function.
LEMMA GrowExists ==
  ASSUME NEW E, NEW B, IsRelation(E, B)
  PROVE  \E g : IsGrow(g, E, B)
<1> DEFINE g == [T \in SUBSET B |-> Least(E, B, T)]
           h == [T \in SUBSET B |-> IF Extended(E, T) = T THEN T ELSE g[Extended(E, T)]]
<1>1. ASSUME NEW T \in SUBSET B PROVE g[T] = h[T]
  <2>1. CASE Extended(E, T) = T
    <3>1. ClosedUnder(E, T)
      BY <2>1, ExtendedIs
    <3>2. Least(E, B, T) = T
      BY <3>1 DEF Least
    <3> QED  BY <2>1, <3>2
  <2>2. CASE Extended(E, T) # T
    <3>1. Least(E, B, Extended(E, T)) = Least(E, B, T)
      BY ExtendedIs DEF Least
    <3>2. Extended(E, T) \in SUBSET B
      BY ExtendedIs
    <3> QED  BY <2>2, <3>1, <3>2
  <2> QED  BY <2>1, <2>2
<1>2. g = h
  BY <1>1
<1> QED  BY <1>2 DEF IsGrow

\* A set of finite sets has one that contains no other.
LEMMA Smallest ==
  ASSUME NEW B, IsFiniteSet(B), NEW Z \in SUBSET SUBSET B, Z # {}
  PROVE  \E T \in Z : \A U \in Z : U \subseteq T => U = T
<1> DEFINE R == StrictSubsetOrdering(B)
<1>1. IsWellFoundedOn(R, SUBSET B)
  BY FS_StrictSubsetOrderingWellFounded, FS_FiniteSubsetsOfFinite
<1> HIDE DEF R
<1>2. PICK T \in Z : \A U \in Z : ~ (<<U, T>> \in R)
  BY <1>1, WFMin
<1>3. ASSUME NEW U \in Z, U \subseteq T, U # T PROVE FALSE
  <2>1. <<U, T>> \in R
    BY <1>3 DEF R, StrictSubsetOrdering
  <2> QED  BY <1>2, <2>1
<1> QED  BY <1>3

\* What any such function computes on finitely many blocks.
LEMMA GrowIs ==
  ASSUME NEW E, NEW B, IsRelation(E, B), IsFiniteSet(B), NEW g, IsGrow(g, E, B),
         NEW S \in SUBSET B
  PROVE  g[S] = Least(E, B, S)
<1> DEFINE Z == {B \ T : T \in {U \in SUBSET B : g[U] # Least(E, B, U)}}
<1>1. \A T \in SUBSET B : g[T] = IF Extended(E, T) = T THEN T ELSE g[Extended(E, T)]
  BY DEF IsGrow
<1>2. SUFFICES ASSUME Z # {} PROVE FALSE
  OBVIOUS
<1>3. Z \in SUBSET SUBSET B
  OBVIOUS
<1> HIDE DEF Z
<1>4. PICK D \in Z : \A U \in Z : U \subseteq D => U = D
  BY <1>2, <1>3, Smallest
<1>5. PICK T \in SUBSET B : D = B \ T /\ g[T] # Least(E, B, T)
  BY <1>4 DEF Z
<1>6. CASE Extended(E, T) = T
  <2>1. ClosedUnder(E, T)
    BY <1>6, ExtendedIs
  <2>2. Least(E, B, T) = T
    BY <2>1 DEF Least
  <2> QED  BY <1>1, <1>5, <1>6, <2>2
<1>7. CASE Extended(E, T) # T
  <2> DEFINE U == Extended(E, T)
  <2>1. U \in SUBSET B /\ T \subseteq U /\ U # T
    BY <1>7, ExtendedIs
  <2>2. Least(E, B, U) = Least(E, B, T)
    BY ExtendedIs DEF Least
  <2>3. g[T] = g[U]
    BY <1>1, <1>7
  <2> HIDE DEF U
  <2>4. B \ U \in Z
    BY <1>5, <2>1, <2>2, <2>3 DEF Z
  <2>5. B \ U \subseteq D /\ B \ U # D
    BY <1>5, <2>1
  <2> QED  BY <1>4, <2>4, <2>5
<1> QED  BY <1>6, <1>7

LEMMA LeastIs ==
  ASSUME NEW E, NEW B, IsRelation(E, B), NEW S \in SUBSET B
  PROVE  /\ S \subseteq Least(E, B, S) /\ Least(E, B, S) \subseteq B
         /\ ClosedUnder(E, Least(E, B, S))
<1>1. ASSUME NEW b \in Least(E, B, S), NEW c \in E[b] PROVE c \in Least(E, B, S)
  BY <1>1 DEF Least, ClosedUnder, IsRelation
<1> QED  BY <1>1 DEF Least, ClosedUnder

\* Reachability in f, whose blocks are finitely many and lead to blocks of f.
IsGraph(f) ==
  /\ IsFiniteSet(BlocksOf(f)) /\ f.entry \in BlocksOf(f)
  /\ \A b \in BlocksOf(f) : Succs(f, b) \subseteq BlocksOf(f)

LEMMA ReachableAvoidingIs ==
  ASSUME NEW f, NEW a, IsGraph(f)
  PROVE  ReachableAvoiding(f, a) =
           Least([b \in BlocksOf(f) |-> Succs(f, b) \ {a}], BlocksOf(f), {f.entry} \ {a})
<1> DEFINE B == BlocksOf(f)
           E == [b \in B |-> Succs(f, b) \ {a}]
           Q(T) == T \cup UNION {Succs(f, b) \ {a} : b \in T}
           G(g) == g = [T \in SUBSET B |-> IF Q(T) = T THEN T ELSE g[Q(T)]]
<1>1. ReachableAvoiding(f, a) = (CHOOSE g : G(g))[{f.entry} \ {a}]
  BY Zenon DEF ReachableAvoiding, Closure
<1>2. \A T \in SUBSET B : Q(T) = Extended(E, T)
  BY DEF Extended
<1>3. IsRelation(E, B)
  BY DEF IsGraph, IsRelation
<1> HIDE DEF E, Q
<1>4. \A g : G(g) <=> IsGrow(g, E, B)
  BY <1>2 DEF IsGrow
<1>5. (CHOOSE g : G(g)) = (CHOOSE g : IsGrow(g, E, B))
  <2> HIDE DEF G
  <2> QED  BY <1>4, Zenon
<1>6. IsGrow(CHOOSE g : IsGrow(g, E, B), E, B)
  BY <1>3, GrowExists, Zenon
<1>7. {f.entry} \ {a} \in SUBSET B
  BY DEF IsGraph
<1> HIDE DEF G, B
<1>8. (CHOOSE g : IsGrow(g, E, B))[{f.entry} \ {a}] = Least(E, B, {f.entry} \ {a})
  BY <1>3, <1>6, <1>7, GrowIs DEF IsGraph, B
<1> QED  BY <1>1, <1>5, <1>8 DEF E, B

\* The blocks the entry reaches.
Live(f) == Closure(f, LAMBDA b : Succs(f, b), {f.entry})

LEMMA LiveIs ==
  ASSUME NEW f, IsGraph(f)
  PROVE  Live(f) = Least([b \in BlocksOf(f) |-> Succs(f, b)], BlocksOf(f), {f.entry})
<1> DEFINE B == BlocksOf(f)
           E == [b \in B |-> Succs(f, b)]
           Q(T) == T \cup UNION {Succs(f, b) : b \in T}
           G(g) == g = [T \in SUBSET B |-> IF Q(T) = T THEN T ELSE g[Q(T)]]
<1>1. Live(f) = (CHOOSE g : G(g))[{f.entry}]
  BY Zenon DEF Live, Closure
<1>2. \A T \in SUBSET B : Q(T) = Extended(E, T)
  BY DEF Extended
<1>3. IsRelation(E, B)
  BY DEF IsGraph, IsRelation
<1> HIDE DEF E, Q
<1>4. \A g : G(g) <=> IsGrow(g, E, B)
  BY <1>2 DEF IsGrow
<1>5. (CHOOSE g : G(g)) = (CHOOSE g : IsGrow(g, E, B))
  <2> HIDE DEF G
  <2> QED  BY <1>4, Zenon
<1>6. IsGrow(CHOOSE g : IsGrow(g, E, B), E, B)
  BY <1>3, GrowExists, Zenon
<1>7. {f.entry} \in SUBSET B
  BY DEF IsGraph
<1> HIDE DEF G, B
<1>8. (CHOOSE g : IsGrow(g, E, B))[{f.entry}] = Least(E, B, {f.entry})
  BY <1>3, <1>6, <1>7, GrowIs DEF IsGraph, B
<1> QED  BY <1>1, <1>5, <1>8 DEF E, B

\* From the entry, and along every edge that does not lead to the block avoided.
LEMMA Reaches ==
  ASSUME NEW f, IsGraph(f)
  PROVE  /\ f.entry \in Live(f) /\ Live(f) \subseteq BlocksOf(f)
         /\ \A b \in Live(f) : Succs(f, b) \subseteq Live(f)
         /\ \A a : f.entry # a => f.entry \in ReachableAvoiding(f, a)
         /\ \A a : \A b \in ReachableAvoiding(f, a) : \A c \in Succs(f, b) :
              c # a => c \in ReachableAvoiding(f, a)
<1> DEFINE B == BlocksOf(f)
<1>1. /\ f.entry \in Live(f) /\ Live(f) \subseteq B
      /\ \A b \in Live(f) : Succs(f, b) \subseteq Live(f)
  <2> DEFINE E == [b \in B |-> Succs(f, b)]
  <2>1. IsRelation(E, B) /\ {f.entry} \in SUBSET B
    BY DEF IsGraph, IsRelation
  <2>2. Live(f) = Least(E, B, {f.entry})
    BY LiveIs
  <2> HIDE DEF E, B
  <2>3. {f.entry} \subseteq Live(f) /\ Live(f) \subseteq B /\ ClosedUnder(E, Live(f))
    BY <2>1, <2>2, LeastIs
  <2> QED  BY <2>3 DEF ClosedUnder, E
<1>2. ASSUME NEW a
      PROVE  /\ f.entry # a => f.entry \in ReachableAvoiding(f, a)
             /\ \A b \in ReachableAvoiding(f, a) : \A c \in Succs(f, b) :
                  c # a => c \in ReachableAvoiding(f, a)
  <2> DEFINE E == [b \in B |-> Succs(f, b) \ {a}]
  <2>1. IsRelation(E, B) /\ {f.entry} \ {a} \in SUBSET B
    BY DEF IsGraph, IsRelation
  <2>2. ReachableAvoiding(f, a) = Least(E, B, {f.entry} \ {a})
    BY ReachableAvoidingIs
  <2> HIDE DEF E, B
  <2>3. /\ {f.entry} \ {a} \subseteq ReachableAvoiding(f, a)
        /\ ReachableAvoiding(f, a) \subseteq B /\ ClosedUnder(E, ReachableAvoiding(f, a))
    BY <2>1, <2>2, LeastIs
  <2> QED  BY <2>3 DEF ClosedUnder, E
<1> QED  BY <1>1, <1>2
================================================================================
