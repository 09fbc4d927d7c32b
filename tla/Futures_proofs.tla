--------------------------- MODULE Futures_proofs ---------------------------
(***************************************************************************)
(* Futures for every set of windows, shapes, completions and counts, and   *)
(* every length of the manager's arrays.                                   *)
(***************************************************************************)
EXTENDS Futures, ExprWindow_proofs

Wilds == {"no", "ignore", "post", "operand", "put", "ids"}

\* A statement, as Statements makes it.
Calls == [kind : Kinds, wins : Seq(Windows), ids : Seq(Int), opened : Seq(Nat), count : Nat,
          sink : Windows \cup {None}, sinkId : Int]
CallOK(c) == c \in Calls /\ Len(c.wins) \in {1, 2} /\ Len(c.opened) = Len(c.wins)

\* A statement's accesses are numbered in the order they were made: the operands
\* from base + 1 on, the window it puts into last.
Numbered(c, base, top) ==
  LET m == Len(c.wins) IN
  /\ base \in Nat /\ top = base + m + (IF c.sink = None THEN 0 ELSE 1)
  /\ Len(c.ids) = m
  /\ c.opened \in Orders(m)
  /\ \A j \in 1 .. m : c.ids[c.opened[j]] = base + j
  /\ c.sinkId = IF c.sink = None THEN 0 ELSE top

\* A call with its numbers.
NumberedOK(c, base, top) ==
  /\ CallOK(c) /\ c.count # 0 /\ (c.kind = "elem" => c.count = 1)
  /\ Numbered(c, base, top) /\ top <= MaxAccesses

Entry == [alive : BOOLEAN, count : 0 .. 2, run : {c \in Calls : CallOK(c)}, ran : BOOLEAN]

\* Where the flush under way is.
Place ==
  /\ flushing = None => at = 0
  /\ flushing # None => at \in 1 .. Len(expressions[flushing]) + 1

\* The places an expression is reached at are its operands', and as many as it counts.
Reached1(e) ==
  /\ IsFiniteSet(Ahead(e))
  /\ Waits(e) \subseteq ToSet(exprs[e].run.wins)
  /\ exprs[e].ran => ~exprs[e].alive

FuturesInv ==
  /\ TypeOK
  /\ exprs \in Seq(Entry) /\ expressions \in [Windows -> Seq(Nat)]
  /\ Place
  /\ \A e \in DOMAIN exprs : Reached1(e)

-----------------------------------------------------------------------------
(***************************************************************************)
(* Places, and how many there are.                                         *)
(***************************************************************************)

LEMMA AheadMember ==
  /\ \A e, w, i : <<w, i>> \in Ahead(e) <=> w \in Windows /\ i \in Left(w) /\ expressions[w][i] = e
  /\ \A e : \A place \in Ahead(e) : place = <<place[1], place[2]>>
BY DEF Ahead

LEMMA SamePlaces ==
  ASSUME NEW S, NEW U, \A place \in S : place = <<place[1], place[2]>>,
         \A place \in U : place = <<place[1], place[2]>>,
         \A w, i : <<w, i>> \in S <=> <<w, i>> \in U
  PROVE  S = U
<1>1. ASSUME NEW x \in S PROVE x \in U
  <2>1. <<x[1], x[2]>> \in S
    OBVIOUS
  <2>. QED BY <2>1
<1>2. ASSUME NEW x \in U PROVE x \in S
  <2>1. <<x[1], x[2]>> \in U
    OBVIOUS
  <2>. QED BY <2>1
<1>. QED
  BY <1>1, <1>2

\* An expression waits for a window if the window's flush has still to reach it.
LEMMA WaitsMember ==
  \A e, w : w \in Waits(e) <=> w \in Windows /\ \E i \in Left(w) : expressions[w][i] = e
<1>. TAKE e, w
<1>1. ASSUME w \in Waits(e) PROVE w \in Windows /\ \E i \in Left(w) : expressions[w][i] = e
  <2>1. PICK place \in Ahead(e) : place[1] = w
    BY <1>1 DEF Waits
  <2>2. <<w, place[2]>> \in Ahead(e)
    BY <2>1, AheadMember
  <2>. QED BY <2>2, AheadMember
<1>2. ASSUME w \in Windows, NEW i \in Left(w), expressions[w][i] = e PROVE w \in Waits(e)
  <2>1. <<w, i>> \in Ahead(e)
    BY <1>2, AheadMember
  <2>2. <<w, i>>[1] = w
    OBVIOUS
  <2>. QED BY <2>1, <2>2 DEF Waits
<1>. QED
  BY <1>1, <1>2

\* A set with one element less has one member less, and a smaller set no more.
LEMMA OneLess ==
  ASSUME NEW S, IsFiniteSet(S), NEW x \in S
  PROVE  /\ IsFiniteSet(S \ {x}) /\ Cardinality(S \ {x}) = Cardinality(S) - 1
         /\ Cardinality(S) \in Nat \ {0}
<1>1. Cardinality(S) \in Nat
  BY FS_CardinalityType
<1>2. Cardinality(S) # 0
  BY FS_EmptySet
<1>. QED
  BY <1>1, <1>2, FS_RemoveElement

LEMMA Fewer ==
  ASSUME NEW S, IsFiniteSet(S), NEW U \in SUBSET S
  PROVE  /\ IsFiniteSet(U) /\ Cardinality(U) <= Cardinality(S)
         /\ U # S => Cardinality(U) < Cardinality(S)
         /\ Cardinality(U) \in Nat /\ Cardinality(S) \in Nat
<1>1. IsFiniteSet(U) /\ Cardinality(U) <= Cardinality(S) /\ (Cardinality(S) = Cardinality(U) => S = U)
  BY FS_Subset
<1>2. Cardinality(U) \in Nat /\ Cardinality(S) \in Nat
  BY <1>1, FS_CardinalityType
<1>. QED
  BY <1>1, <1>2

LEMMA OneOrTwo ==
  /\ \A x : IsFiniteSet({x}) /\ Cardinality({x}) = 1
  /\ \A x, y : x # y => IsFiniteSet({x, y}) /\ Cardinality({x, y}) = 2
<1>1. \A x : IsFiniteSet({x}) /\ Cardinality({x}) = 1
  BY FS_Singleton
<1>2. ASSUME NEW x, NEW y, x # y PROVE IsFiniteSet({x, y}) /\ Cardinality({x, y}) = 2
  <2>1. IsFiniteSet({x} \cup {y}) /\ Cardinality({x} \cup {y}) = IF y \in {x} THEN Cardinality({x}) ELSE Cardinality({x}) + 1
    BY <1>1, FS_AddElement
  <2>2. {x} \cup {y} = {x, y} /\ y \notin {x}
    BY <1>2
  <2>3. Cardinality({x}) = 1
    BY <1>1
  <2>4. Cardinality({x} \cup {y}) = Cardinality({x}) + 1
    BY <2>1, <2>2
  <2>. QED BY <2>1, <2>2, <2>3, <2>4
<1>. QED
  BY <1>1, <1>2

-----------------------------------------------------------------------------
(***************************************************************************)
(* What a statement left to flushes adds to the windows' expressions_.     *)
(***************************************************************************)

\* How often a window is an operand.
LEMMA OperandCount ==
  ASSUME NEW c, CallOK(c), NEW w \in Windows
  PROVE  LET m == Cardinality({i \in DOMAIN c.wins : c.wins[i] = w})
         IN  /\ m \in 0 .. 2
             /\ Len(c.wins) = 1 => m = IF c.wins[1] = w THEN 1 ELSE 0
             /\ Len(c.wins) = 2 => m = IF c.wins[1] = w /\ c.wins[2] = w THEN 2
                                       ELSE IF c.wins[1] = w \/ c.wins[2] = w THEN 1 ELSE 0
<1>. DEFINE A == {i \in DOMAIN c.wins : c.wins[i] = w}
<1>1. c.wins \in Seq(Windows) /\ Len(c.wins) \in {1, 2}
  BY DEF CallOK, Calls
<1>2. DOMAIN c.wins = 1 .. Len(c.wins)
  BY <1>1, LenProperties
<1>3. CASE Len(c.wins) = 1
  <2>1. A = IF c.wins[1] = w THEN {1} ELSE {}
    BY <1>2, <1>3
  <2>. HIDE DEF A
  <2>2. Cardinality(A) = IF c.wins[1] = w THEN 1 ELSE 0
    BY <2>1, OneOrTwo, FS_EmptySet
  <2>. QED BY <1>3, <2>2 DEF A
<1>4. CASE Len(c.wins) = 2
  <2>1. A = IF c.wins[1] = w /\ c.wins[2] = w THEN {1, 2}
            ELSE IF c.wins[1] = w THEN {1} ELSE IF c.wins[2] = w THEN {2} ELSE {}
    BY <1>2, <1>4
  <2>2. 1 # 2
    OBVIOUS
  <2>. HIDE DEF A
  <2>3. Cardinality(A) = IF c.wins[1] = w /\ c.wins[2] = w THEN 2
                         ELSE IF c.wins[1] = w \/ c.wins[2] = w THEN 1 ELSE 0
    BY <2>1, <2>2, OneOrTwo, FS_EmptySet
  <2>. QED BY <1>4, <2>3 DEF A
<1>. QED
  BY <1>1, <1>3, <1>4

\* The new identifier follows what was there.
LEMMA BlockedList ==
  ASSUME FuturesInv, NEW c, CallOK(c), NEW w \in Windows
  PROVE  LET m == Cardinality({i \in DOMAIN c.wins : c.wins[i] = w})
             l == Len(expressions[w])
             s == Blocked(c)[w]
         IN  /\ s \in Seq(Nat) /\ Len(s) = l + m /\ l \in Nat
             /\ \A i \in 1 .. l : s[i] = expressions[w][i]
             /\ \A i \in l + 1 .. l + m : s[i] = Len(exprs) + 1
<1>. DEFINE m == Cardinality({i \in DOMAIN c.wins : c.wins[i] = w})
            t == [j \in 1 .. m |-> Len(exprs) + 1]
            s == Blocked(c)[w]
<1>1. m \in Nat
  BY OperandCount
<1>2. s = expressions[w] \o t
  BY DEF Blocked
<1>. HIDE DEF m, s
<1>3. Len(exprs) \in Nat /\ expressions[w] \in Seq(Nat)
  BY LenProperties DEF FuturesInv
<1>4. t \in Seq(Nat) /\ Len(t) = m /\ \A j \in 1 .. m : t[j] = Len(exprs) + 1
  <2>1. t \in [1 .. m -> Nat]
    BY <1>3
  <2>2. t \in Seq(Nat)
    BY <1>1, <2>1, SeqDef
  <2>3. DOMAIN t = 1 .. m /\ DOMAIN t = 1 .. Len(t) /\ Len(t) \in Nat
    BY <2>2, LenProperties
  <2>4. Len(t) = m
    BY <1>1, <2>3
  <2>. QED BY <2>2, <2>4
<1>. HIDE DEF t
<1>5. /\ s \in Seq(Nat) /\ Len(s) = Len(expressions[w]) + m
      /\ \A i \in 1 .. Len(expressions[w]) + m :
           s[i] = IF i <= Len(expressions[w]) THEN expressions[w][i] ELSE t[i - Len(expressions[w])]
  <2>1. PICK e : e = expressions[w]
    OBVIOUS
  <2>2. e \in Seq(Nat) /\ t \in Seq(Nat)
    BY <1>3, <1>4, <2>1
  <2>3. /\ e \o t \in Seq(Nat) /\ Len(e \o t) = Len(e) + Len(t)
        /\ \A i \in 1 .. Len(e) + Len(t) : (e \o t)[i] = IF i <= Len(e) THEN e[i] ELSE t[i - Len(e)]
    BY <2>2, ConcatProperties
  <2>4. s = e \o t /\ Len(t) = m
    BY <1>2, <1>4, <2>1
  <2>5. /\ s \in Seq(Nat) /\ Len(s) = Len(e) + m
        /\ \A i \in 1 .. Len(e) + m : s[i] = IF i <= Len(e) THEN e[i] ELSE t[i - Len(e)]
    BY <2>3, <2>4
  <2>. QED BY <2>1, <2>5
<1>6. Len(expressions[w]) \in Nat
  BY <1>3, LenProperties
<1>7. \A i \in 1 .. Len(expressions[w]) : s[i] = expressions[w][i]
  BY <1>1, <1>5, <1>6
<1>8. \A i \in Len(expressions[w]) + 1 .. Len(expressions[w]) + m : s[i] = Len(exprs) + 1
  BY <1>1, <1>4, <1>5, <1>6
<1>. QED
  BY <1>5, <1>6, <1>7, <1>8 DEF m, s

\* The new expression is ahead of its operands' flushes as often as it has operands, and the
\* others where they were.
LEMMA BlockedAhead ==
  ASSUME FuturesInv, NEW c, CallOK(c), flushing = None, flushing' = None,
         expressions' = Blocked(c), NEW new, new = Len(exprs) + 1
  PROVE  /\ IsFiniteSet(Ahead(new)') /\ Occurrences(new)' = Len(c.wins)
         /\ Waits(new)' = ToSet(c.wins) /\ ToSet(c.wins) # {}
         /\ \A e \in DOMAIN exprs : Ahead(e)' = Ahead(e)
         /\ expressions' \in [Windows -> Seq(Nat)]
         /\ \A w \in Windows : \A i \in 1 .. Len(expressions'[w]) :
              \/ i \in 1 .. Len(expressions[w]) /\ expressions'[w][i] = expressions[w][i]
              \/ w \in ToSet(c.wins) /\ expressions'[w][i] = new
<1>. DEFINE l(w) == Len(expressions[w])
            m(w) == Cardinality({i \in DOMAIN c.wins : c.wins[i] = w})
            a == c.wins[1]
            b == c.wins[2]
<1>1. \A w \in Windows : Left(w) = 1 .. l(w) /\ Left(w)' = 1 .. Len(Blocked(c)[w])
  BY NoneAssumption DEF Left
<1>2. \A w \in Windows : /\ Blocked(c)[w] \in Seq(Nat) /\ Len(Blocked(c)[w]) = l(w) + m(w) /\ l(w) \in Nat
                         /\ \A i \in 1 .. l(w) : Blocked(c)[w][i] = expressions[w][i]
                         /\ \A i \in l(w) + 1 .. l(w) + m(w) : Blocked(c)[w][i] = new
  <2>. TAKE w \in Windows
  <2>1. /\ Blocked(c)[w] \in Seq(Nat) /\ Len(Blocked(c)[w]) = l(w) + m(w) /\ l(w) \in Nat
        /\ \A i \in 1 .. l(w) : Blocked(c)[w][i] = expressions[w][i]
        /\ \A i \in l(w) + 1 .. l(w) + m(w) : Blocked(c)[w][i] = Len(exprs) + 1
    BY BlockedList
  <2>. HIDE DEF l, m
  <2>. QED BY <2>1
<1>3. /\ c.wins \in Seq(Windows) /\ Len(c.wins) \in {1, 2} /\ DOMAIN c.wins = 1 .. Len(c.wins)
      /\ \A i \in 1 .. Len(c.wins) : c.wins[i] \in Windows
  <2>1. c.wins \in Seq(Windows) /\ Len(c.wins) \in {1, 2}
    BY DEF CallOK, Calls
  <2>. QED BY <2>1, LenProperties, ElementOfSeq
<1>4. /\ \A w \in Windows : m(w) \in 0 .. 2
      /\ Len(c.wins) = 1 => \A w \in Windows : m(w) = IF a = w THEN 1 ELSE 0
      /\ Len(c.wins) = 2 => \A w \in Windows : m(w) = IF a = w /\ b = w THEN 2
                                                      ELSE IF a = w \/ b = w THEN 1 ELSE 0
  BY OperandCount
<1>5. \A w \in Windows : w \in ToSet(c.wins) <=> m(w) # 0
  BY <1>3, <1>4 DEF ToSet
<1>6. DOMAIN exprs = 1 .. Len(exprs) /\ Len(exprs) \in Nat
  BY LenProperties DEF FuturesInv
<1>7. \A w \in Windows : \A i \in 1 .. l(w) : expressions[w][i] \in DOMAIN exprs
  <2>1. \A w \in Windows : ToSet(expressions[w]) \subseteq DOMAIN exprs /\ expressions[w] \in Seq(Nat)
    BY DEF FuturesInv, TypeOK
  <2>2. \A w \in Windows : DOMAIN expressions[w] = 1 .. l(w)
    BY <2>1, LenProperties
  <2>. QED BY <2>1, <2>2 DEF ToSet
<1>. HIDE DEF l, m, a, b
<1>8. new \notin DOMAIN exprs
  BY <1>6
\* Where an expression is ahead after the statement.
<1>9. ASSUME NEW e, NEW w, NEW i
      PROVE  <<w, i>> \in Ahead(e)' <=> w \in Windows /\ i \in 1 .. l(w) + m(w) /\ Blocked(c)[w][i] = e
  <2>1. <<w, i>> \in Ahead(e)' <=> w \in Windows /\ i \in Left(w)' /\ expressions'[w][i] = e
    BY DEF Ahead
  <2>. QED BY <1>1, <1>2, <2>1
<1>10. \A e : \A place \in Ahead(e)' : place = <<place[1], place[2]>>
  BY DEF Ahead
<1>11. \A w \in Windows : \A i : i \in 1 .. l(w) + m(w) <=> i \in 1 .. l(w) \/ i \in l(w) + 1 .. l(w) + m(w)
  BY <1>2, <1>4
<1>12. ASSUME NEW e \in DOMAIN exprs PROVE Ahead(e)' = Ahead(e)
  <2>1. ASSUME NEW w, NEW i PROVE <<w, i>> \in Ahead(e)' <=> <<w, i>> \in Ahead(e)
    <3>1. <<w, i>> \in Ahead(e) <=> w \in Windows /\ i \in Left(w) /\ expressions[w][i] = e
      BY AheadMember
    <3>2. CASE w \in Windows
      <4>1. Left(w) = 1 .. l(w)
        BY <1>1, <3>2
      <4>2. \A j \in l(w) + 1 .. l(w) + m(w) : Blocked(c)[w][j] # e
        BY <1>2, <1>8, <3>2
      <4>3. \A j \in 1 .. l(w) : Blocked(c)[w][j] = expressions[w][j]
        BY <1>2, <3>2
      <4>. QED BY <1>9, <1>11, <3>1, <3>2, <4>1, <4>2, <4>3, Zenon
    <3>. QED BY <1>9, <3>1, <3>2, Zenon
  <2>2. \A place \in Ahead(e) : place = <<place[1], place[2]>>
    BY AheadMember
  <2>3. \A place \in Ahead(e)' : place = <<place[1], place[2]>>
    BY <1>10
  <2>. QED BY <2>1, <2>2, <2>3, SamePlaces
<1>13. ASSUME NEW w, NEW i
       PROVE  <<w, i>> \in Ahead(new)' <=> w \in Windows /\ i \in l(w) + 1 .. l(w) + m(w)
  <2>1. CASE w \in Windows
    <3>1. \A j \in l(w) + 1 .. l(w) + m(w) : Blocked(c)[w][j] = new
      BY <1>2, <2>1
    <3>2. \A j \in 1 .. l(w) : Blocked(c)[w][j] # new
      BY <1>2, <1>7, <1>8, <2>1
    <3>3. <<w, i>> \in Ahead(new)' <=> i \in 1 .. l(w) + m(w) /\ Blocked(c)[w][i] = new
      BY <1>9, <2>1, Zenon
    <3>4. i \in 1 .. l(w) + m(w) <=> i \in 1 .. l(w) \/ i \in l(w) + 1 .. l(w) + m(w)
      BY <1>11, <2>1
    <3>. QED BY <2>1, <3>1, <3>2, <3>3, <3>4, Zenon
  <2>. QED BY <1>9, <2>1, Zenon
<1>20. \A w \in Windows : \A i :
         /\ m(w) = 0 => i \notin l(w) + 1 .. l(w) + m(w)
         /\ m(w) = 1 => (i \in l(w) + 1 .. l(w) + m(w) <=> i = l(w) + 1)
         /\ m(w) = 2 => (i \in l(w) + 1 .. l(w) + m(w) <=> i = l(w) + 1 \/ i = l(w) + 2)
  <2>. TAKE w \in Windows
  <2>1. l(w) \in Nat
    BY <1>2
  <2>. QED BY <2>1
<1>14. Waits(new)' = ToSet(c.wins)
  <2>1. Waits(new)' = {place[1] : place \in Ahead(new)'}
    BY DEF Waits
  <2>2. ASSUME NEW w \in Waits(new)' PROVE w \in ToSet(c.wins)
    <3>1. PICK place \in Ahead(new)' : place[1] = w
      BY <2>1, <2>2
    <3>2. w \in Windows /\ place[2] \in l(w) + 1 .. l(w) + m(w)
      BY <1>10, <1>13, <3>1
    <3>3. m(w) # 0
      BY <1>2, <1>4, <3>2
    <3>. QED BY <1>5, <3>2, <3>3
  <2>3. ASSUME NEW w \in ToSet(c.wins) PROVE w \in Waits(new)'
    <3>1. w \in Windows
      BY <1>3 DEF ToSet
    <3>2. l(w) + 1 \in l(w) + 1 .. l(w) + m(w)
      BY <1>2, <1>4, <1>5, <3>1
    <3>3. <<w, l(w) + 1>> \in Ahead(new)'
      BY <1>13, <3>1, <3>2
    <3>4. <<w, l(w) + 1>>[1] = w
      OBVIOUS
    <3>. QED BY <2>1, <3>3, <3>4
  <2>. QED BY <2>2, <2>3
<1>15. a \in ToSet(c.wins)
  BY <1>3 DEF a, ToSet
<1>16. a \in Windows /\ (Len(c.wins) = 2 => b \in Windows)
  BY <1>3 DEF a, b
<1>17. ASSUME Len(c.wins) = 1 PROVE IsFiniteSet(Ahead(new)') /\ Occurrences(new)' = Len(c.wins)
  <2>1. \A w, i : <<w, i>> \in Ahead(new)' <=> w = a /\ i = l(a) + 1
    <3>1. \A w \in Windows : m(w) = IF a = w THEN 1 ELSE 0
      BY <1>4, <1>17
    <3>. QED BY <1>13, <1>16, <1>20, <3>1
  <2>2. Ahead(new)' = {<<a, l(a) + 1>>}
    BY <1>10, <2>1
  <2>3. IsFiniteSet(Ahead(new)') /\ Cardinality(Ahead(new)') = 1
    BY <2>2, OneOrTwo
  <2>. QED BY <1>17, <2>3 DEF Occurrences
<1>18. ASSUME Len(c.wins) = 2 /\ a = b PROVE IsFiniteSet(Ahead(new)') /\ Occurrences(new)' = Len(c.wins)
  <2>1. \A w, i : <<w, i>> \in Ahead(new)' <=> w = a /\ (i = l(a) + 1 \/ i = l(a) + 2)
    <3>1. \A w \in Windows : m(w) = IF a = w THEN 2 ELSE 0
      BY <1>4, <1>18
    <3>. QED BY <1>13, <1>16, <1>20, <3>1
  <2>2. Ahead(new)' = {<<a, l(a) + 1>>, <<a, l(a) + 2>>}
    BY <1>10, <2>1
  <2>3. <<a, l(a) + 1>> # <<a, l(a) + 2>>
    BY <1>2, <1>16
  <2>4. IsFiniteSet(Ahead(new)') /\ Cardinality(Ahead(new)') = 2
    <3>. DEFINE p == <<a, l(a) + 1>>
                q == <<a, l(a) + 2>>
    <3>1. p # q /\ Ahead(new)' = {p, q}
      BY <2>2, <2>3
    <3>. HIDE DEF p, q
    <3>2. IsFiniteSet({p, q}) /\ Cardinality({p, q}) = 2
      BY <3>1, OneOrTwo, Zenon
    <3>. QED BY <3>1, <3>2, Zenon
  <2>. QED BY <1>18, <2>4 DEF Occurrences
<1>19. ASSUME Len(c.wins) = 2 /\ a # b PROVE IsFiniteSet(Ahead(new)') /\ Occurrences(new)' = Len(c.wins)
  <2>1. \A w, i : <<w, i>> \in Ahead(new)' <=> (w = a /\ i = l(a) + 1) \/ (w = b /\ i = l(b) + 1)
    <3>1. \A w \in Windows : m(w) = IF a = w \/ b = w THEN 1 ELSE 0
      BY <1>4, <1>19
    <3>. QED BY <1>13, <1>16, <1>19, <1>20, <3>1
  <2>2. Ahead(new)' = {<<a, l(a) + 1>>, <<b, l(b) + 1>>}
    BY <1>10, <2>1
  <2>3. <<a, l(a) + 1>> # <<b, l(b) + 1>>
    BY <1>19
  <2>4. IsFiniteSet(Ahead(new)') /\ Cardinality(Ahead(new)') = 2
    <3>. DEFINE p == <<a, l(a) + 1>>
                q == <<b, l(b) + 1>>
    <3>1. p # q /\ Ahead(new)' = {p, q}
      BY <2>2, <2>3
    <3>. HIDE DEF p, q
    <3>2. IsFiniteSet({p, q}) /\ Cardinality({p, q}) = 2
      BY <3>1, OneOrTwo, Zenon
    <3>. QED BY <3>1, <3>2, Zenon
  <2>. QED BY <1>19, <2>4 DEF Occurrences
<1>21. IsFiniteSet(Ahead(new)') /\ Occurrences(new)' = Len(c.wins)
  BY <1>3, <1>17, <1>18, <1>19
<1>22. expressions' \in [Windows -> Seq(Nat)]
  BY <1>2 DEF Blocked
<1>23. ASSUME NEW w \in Windows, NEW i \in 1 .. Len(expressions'[w])
       PROVE  (i \in 1 .. l(w) /\ expressions'[w][i] = expressions[w][i]) \/ (w \in ToSet(c.wins) /\ expressions'[w][i] = new)
  <2>1. i \in 1 .. l(w) \/ i \in l(w) + 1 .. l(w) + m(w)
    BY <1>2, <1>11
  <2>2. ASSUME i \in l(w) + 1 .. l(w) + m(w)
        PROVE  w \in ToSet(c.wins) /\ expressions'[w][i] = new
    BY <1>2, <1>5, <1>20, <2>2
  <2>. QED BY <1>2, <2>1, <2>2
<1>. QED
  BY <1>12, <1>14, <1>15, <1>21, <1>22, <1>23 DEF l

-----------------------------------------------------------------------------
(***************************************************************************)
(* What the other steps do to the places ahead.                            *)
(***************************************************************************)

LEMMA SameAhead ==
  ASSUME UNCHANGED expressions, \A w \in Windows : Left(w)' = Left(w)
  PROVE  \A e : Ahead(e)' = Ahead(e) /\ Waits(e)' = Waits(e) /\ Occurrences(e)' = Occurrences(e)
<1>1. \A e : Ahead(e)' = Ahead(e)
  BY DEF Ahead
<1>. QED
  BY <1>1 DEF Waits, Occurrences

\* The start of a flush: its window's whole list is to be reached.
LEMMA FlushAhead ==
  ASSUME NEW w \in Windows, Flush(w)
  PROVE  \A e : Ahead(e)' = Ahead(e) /\ Waits(e)' = Waits(e) /\ Occurrences(e)' = Occurrences(e)
<1>1. UNCHANGED expressions /\ flushing = None /\ flushing' = w /\ at' = 1
  BY DEF Flush, Quiet
<1>2. \A u \in Windows : Left(u)' = Left(u)
  BY <1>1, NoneAssumption DEF Left
<1>. QED
  BY <1>1, <1>2, SameAhead

\* Its end: nothing of the list is left.
LEMMA EndAhead ==
  ASSUME FuturesInv, EndFlush
  PROVE  /\ \A e : Ahead(e)' = Ahead(e) /\ Waits(e)' = Waits(e) /\ Occurrences(e)' = Occurrences(e)
         /\ expressions' \in [Windows -> Seq(Nat)]
         /\ \A w \in Windows : expressions'[w] = IF w = flushing THEN <<>> ELSE expressions[w]
<1>1. /\ flushing \in Windows /\ at > Len(expressions[flushing]) /\ flushing' = None
      /\ expressions' = [expressions EXCEPT ![flushing] = <<>>]
      /\ expressions \in [Windows -> Seq(Nat)]
  BY DEF EndFlush, Emptied, FuturesInv, TypeOK
<1>2. at \in Nat /\ Len(expressions[flushing]) \in Nat
  BY <1>1, LenProperties DEF FuturesInv, Place
<1>3. <<>> \in Seq(Nat) /\ Len(<<>>) = 0
  BY EmptySeq
<1>4. /\ expressions' \in [Windows -> Seq(Nat)]
      /\ \A w \in Windows : expressions'[w] = IF w = flushing THEN <<>> ELSE expressions[w]
  BY <1>1, <1>3
<1>5. Left(flushing) = {}
  BY <1>1, <1>2 DEF Left
<1>6. \A w \in Windows : Left(w)' = 1 .. Len(expressions'[w])
  BY <1>1, NoneAssumption DEF Left
<1>7. ASSUME NEW w \in Windows PROVE w # flushing => Left(w)' = Left(w)
  BY <1>4, <1>6 DEF Left
<1>8. \A w \in Windows : w = flushing => Left(w)' = {}
  BY <1>3, <1>4, <1>6
<1>9. ASSUME NEW e PROVE Ahead(e)' = Ahead(e)
  <2>1. ASSUME NEW w, NEW i PROVE <<w, i>> \in Ahead(e)' <=> <<w, i>> \in Ahead(e)
    <3>1. <<w, i>> \in Ahead(e) <=> w \in Windows /\ i \in Left(w) /\ expressions[w][i] = e
      BY AheadMember
    <3>2. <<w, i>> \in Ahead(e)' <=> w \in Windows /\ i \in Left(w)' /\ expressions'[w][i] = e
      BY DEF Ahead
    <3>3. CASE w = flushing
      BY <1>1, <1>5, <1>8, <3>1, <3>2, <3>3
    <3>4. CASE w # flushing
      BY <1>4, <1>7, <3>1, <3>2, <3>4
    <3>. QED BY <3>3, <3>4
  <2>2. \A place \in Ahead(e) : place = <<place[1], place[2]>>
    BY AheadMember
  <2>3. \A place \in Ahead(e)' : place = <<place[1], place[2]>>
    BY DEF Ahead
  <2>. QED BY <2>1, <2>2, <2>3, SamePlaces
<1>. QED
  BY <1>4, <1>9 DEF Waits, Occurrences

\* unblock_expr() takes one place of the expression reached.
LEMMA UnblockAhead ==
  ASSUME FuturesInv, Unblocking, NEW r, r = Reached
  PROVE  /\ <<flushing, at>> \in Ahead(r) /\ Ahead(r)' = Ahead(r) \ {<<flushing, at>>}
         /\ \A e : e # r => Ahead(e)' = Ahead(e)
         /\ r \in DOMAIN exprs
         /\ at' \in 1 .. Len(expressions[flushing]) + 1
<1>1. /\ flushing \in Windows /\ flushing' = flushing /\ at' = at + 1 /\ UNCHANGED expressions
      /\ at <= Len(expressions[flushing]) /\ expressions[flushing] \in Seq(Nat)
  BY DEF Unblocking, FuturesInv, TypeOK
<1>2. at \in Nat \ {0} /\ Len(expressions[flushing]) \in Nat
  BY <1>1, LenProperties, NoneAssumption DEF FuturesInv, Place
<1>3. at \in Left(flushing) /\ Left(flushing)' = Left(flushing) \ {at}
  BY <1>1, <1>2 DEF Left
<1>4. \A w \in Windows : w # flushing => Left(w)' = Left(w)
  BY <1>1 DEF Left
<1>5. expressions[flushing][at] = r
  BY DEF Reached
<1>6. <<flushing, at>> \in Ahead(r)
  BY <1>1, <1>3, <1>5, AheadMember
<1>7. ASSUME NEW e, NEW w, NEW i
      PROVE  <<w, i>> \in Ahead(e)' <=> <<w, i>> \in Ahead(e) /\ ~(w = flushing /\ i = at)
  <2>1. <<w, i>> \in Ahead(e) <=> w \in Windows /\ i \in Left(w) /\ expressions[w][i] = e
    BY AheadMember
  <2>2. <<w, i>> \in Ahead(e)' <=> w \in Windows /\ i \in Left(w)' /\ expressions[w][i] = e
    BY <1>1 DEF Ahead
  <2>3. CASE w = flushing
    BY <1>1, <1>3, <2>1, <2>2, <2>3
  <2>4. CASE w # flushing
    BY <1>4, <2>1, <2>2, <2>4
  <2>. QED BY <2>3, <2>4
<1>8. /\ \A e : \A place \in Ahead(e) : place = <<place[1], place[2]>>
      /\ \A e : \A place \in Ahead(e)' : place = <<place[1], place[2]>>
  BY DEF Ahead
<1>9. ASSUME NEW e, e # r PROVE Ahead(e)' = Ahead(e)
  <2>1. <<flushing, at>> \notin Ahead(e)
    BY <1>5, <1>9, AheadMember
  <2>2. \A w, i : <<w, i>> \in Ahead(e)' <=> <<w, i>> \in Ahead(e)
    BY <1>7, <2>1
  <2>. QED BY <1>8, <2>2, SamePlaces
<1>10. Ahead(r)' = Ahead(r) \ {<<flushing, at>>}
  <2>. DEFINE U == Ahead(r) \ {<<flushing, at>>}
  <2>1. \A w, i : <<w, i>> \in Ahead(r)' <=> <<w, i>> \in U
    BY <1>7
  <2>2. (\A place \in U : place = <<place[1], place[2]>>) /\ (\A place \in Ahead(r)' : place = <<place[1], place[2]>>)
    BY <1>8
  <2>. HIDE DEF U
  <2>3. Ahead(r)' = U
    BY <2>1, <2>2, SamePlaces
  <2>. QED BY <2>3 DEF U
<1>11. r \in DOMAIN exprs
  <2>1. ToSet(expressions[flushing]) \subseteq DOMAIN exprs
    BY <1>1 DEF FuturesInv, TypeOK
  <2>2. at \in DOMAIN expressions[flushing]
    BY <1>1, <1>2, LenProperties
  <2>. QED BY <1>5, <2>1, <2>2 DEF ToSet
<1>. QED
  BY <1>1, <1>2, <1>6, <1>9, <1>10, <1>11

LEMMA UnblockCount ==
  ASSUME FuturesInv, Unblocking, NEW r, r = Reached
  PROVE  /\ IsFiniteSet(Ahead(r)') /\ Occurrences(r)' = Occurrences(r) - 1
         /\ Occurrences(r) \in Nat \ {0}
<1>1. PICK p : p = <<flushing, at>>
  OBVIOUS
<1>2. p \in Ahead(r) /\ Ahead(r)' = Ahead(r) \ {p} /\ r \in DOMAIN exprs
  BY <1>1, UnblockAhead
<1>3. IsFiniteSet(Ahead(r))
  BY <1>2 DEF FuturesInv, Reached1
<1>4. PICK S : S = Ahead(r)
  OBVIOUS
<1>5. IsFiniteSet(S) /\ p \in S /\ Ahead(r)' = S \ {p}
  BY <1>2, <1>3, <1>4
<1>6. /\ IsFiniteSet(S \ {p}) /\ Cardinality(S \ {p}) = Cardinality(S) - 1
      /\ Cardinality(S) \in Nat \ {0}
  BY <1>5, OneLess
<1>. QED
  BY <1>4, <1>5, <1>6 DEF Occurrences

\* A window that is freed or destroyed gives up its places.
LEMMA EmptiedAhead ==
  ASSUME FuturesInv, NEW w \in Windows, flushing = None, flushing' = None, expressions' = Emptied(w)
  PROVE  /\ \A e : Ahead(e)' = {place \in Ahead(e) : place[1] # w}
         /\ \A e : Waits(e)' = Waits(e) \ {w}
         /\ \A e : w \in Waits(e) <=> e \in ToSet(expressions[w])
         /\ expressions' \in [Windows -> Seq(Nat)]
         /\ \A u \in Windows : expressions'[u] = IF u = w THEN <<>> ELSE expressions[u]
<1>1. expressions' = [expressions EXCEPT ![w] = <<>>] /\ expressions \in [Windows -> Seq(Nat)]
  BY DEF Emptied, FuturesInv
<1>2. <<>> \in Seq(Nat) /\ Len(<<>>) = 0
  BY EmptySeq
<1>3. /\ expressions' \in [Windows -> Seq(Nat)]
      /\ \A u \in Windows : expressions'[u] = IF u = w THEN <<>> ELSE expressions[u]
  BY <1>1, <1>2
<1>4. \A u \in Windows : Left(u) = 1 .. Len(expressions[u]) /\ Left(u)' = 1 .. Len(expressions'[u])
  BY NoneAssumption DEF Left
<1>5. Left(w)' = {}
  BY <1>2, <1>3, <1>4
<1>6. ASSUME NEW e, NEW u, NEW i
      PROVE  <<u, i>> \in Ahead(e)' <=> <<u, i>> \in Ahead(e) /\ u # w
  <2>1. <<u, i>> \in Ahead(e) <=> u \in Windows /\ i \in Left(u) /\ expressions[u][i] = e
    BY AheadMember
  <2>2. <<u, i>> \in Ahead(e)' <=> u \in Windows /\ i \in Left(u)' /\ expressions'[u][i] = e
    BY DEF Ahead
  <2>3. CASE u = w
    BY <1>5, <2>2, <2>3
  <2>4. CASE u # w
    BY <1>3, <1>4, <2>1, <2>2, <2>4
  <2>. QED BY <2>3, <2>4
<1>7. /\ \A e : \A place \in Ahead(e) : place = <<place[1], place[2]>>
      /\ \A e : \A place \in Ahead(e)' : place = <<place[1], place[2]>>
  BY DEF Ahead
<1>8. ASSUME NEW e PROVE Ahead(e)' = {place \in Ahead(e) : place[1] # w}
  <2>. DEFINE U == {place \in Ahead(e) : place[1] # w}
  <2>1. \A u, i : <<u, i>> \in Ahead(e)' <=> <<u, i>> \in U
    <3>. TAKE u, i
    <3>1. <<u, i>>[1] = u
      OBVIOUS
    <3>. QED BY <1>6, <3>1
  <2>2. (\A place \in U : place = <<place[1], place[2]>>) /\ (\A place \in Ahead(e)' : place = <<place[1], place[2]>>)
    BY <1>7
  <2>. HIDE DEF U
  <2>3. Ahead(e)' = U
    BY <2>1, <2>2, SamePlaces
  <2>. QED BY <2>3 DEF U
<1>9. ASSUME NEW e PROVE Waits(e)' = Waits(e) \ {w}
  <2>1. Waits(e)' = {place[1] : place \in Ahead(e)'} /\ Waits(e) = {place[1] : place \in Ahead(e)}
    BY DEF Waits
  <2>. QED BY <1>8, <2>1
<1>10. ASSUME NEW e PROVE w \in Waits(e) <=> e \in ToSet(expressions[w])
  <2>1. w \in Waits(e) <=> \E i \in 1 .. Len(expressions[w]) : expressions[w][i] = e
    BY <1>4, WaitsMember
  <2>2. DOMAIN expressions[w] = 1 .. Len(expressions[w])
    BY <1>1, LenProperties
  <2>. QED BY <2>1, <2>2 DEF ToSet
<1>. QED
  BY <1>3, <1>8, <1>9, <1>10

-----------------------------------------------------------------------------
(***************************************************************************)
(* The parts of a statement keep the shape of what they work on.           *)
(***************************************************************************)

\* The windows, what was left, what was read and what was put.
Progress(x) ==
  /\ x = [win |-> x.win, wild |-> x.wild, got |-> x.got, put |-> x.put]
  /\ x.wild \in Wilds

LEMMA GuardedProgress ==
  ASSUME NEW x, Progress(x), NEW y, Progress(y), NEW leaves, NEW why \in Wilds
  PROVE  Progress(Guarded(x, leaves, why, y))
BY DEF Guarded, Progress

LEMMA OpenProgress ==
  ASSUME NEW x, Progress(x), NEW c, NEW i
  PROVE  Progress(Open(x, c, i))
BY DEF Open, Progress

LEMMA OpenSinkProgress ==
  ASSUME NEW x, Progress(x), NEW c
  PROVE  Progress(OpenSink(x, c))
<1>. DEFINE v == Opened(x.win[c.sink], c.kind, [id |-> c.sinkId, count |-> c.count])
            y == [x EXCEPT !.win[c.sink] = Ignored(v)]
<1>1. Progress(y)
  BY DEF Progress
<1>2. OpenSink(x, c) = IF c.sink = None THEN x ELSE Guarded(x, v.info[LastList(v)] = <<>>, "ignore", y)
  BY DEF OpenSink
<1>3. "ignore" \in Wilds
  BY DEF Wilds
<1>. HIDE DEF y, v
<1>. QED
  BY <1>1, <1>2, <1>3, GuardedProgress

LEMMA PostProgress ==
  ASSUME NEW x, Progress(x), NEW c, NEW i
  PROVE  Progress(Post(x, c, i))
<1>. DEFINE y == [x EXCEPT !.win[c.wins[i]] = Posted(@, c.kind)]
<1>1. Progress(y)
  BY DEF Progress
<1>2. "post" \in Wilds
  BY DEF Wilds
<1>. HIDE DEF y
<1>3. Progress(Guarded(x, PostWild(x.win[c.wins[i]], c.kind), "post", y))
  BY <1>1, <1>2, GuardedProgress
<1>. QED
  BY <1>3 DEF Post, y

LEMMA EvalProgress ==
  ASSUME NEW x, Progress(x), NEW c, NEW i
  PROVE  Progress(Eval(x, c, i))
<1>. DEFINE v == x.win[c.wins[i]]
            y == [x EXCEPT !.win[c.wins[i]] = Evaluated(@, c.kind), !.got[i] = Data(v, c.kind)]
<1>1. Progress(y)
  <2>. DEFINE W == [x.win EXCEPT ![c.wins[i]] = Evaluated(@, c.kind)]
              G == [x.got EXCEPT ![i] = Data(v, c.kind)]
  <2>. HIDE DEF v
  <2>1. x = [win |-> x.win, wild |-> x.wild, got |-> x.got, put |-> x.put] /\ x.wild \in Wilds
    BY DEF Progress
  <2>2. y = [[x EXCEPT !.win = W] EXCEPT !.got = G]
    BY <2>1
  <2>. HIDE DEF W, G, y
  <2>3. y = [win |-> W, wild |-> x.wild, got |-> G, put |-> x.put]
    BY <2>1, <2>2
  <2>. QED BY <2>1, <2>3 DEF Progress
<1>2. "operand" \in Wilds
  BY DEF Wilds
<1>. HIDE DEF y
<1>3. Progress(Guarded(x, EvalWild(v, c.kind), "operand", y))
  BY <1>1, <1>2, GuardedProgress
<1>. QED
  BY <1>3 DEF Eval, y

LEMMA PutProgress ==
  ASSUME NEW x, Progress(x), NEW c
  PROVE  Progress(PutSink(x, c))
<1>. DEFINE v == x.win[c.sink]
            y == [x EXCEPT !.win[c.sink] = PutMade(@, c.kind), !.put = NextPut(v, c.kind)]
<1>1. Progress(y)
  <2>. DEFINE W == [x.win EXCEPT ![c.sink] = PutMade(@, c.kind)]
              P == NextPut(v, c.kind)
  <2>. HIDE DEF v
  <2>1. x = [win |-> x.win, wild |-> x.wild, got |-> x.got, put |-> x.put] /\ x.wild \in Wilds
    BY DEF Progress
  <2>2. y = [[x EXCEPT !.win = W] EXCEPT !.put = P]
    BY <2>1
  <2>. HIDE DEF W, P, y
  <2>3. y = [win |-> W, wild |-> x.wild, got |-> x.got, put |-> P]
    BY <2>1, <2>2
  <2>. QED BY <2>1, <2>3 DEF Progress
<1>2. "put" \in Wilds
  BY DEF Wilds
<1>. HIDE DEF y
<1>3. Progress(Guarded(x, PutWild(v, c.kind), "put", y))
  BY <1>1, <1>2, GuardedProgress
<1>. QED
  BY <1>3 DEF PutSink, y

LEMMA EvaluationProgress ==
  ASSUME NEW W, NEW c, NEW o
  PROVE  Progress(Evaluation(W, c, o))
<1>. DEFINE x == [win |-> W, wild |-> "no", got |-> [i \in DOMAIN c.wins |-> {}], put |-> 0]
            e1 == Eval(x, c, o[1])
            e2 == Eval(e1, c, o[2])
            y == IF Len(o) = 1 THEN e1 ELSE e2
<1>1. Progress(x)
  BY DEF Progress, Wilds
<1>. HIDE DEF x
<1>2. Progress(e1)
  BY <1>1, EvalProgress
<1>. HIDE DEF e1
<1>3. Progress(e2)
  BY <1>2, EvalProgress
<1>. HIDE DEF e2
<1>4. Progress(y)
  BY <1>2, <1>3
<1>. HIDE DEF y
<1>5. Progress(PutSink(y, c))
  BY <1>4, PutProgress
<1>6. Evaluation(W, c, o) = IF c.sink = None THEN y ELSE PutSink(y, c)
  BY DEF Evaluation, Each, x, y, e1, e2
<1>. QED
  BY <1>4, <1>5, <1>6

\* What a statement may leave, and that a place of memory left is one of Wilds.
LEMMA StatementWild ==
  ASSUME FuturesInv, NEW c, Statement(c)
  PROVE  wild' \in Wilds
<1>. DEFINE x0 == [win |-> win, wild |-> "no", got |-> <<>>, put |-> 0]
            x1 == Open(x0, c, c.opened[1])
            x2 == Open(x1, c, c.opened[2])
            x == IF Len(c.opened) = 1 THEN x1 ELSE x2
            y0 == OpenSink(x, c)
            d == [i \in DOMAIN c.wins |-> i]
            y1 == Post(y0, c, d[1])
            y2 == Post(y1, c, d[2])
            y == IF Len(d) = 1 THEN y1 ELSE y2
<1>1. Progress(x0)
  BY DEF Progress, Wilds
<1>2. \/ \E o \in EvalOrders(c) : wild' = Again(Evaluation(y.win, c, o), c).wild
      \/ wild' = wild
      \/ wild' = IF y.wild # "no" THEN y.wild ELSE "ids"
  <2>. DEFINE xx == Each(LAMBDA z, i : Open(z, c, i), x0, c.opened)
              yy == Each(LAMBDA z, i : Post(z, c, i), OpenSink(xx, c), d)
  <2>1. xx = x
    BY DEF Each
  <2>2. yy = y
    BY <2>1 DEF Each
  <2>3. \/ \E o \in EvalOrders(c) : wild' = Again(Evaluation(yy.win, c, o), c).wild
        \/ wild' = wild
        \/ wild' = IF yy.wild # "no" THEN yy.wild ELSE "ids"
    <3>. HIDE DEF x0, d
    <3>. QED BY Zenon DEF Statement, xx, yy, x0, d
  <2>. HIDE DEF yy, y
  <2>. QED BY <2>2, <2>3
<1>. HIDE DEF x0, d
<1>3. Progress(x1)
  BY <1>1, OpenProgress
<1>. HIDE DEF x1
<1>4. Progress(x2)
  BY <1>3, OpenProgress
<1>. HIDE DEF x2
<1>5. Progress(x)
  BY <1>3, <1>4
<1>. HIDE DEF x
<1>6. Progress(y0)
  BY <1>5, OpenSinkProgress
<1>. HIDE DEF y0
<1>7. Progress(y1)
  BY <1>6, PostProgress
<1>. HIDE DEF y1
<1>8. Progress(y2)
  BY <1>7, PostProgress
<1>. HIDE DEF y2
<1>9. Progress(y)
  BY <1>7, <1>8
<1>. HIDE DEF y
<1>10. \A o : Progress(Again(Evaluation(y.win, c, o), c))
  <2>. TAKE o
  <2>. DEFINE z == Evaluation(y.win, c, o)
  <2>1. Progress(z)
    BY EvaluationProgress
  <2>. HIDE DEF z
  <2>2. Progress(PutSink(z, c))
    BY <2>1, PutProgress
  <2>3. Progress(Again(z, c))
    BY <2>1, <2>2 DEF Again
  <2>. QED BY <2>3 DEF z
<1>11. wild \in Wilds /\ "ids" \in Wilds
  BY DEF FuturesInv, TypeOK, Wilds
<1>. QED
  BY <1>2, <1>9, <1>10, <1>11 DEF Progress

-----------------------------------------------------------------------------
(***************************************************************************)
(* The invariant holds at the start and is kept by every step.             *)
(***************************************************************************)

\* A function on 1 .. m is a sequence of length m.
LEMMA FunctionSeq ==
  ASSUME NEW S, NEW m \in Nat, NEW f \in [1 .. m -> S]
  PROVE  f \in Seq(S) /\ Len(f) = m
<1>1. f \in Seq(S)
  BY SeqDef
<1>2. DOMAIN f = 1 .. Len(f) /\ Len(f) \in Nat
  BY <1>1, LenProperties
<1>. QED
  BY <1>1, <1>2

LEMMA StatementsCall ==
  ASSUME FuturesInv, Statements
  PROVE  \E c : /\ CallOK(c) /\ Statement(c)
                /\ \A w \in ToSet(c.wins) : life[w] = "open"
                /\ n' \in 0 .. MaxAccesses
                /\ NumberedOK(c, n, n')
<1>. DEFINE open == {w \in Windows : life[w] = "open"}
<1>1. PICK k \in Kinds, m \in 1 .. 2, s \in open \cup {None} :
        \E ws \in [1 .. m -> open], cn \in (IF k = "elem" THEN {1} ELSE Counts), o \in Orders(m) :
          /\ n + m + (IF s = None THEN 0 ELSE 1) <= MaxAccesses
          /\ Statement([kind |-> k, wins |-> ws, ids |-> [i \in 1 .. m |-> n + CHOOSE j \in 1 .. m : o[j] = i],
                        opened |-> o, count |-> cn, sink |-> s,
                        sinkId |-> IF s = None THEN 0 ELSE n + m + 1])
  BY DEF Statements
<1>2. PICK ws \in [1 .. m -> open], cn \in (IF k = "elem" THEN {1} ELSE Counts), o \in Orders(m) :
        /\ n + m + (IF s = None THEN 0 ELSE 1) <= MaxAccesses
        /\ Statement([kind |-> k, wins |-> ws, ids |-> [i \in 1 .. m |-> n + CHOOSE j \in 1 .. m : o[j] = i],
                      opened |-> o, count |-> cn, sink |-> s,
                      sinkId |-> IF s = None THEN 0 ELSE n + m + 1])
  BY <1>1
<1>. DEFINE ids == [i \in 1 .. m |-> n + CHOOSE j \in 1 .. m : o[j] = i]
            c == [kind |-> k, wins |-> ws, ids |-> ids, opened |-> o, count |-> cn, sink |-> s,
                  sinkId |-> IF s = None THEN 0 ELSE n + m + 1]
<1>3. m \in Nat /\ n \in Nat /\ n \in Int /\ MaxAccesses \in Nat
  BY BoundsAssumption, AccessAssumption DEF FuturesInv, TypeOK
<1>4. ws \in Seq(open) /\ ws \in Seq(Windows) /\ Len(ws) = m
  <2>1. ws \in Seq(open) /\ Len(ws) = m
    BY <1>3, FunctionSeq
  <2>2. open \subseteq Windows
    OBVIOUS
  <2>. HIDE DEF open
  <2>. QED BY <2>1, <2>2, SeqMonotonic
<1>5. o \in [1 .. m -> Nat] /\ o \in Seq(Nat) /\ Len(o) = m
  <2>1. o \in [1 .. m -> 1 .. m]
    BY DEF Orders
  <2>2. o \in [1 .. m -> Nat]
    BY <2>1
  <2>. QED BY <1>3, <2>2, FunctionSeq
<1>6. ids \in Seq(Int)
  <2>1. ASSUME NEW i \in 1 .. m PROVE \E j \in 1 .. m : o[j] = i
    <3>1. o \in [1 .. m -> 1 .. m] /\ \A x, y \in 1 .. m : o[x] = o[y] => x = y
      BY DEF Orders, IsInjective
    <3>2. CASE m = 1
      BY <3>1, <3>2
    <3>3. CASE m = 2
      <4>1. o[1] \in 1 .. 2 /\ o[2] \in 1 .. 2 /\ o[1] # o[2]
        BY <3>1, <3>3
      <4>2. i \in 1 .. 2 /\ 1 \in 1 .. m /\ 2 \in 1 .. m
        BY <3>3
      <4>. QED BY <4>1, <4>2
    <3>. QED BY <3>2, <3>3
  <2>2. \A i \in 1 .. m : (CHOOSE j \in 1 .. m : o[j] = i) \in 1 .. m
    BY <2>1
  <2>3. \A i \in 1 .. m : n + (CHOOSE j \in 1 .. m : o[j] = i) \in Int
    BY <1>3, <2>2
  <2>4. ids \in [1 .. m -> Int]
    BY <2>3
  <2>. HIDE DEF ids
  <2>. QED BY <1>3, <2>4, FunctionSeq
<1>. HIDE DEF ids
<1>7. cn \in Nat
  BY BoundsAssumption, AccessAssumption
<1>8. c \in Calls
  BY <1>3, <1>4, <1>5, <1>6, <1>7 DEF Calls
<1>9. c.wins = ws /\ c.opened = o /\ c.sink = s
  OBVIOUS
<1>10. Statement(c) /\ n + m + (IF s = None THEN 0 ELSE 1) <= MaxAccesses
  BY <1>2 DEF ids
<1>. HIDE DEF c
<1>11. CallOK(c)
  BY <1>4, <1>5, <1>8, <1>9 DEF CallOK
<1>12. n' = n + m + (IF s = None THEN 0 ELSE 1)
  BY <1>4, <1>9, <1>10 DEF Statement
<1>13. n' \in 0 .. MaxAccesses
  BY <1>3, <1>10, <1>12
<1>14. \A w \in ToSet(c.wins) : life[w] = "open"
  <2>1. DOMAIN ws = 1 .. m /\ \A i \in 1 .. m : ws[i] \in open
    OBVIOUS
  <2>. QED BY <1>9, <2>1 DEF ToSet
<1>15. NumberedOK(c, n, n')
  <2>1. /\ c.kind = k /\ c.count = cn /\ c.ids = ids
        /\ c.sinkId = IF s = None THEN 0 ELSE n + m + 1
    BY DEF c
  <2>2. cn # 0 /\ (k = "elem" => cn = 1)
    BY BoundsAssumption
  <2>3. n' <= MaxAccesses
    BY <1>10, <1>12
  <2>4. Len(ids) = m
    <3>1. ids \in Seq(Int) /\ DOMAIN ids = 1 .. m
      BY <1>6 DEF ids
    <3>. QED BY <1>3, <3>1
  <2>5. \A j \in 1 .. m : ids[o[j]] = n + j
    <3>. TAKE j \in 1 .. m
    <3>1. o[j] \in 1 .. m /\ \A x, y \in 1 .. m : o[x] = o[y] => x = y
      BY DEF Orders, IsInjective
    <3>2. (CHOOSE x \in 1 .. m : o[x] = o[j]) = j
      <4>1. \A x \in 1 .. m : o[x] = o[j] <=> x = j
        BY <3>1
      <4>. QED BY <4>1
    <3>3. ids[o[j]] = n + CHOOSE x \in 1 .. m : o[x] = o[j]
      BY <3>1 DEF ids
    <3>. QED BY <3>2, <3>3
  <2>6. (IF s = None THEN 0 ELSE n + m + 1) = (IF s = None THEN 0 ELSE n')
    <3>1. s # None => n' = n + m + 1
      BY <1>12
    <3>. QED BY <3>1
  <2>7. Numbered(c, n, n')
    <3>1. c.sinkId = IF s = None THEN 0 ELSE n'
      BY <2>1, <2>6
    <3>2. n' = n + Len(c.wins) + (IF c.sink = None THEN 0 ELSE 1)
      BY <1>4, <1>9, <1>12
    <3>3. Len(c.wins) = m /\ Len(c.ids) = m /\ c.opened \in Orders(m)
      BY <1>4, <1>9, <2>1, <2>4
    <3>4. \A j \in 1 .. m : c.ids[c.opened[j]] = n + j
      BY <1>9, <2>1, <2>5
    <3>. QED BY <1>3, <1>9, <3>1, <3>2, <3>3, <3>4 DEF Numbered
  <2>. QED BY <1>11, <2>1, <2>2, <2>3, <2>7 DEF NumberedOK
<1>. QED
  BY <1>10, <1>11, <1>13, <1>14, <1>15

\* Nothing about the expressions changes while they, the windows' lives and the places
\* ahead do not.
LEMMA SameExprs ==
  ASSUME FuturesInv, UNCHANGED <<exprs, life>>,
         \A e : Ahead(e)' = Ahead(e) /\ Waits(e)' = Waits(e) /\ Occurrences(e)' = Occurrences(e)
  PROVE  Counted' /\ (exprs \in Seq(Entry))' /\ (\A e \in DOMAIN exprs : Reached1(e))'
<1>1. Counted'
  BY DEF FuturesInv, TypeOK, Counted
<1>2. (\A e \in DOMAIN exprs : Reached1(e))'
  BY DEF FuturesInv, Reached1
<1>. QED
  BY <1>1, <1>2 DEF FuturesInv

\* Every entry of the manager's arrays has its fields.
LEMMA Entries ==
  ASSUME FuturesInv
  PROVE  /\ DOMAIN exprs = 1 .. Len(exprs) /\ Len(exprs) \in Nat
         /\ \A e \in DOMAIN exprs :
              /\ exprs[e] \in Entry
              /\ exprs[e] = [alive |-> exprs[e].alive, count |-> exprs[e].count,
                             run |-> exprs[e].run, ran |-> exprs[e].ran]
<1>1. DOMAIN exprs = 1 .. Len(exprs) /\ Len(exprs) \in Nat /\ \A e \in 1 .. Len(exprs) : exprs[e] \in Entry
  BY LenProperties, ElementOfSeq DEF FuturesInv
<1>. QED
  BY <1>1 DEF Entry

LEMMA InitFutures == Init => FuturesInv
<1>. SUFFICES ASSUME Init PROVE FuturesInv
  OBVIOUS
<1>1. exprs = <<>> /\ DOMAIN exprs = {} /\ Len(exprs) = 0 /\ exprs \in Seq(Entry)
  BY EmptySeq DEF Init
<1>2. expressions = [w \in Windows |-> <<>>] /\ expressions \in [Windows -> Seq(Nat)]
  BY EmptySeq DEF Init
<1>3. \A w \in Windows : ToSet(expressions[w]) = {}
  BY <1>2, EmptySeq DEF ToSet
<1>4. TypeOK
  BY <1>1, <1>2, <1>3, BoundsAssumption, AccessAssumption DEF Init, TypeOK, Counted
<1>5. Place
  BY DEF Init, Place
<1>. QED
  BY <1>1, <1>2, <1>4, <1>5 DEF FuturesInv

\* new_expr(): the expression has the next identifier.
LEMMA LeftEntries ==
  ASSUME FuturesInv, NEW c, CallOK(c), exprs' = Append(exprs, NewExpr(c)), NEW e0, e0 = Len(exprs) + 1
  PROVE  /\ exprs' \in Seq(Entry) /\ Len(exprs') = e0
         /\ \A e \in DOMAIN exprs : exprs'[e] = exprs[e]
         /\ exprs'[e0] = NewExpr(c)
         /\ DOMAIN exprs' = 1 .. e0 /\ DOMAIN exprs = 1 .. e0 - 1 /\ e0 \in Nat
<1>1. NewExpr(c) \in Entry
  BY DEF NewExpr, Entry, CallOK
<1>2. /\ exprs' \in Seq(Entry) /\ Len(exprs') = e0
      /\ \A e \in DOMAIN exprs : exprs'[e] = exprs[e]
      /\ exprs'[e0] = NewExpr(c)
  BY <1>1, AppendProperties, Entries DEF FuturesInv
<1>3. DOMAIN exprs' = 1 .. e0 /\ DOMAIN exprs = 1 .. e0 - 1 /\ e0 \in Nat
  BY <1>2, Entries, LenProperties
<1>. QED
  BY <1>2, <1>3

LEMMA StatementFutures ==
  ASSUME FuturesInv, NEW c, CallOK(c), Statement(c), \A w \in ToSet(c.wins) : life[w] = "open",
         n' \in 0 .. MaxAccesses
  PROVE  FuturesInv'
<1>1. /\ flushing = None /\ UNCHANGED <<comp, life, flushing, at>> /\ sane' \in BOOLEAN
      /\ flushing' = None
  BY DEF Statement, Quiet, FuturesInv, TypeOK
<1>2. wild' \in Wilds
  BY StatementWild
<1>3. CASE UNCHANGED <<exprs, expressions>>
  <2>1. \A w \in Windows : Left(w)' = Left(w)
    BY <1>1, <1>3 DEF Left
  <2>2. Counted' /\ (exprs \in Seq(Entry))' /\ (\A e \in DOMAIN exprs : Reached1(e))'
    BY <1>1, <1>3, <2>1, SameAhead, SameExprs
  <2>3. Place'
    BY <1>1 DEF Place, FuturesInv
  <2>4. TypeOK'
    BY <1>1, <1>2, <1>3, <2>2 DEF FuturesInv, TypeOK, Wilds
  <2>. QED BY <1>3, <2>2, <2>3, <2>4 DEF FuturesInv
<1>4. CASE /\ Len(exprs) < EXPR_COUNT
           /\ exprs' = Append(exprs, NewExpr(c)) /\ expressions' = Blocked(c)
  <2>. DEFINE new == Len(exprs) + 1
  <2>1. PICK e0 : e0 = new
    OBVIOUS
  <2>2. /\ IsFiniteSet(Ahead(e0)') /\ Occurrences(e0)' = Len(c.wins)
        /\ Waits(e0)' = ToSet(c.wins)
        /\ \A e \in DOMAIN exprs : Ahead(e)' = Ahead(e)
        /\ expressions' \in [Windows -> Seq(Nat)]
        /\ \A w \in Windows : \A i \in 1 .. Len(expressions'[w]) :
             \/ i \in 1 .. Len(expressions[w]) /\ expressions'[w][i] = expressions[w][i]
             \/ w \in ToSet(c.wins) /\ expressions'[w][i] = e0
    BY <1>1, <1>4, <2>1, BlockedAhead
  <2>3. NewExpr(c).alive = TRUE /\ NewExpr(c).ran = FALSE
        /\ NewExpr(c).count = Len(c.wins) /\ NewExpr(c).run = c
    BY DEF NewExpr
  <2>4. /\ exprs' \in Seq(Entry) /\ Len(exprs') = e0
        /\ \A e \in DOMAIN exprs : exprs'[e] = exprs[e]
        /\ exprs'[e0] = NewExpr(c)
    BY <1>4, <2>1, LeftEntries
  <2>5. DOMAIN exprs' = 1 .. e0 /\ DOMAIN exprs = 1 .. e0 - 1 /\ e0 \in Nat
    BY <1>4, <2>1, LeftEntries
  <2>6. \A e \in DOMAIN exprs' : e \in DOMAIN exprs \/ e = e0
    BY <2>5
  <2>7. \A e \in DOMAIN exprs : Waits(e)' = Waits(e) /\ Occurrences(e)' = Occurrences(e)
    BY <2>2 DEF Waits, Occurrences
  <2>8. Counted'
    <3>1. ASSUME NEW e \in DOMAIN exprs', exprs'[e].alive
          PROVE  /\ exprs'[e].count >= 1 /\ exprs'[e].count >= Occurrences(e)'
                 /\ (\A w \in ToSet(exprs'[e].run.wins) : life'[w] = "open") => exprs'[e].count = Occurrences(e)'
      <4>1. CASE e \in DOMAIN exprs
        BY <1>1, <2>4, <2>7, <3>1, <4>1 DEF FuturesInv, TypeOK, Counted
      <4>2. CASE e = e0
        <5>1. exprs'[e0].count = Occurrences(e0)' /\ Occurrences(e0)' \in {1, 2}
          BY <2>2, <2>3, <2>4 DEF CallOK
        <5>. QED BY <4>2, <5>1
      <4>. QED BY <2>6, <4>1, <4>2
    <3>. QED BY <3>1 DEF Counted
  <2>9. (\A e \in DOMAIN exprs : Reached1(e))'
    <3>1. ASSUME NEW e \in DOMAIN exprs' PROVE Reached1(e)'
      <4>1. CASE e \in DOMAIN exprs
        BY <2>2, <2>4, <2>7, <4>1 DEF FuturesInv, Reached1
      <4>2. CASE e = e0
        BY <2>2, <2>3, <2>4, <4>2 DEF Reached1
      <4>. QED BY <2>6, <4>1, <4>2
    <3>. QED BY <3>1
  <2>10. \A w \in Windows : /\ ToSet(expressions'[w]) \subseteq DOMAIN exprs'
                            /\ life'[w] # "open" => expressions'[w] = <<>>
    <3>. TAKE w \in Windows
    <3>1. /\ expressions[w] \in Seq(Nat) /\ expressions'[w] \in Seq(Nat)
          /\ DOMAIN expressions[w] = 1 .. Len(expressions[w])
          /\ DOMAIN expressions'[w] = 1 .. Len(expressions'[w])
          /\ Len(expressions'[w]) \in Nat
      BY <2>2, LenProperties DEF FuturesInv
    <3>2. /\ \A i \in 1 .. Len(expressions[w]) : expressions[w][i] \in DOMAIN exprs
          /\ life[w] # "open" => expressions[w] = <<>>
      BY <3>1 DEF FuturesInv, TypeOK, ToSet
    <3>3. \A i \in 1 .. Len(expressions'[w]) : expressions'[w][i] \in DOMAIN exprs'
      <4>. TAKE i \in 1 .. Len(expressions'[w])
      <4>1. \/ i \in 1 .. Len(expressions[w]) /\ expressions'[w][i] = expressions[w][i]
            \/ expressions'[w][i] = e0
        BY <2>2
      <4>2. DOMAIN exprs \subseteq DOMAIN exprs' /\ e0 \in DOMAIN exprs'
        <5>1. \A k \in 1 .. e0 - 1 : k \in 1 .. e0
          BY <2>5
        <5>2. e0 \in 1 .. e0
          BY <2>1, <2>5, Entries
        <5>. QED BY <2>5, <5>1, <5>2
      <4>. QED BY <3>2, <4>1, <4>2
    <3>4. ASSUME life'[w] # "open" PROVE expressions'[w] = <<>>
      <4>1. w \notin ToSet(c.wins) /\ Len(expressions[w]) = 0
        BY <1>1, <3>2, <3>4, EmptySeq
      <4>2. Len(expressions'[w]) = 0
        <5>1. \A i \in 1 .. Len(expressions'[w]) : FALSE
          BY <2>2, <4>1
        <5>. QED BY <3>1, <5>1
      <4>. QED BY <3>1, <4>2, EmptySeq
    <3>. QED BY <3>1, <3>3, <3>4 DEF ToSet
  <2>11. TypeOK'
    <3>1. Len(exprs') <= EXPR_COUNT
      BY <1>4, <2>1, <2>4, Entries, BoundsAssumption, AccessAssumption
    <3>2. \A e \in DOMAIN exprs' : exprs'[e].alive \in BOOLEAN /\ exprs'[e].count \in 0 .. 2
      <4>1. \A e \in 1 .. Len(exprs') : exprs'[e] \in Entry
        BY <2>4, ElementOfSeq
      <4>. QED BY <2>4, <2>5, <4>1 DEF Entry
    <3>. QED BY <1>1, <1>2, <2>8, <2>10, <3>1, <3>2 DEF FuturesInv, TypeOK, Wilds
  <2>12. Place'
    BY <1>1 DEF Place, FuturesInv
  <2>. QED BY <2>2, <2>4, <2>9, <2>11, <2>12 DEF FuturesInv
<1>. QED
  BY <1>3, <1>4 DEF Statement

\* One entry of the manager's arrays is replaced.
LEMMA EntrySet ==
  ASSUME FuturesInv, NEW r \in DOMAIN exprs, NEW x \in Entry, exprs' = [exprs EXCEPT ![r] = x]
  PROVE  /\ exprs' \in Seq(Entry) /\ DOMAIN exprs' = DOMAIN exprs /\ Len(exprs') = Len(exprs)
         /\ exprs'[r] = x /\ \A e \in DOMAIN exprs : e # r => exprs'[e] = exprs[e]
<1>1. DOMAIN exprs = 1 .. Len(exprs) /\ Len(exprs) \in Nat /\ \A e \in DOMAIN exprs : exprs[e] \in Entry
  BY Entries
<1>2. exprs \in [1 .. Len(exprs) -> Entry]
  BY <1>1, LenProperties, ElementOfSeq DEF FuturesInv
<1>3. exprs' \in [1 .. Len(exprs) -> Entry]
  BY <1>2
<1>4. exprs' \in Seq(Entry) /\ Len(exprs') = Len(exprs)
  BY <1>1, <1>3, FunctionSeq
<1>. QED
  BY <1>1, <1>2, <1>3, <1>4

\* unblock_expr() of an expression that stays: what it does to the manager's arrays.
LEMMA UnblockEntries ==
  ASSUME FuturesInv, Unblock, NEW r, r = Reached
  PROVE  /\ exprs' \in Seq(Entry) /\ DOMAIN exprs' = DOMAIN exprs /\ Len(exprs') = Len(exprs)
         /\ \A e \in DOMAIN exprs : /\ e # r \/ ~exprs[e].alive => exprs'[e] = exprs[e]
                                    /\ exprs'[e].alive = exprs[e].alive /\ exprs'[e].ran = exprs[e].ran
                                    /\ exprs'[e].run = exprs[e].run
         /\ exprs[r].alive => exprs[r].count = 2 /\ exprs'[r].count = 1
<1>1. r \in DOMAIN exprs
  BY UnblockAhead DEF Unblock
<1>2. CASE ~exprs[r].alive
  BY <1>2 DEF Unblock, FuturesInv
<1>3. CASE exprs[r].alive
  <2>. DEFINE x == [alive |-> exprs[r].alive, count |-> exprs[r].count - 1, run |-> exprs[r].run, ran |-> exprs[r].ran]
  <2>1. /\ exprs[r] \in Entry
        /\ exprs[r] = [alive |-> exprs[r].alive, count |-> exprs[r].count, run |-> exprs[r].run, ran |-> exprs[r].ran]
    BY <1>1, Entries
  <2>2. exprs[r].count = 2
    BY <1>3, <2>1 DEF Unblock, LastOfIts, Entry
  <2>3. x \in Entry
    BY <2>1, <2>2 DEF Entry
  <2>4. exprs' = [exprs EXCEPT ![r] = x]
    <3>1. exprs' = [exprs EXCEPT ![r] = [exprs[r] EXCEPT !.count = @ - 1]]
      BY <1>3 DEF Unblock
    <3>2. [exprs[r] EXCEPT !.count = @ - 1] = x
      BY <2>1
    <3>. QED BY <3>1, <3>2
  <2>5. x.alive = exprs[r].alive /\ x.count = 1 /\ x.run = exprs[r].run /\ x.ran = exprs[r].ran
    BY <2>2
  <2>. HIDE DEF x
  <2>6. /\ exprs' \in Seq(Entry) /\ DOMAIN exprs' = DOMAIN exprs /\ Len(exprs') = Len(exprs)
        /\ exprs'[r] = x /\ \A e \in DOMAIN exprs : e # r => exprs'[e] = exprs[e]
    BY <1>1, <2>3, <2>4, EntrySet
  <2>. QED BY <1>3, <2>2, <2>5, <2>6
<1>. QED
  BY <1>2, <1>3

\* The last unblock_expr() of an expression is its only one left, and makes it done.
LEMMA RunEntries ==
  ASSUME FuturesInv, RunExpr, NEW r, r = Reached
  PROVE  /\ exprs' \in Seq(Entry) /\ DOMAIN exprs' = DOMAIN exprs /\ Len(exprs') = Len(exprs)
         /\ \A e \in DOMAIN exprs : e # r => exprs'[e] = exprs[e]
         /\ exprs[r].alive /\ ~exprs[r].ran /\ exprs[r].count = 1
         /\ ~exprs'[r].alive /\ exprs'[r].ran /\ exprs'[r].run = exprs[r].run
<1>1. r \in DOMAIN exprs
  BY UnblockAhead DEF RunExpr
<1>2. /\ exprs[r] \in Entry
      /\ exprs[r] = [alive |-> exprs[r].alive, count |-> exprs[r].count, run |-> exprs[r].run, ran |-> exprs[r].ran]
  BY <1>1, Entries
<1>3. exprs[r].alive /\ exprs[r].count <= 1 /\ exprs[r].count >= 1 /\ ~exprs[r].ran
  BY <1>1 DEF RunExpr, LastOfIts, FuturesInv, TypeOK, Counted, Reached1
<1>4. exprs[r].count = 1
  BY <1>2, <1>3 DEF Entry
<1>. DEFINE x == [alive |-> FALSE, count |-> 0, run |-> exprs[r].run, ran |-> TRUE]
<1>5. x \in Entry
  BY <1>2 DEF Entry
<1>6. exprs' = [exprs EXCEPT ![r] = x]
  <2>1. exprs' = [exprs EXCEPT ![r] = [[[exprs[r] EXCEPT !.count = 0] EXCEPT !.alive = FALSE] EXCEPT !.ran = TRUE]]
    BY <1>1 DEF RunExpr
  <2>2. [[[exprs[r] EXCEPT !.count = 0] EXCEPT !.alive = FALSE] EXCEPT !.ran = TRUE] = x
    <3>1. PICK y, a, k, f, g, p, q :
            /\ y = exprs[r] /\ a = exprs[r].alive /\ k = exprs[r].count /\ f = exprs[r].run /\ g = exprs[r].ran
            /\ p = FALSE /\ q = TRUE
      BY Zenon
    <3>2. y = [alive |-> a, count |-> k, run |-> f, ran |-> g]
      BY <1>2, <3>1, Zenon
    <3>3. [y EXCEPT !.count = 0] = [alive |-> a, count |-> 0, run |-> f, ran |-> g]
      BY <3>2
    <3>4. [[alive |-> a, count |-> 0, run |-> f, ran |-> g] EXCEPT !.alive = p]
            = [alive |-> p, count |-> 0, run |-> f, ran |-> g]
      OBVIOUS
    <3>5. [[alive |-> p, count |-> 0, run |-> f, ran |-> g] EXCEPT !.ran = q]
            = [alive |-> p, count |-> 0, run |-> f, ran |-> q]
      OBVIOUS
    <3>. QED BY <3>1, <3>3, <3>4, <3>5, Zenon
  <2>. HIDE DEF x
  <2>. QED BY <2>1, <2>2, Zenon
<1>7. ~x.alive /\ x.ran /\ x.run = exprs[r].run
  OBVIOUS
<1>. HIDE DEF x
<1>8. /\ exprs' \in Seq(Entry) /\ DOMAIN exprs' = DOMAIN exprs /\ Len(exprs') = Len(exprs)
      /\ exprs'[r] = x /\ \A e \in DOMAIN exprs : e # r => exprs'[e] = exprs[e]
  BY <1>1, <1>5, <1>6, EntrySet
<1>. QED
  BY <1>3, <1>4, <1>7, <1>8

LEMMA FlushFutures ==
  ASSUME FuturesInv, NEW w \in Windows, Flush(w)
  PROVE  FuturesInv'
<1>1. /\ UNCHANGED <<comp, life, expressions, exprs, n, wild>> /\ flushing' = w /\ at' = 1 /\ sane' \in BOOLEAN
  BY DEF Flush, FuturesInv, TypeOK
<1>2. Counted' /\ (exprs \in Seq(Entry))' /\ (\A e \in DOMAIN exprs : Reached1(e))'
  BY <1>1, FlushAhead, SameExprs
<1>3. TypeOK'
  BY <1>1, <1>2 DEF FuturesInv, TypeOK
<1>4. Place'
  <2>1. Len(expressions[w]) \in Nat
    BY LenProperties DEF FuturesInv
  <2>. QED BY <1>1, <2>1, NoneAssumption DEF Place
<1>. QED
  BY <1>1, <1>2, <1>3, <1>4 DEF FuturesInv

LEMMA UnblockFutures ==
  ASSUME FuturesInv, Unblock
  PROVE  FuturesInv'
<1>1. PICK r : r = Reached
  OBVIOUS
<1>2. /\ flushing # None /\ UNCHANGED <<comp, life, expressions, flushing, n, sane, wild>> /\ Unblocking
  BY DEF Unblock, Unblocking
<1>3. /\ exprs' \in Seq(Entry) /\ DOMAIN exprs' = DOMAIN exprs /\ Len(exprs') = Len(exprs)
      /\ \A e \in DOMAIN exprs : /\ e # r \/ ~exprs[e].alive => exprs'[e] = exprs[e]
                                 /\ exprs'[e].alive = exprs[e].alive /\ exprs'[e].ran = exprs[e].ran
                                 /\ exprs'[e].run = exprs[e].run
      /\ exprs[r].alive => exprs[r].count = 2 /\ exprs'[r].count = 1
  BY <1>1, UnblockEntries
<1>4. /\ <<flushing, at>> \in Ahead(r) /\ Ahead(r)' = Ahead(r) \ {<<flushing, at>>}
      /\ \A e : e # r => Ahead(e)' = Ahead(e)
      /\ r \in DOMAIN exprs
      /\ at' \in 1 .. Len(expressions[flushing]) + 1
  BY <1>1, <1>2, UnblockAhead
<1>5. IsFiniteSet(Ahead(r)') /\ Occurrences(r)' = Occurrences(r) - 1 /\ Occurrences(r) \in Nat \ {0}
  BY <1>1, <1>2, UnblockCount
<1>6. \A e : e # r => Waits(e)' = Waits(e) /\ Occurrences(e)' = Occurrences(e)
  BY <1>4 DEF Waits, Occurrences
<1>7. Waits(r)' \subseteq Waits(r)
  BY <1>4 DEF Waits
<1>8. Counted'
  <2>1. ASSUME NEW e \in DOMAIN exprs', exprs'[e].alive
        PROVE  /\ exprs'[e].count >= 1 /\ exprs'[e].count >= Occurrences(e)'
               /\ (\A w \in ToSet(exprs'[e].run.wins) : life'[w] = "open") => exprs'[e].count = Occurrences(e)'
    <3>1. /\ exprs[e].alive /\ exprs[e].count >= 1 /\ exprs[e].count >= Occurrences(e)
          /\ (\A w \in ToSet(exprs'[e].run.wins) : life'[w] = "open") => exprs[e].count = Occurrences(e)
      BY <1>2, <1>3, <2>1 DEF FuturesInv, TypeOK, Counted
    <3>2. CASE e # r
      BY <1>3, <1>6, <3>1, <3>2
    <3>3. CASE e = r
      <4>1. /\ exprs[r].count = 2 /\ exprs'[r].count = 1 /\ exprs[r].count >= Occurrences(r)
            /\ (\A w \in ToSet(exprs'[r].run.wins) : life'[w] = "open") => exprs[r].count = Occurrences(r)
        BY <1>3, <3>1, <3>3
      <4>2. /\ exprs'[r].count >= 1 /\ exprs'[r].count >= Occurrences(r)'
            /\ (\A w \in ToSet(exprs'[r].run.wins) : life'[w] = "open") => exprs'[r].count = Occurrences(r)'
        BY <1>5, <4>1
      <4>. QED BY <3>3, <4>2
    <3>. QED BY <3>2, <3>3
  <2>. QED BY <2>1 DEF Counted
<1>9. (\A e \in DOMAIN exprs : Reached1(e))'
  <2>1. ASSUME NEW e \in DOMAIN exprs' PROVE Reached1(e)'
    <3>1. Reached1(e) /\ exprs'[e].run = exprs[e].run /\ exprs'[e].ran = exprs[e].ran /\ exprs'[e].alive = exprs[e].alive
      BY <1>3, <2>1 DEF FuturesInv
    <3>2. IsFiniteSet(Ahead(e)') /\ Waits(e)' \subseteq Waits(e)
      <4>1. CASE e = r
        BY <1>5, <1>7, <4>1
      <4>2. CASE e # r
        BY <1>4, <1>6, <3>1, <4>2 DEF Reached1
      <4>. QED BY <4>1, <4>2
    <3>. QED BY <3>1, <3>2 DEF Reached1
  <2>. QED BY <2>1
<1>10. TypeOK'
  <2>1. \A e \in DOMAIN exprs' : exprs'[e].alive \in BOOLEAN /\ exprs'[e].count \in 0 .. 2
    <3>1. DOMAIN exprs' = 1 .. Len(exprs') /\ \A e \in 1 .. Len(exprs') : exprs'[e] \in Entry
      BY <1>3, LenProperties, ElementOfSeq
    <3>. QED BY <3>1 DEF Entry
  <2>. QED BY <1>2, <1>3, <1>8, <2>1 DEF FuturesInv, TypeOK
<1>11. Place'
  BY <1>2, <1>4 DEF Place
<1>. QED
  BY <1>2, <1>3, <1>9, <1>10, <1>11 DEF FuturesInv

LEMMA RunExprFutures ==
  ASSUME FuturesInv, RunExpr
  PROVE  FuturesInv'
<1>1. PICK r : r = Reached
  OBVIOUS
<1>2. /\ flushing # None /\ UNCHANGED <<comp, life, expressions, flushing, n, sane>> /\ Unblocking
  BY DEF RunExpr, Unblocking
<1>3. /\ exprs' \in Seq(Entry) /\ DOMAIN exprs' = DOMAIN exprs /\ Len(exprs') = Len(exprs)
      /\ \A e \in DOMAIN exprs : e # r => exprs'[e] = exprs[e]
      /\ ~exprs'[r].alive /\ exprs'[r].ran /\ exprs'[r].run = exprs[r].run
  BY <1>1, RunEntries
<1>4. /\ <<flushing, at>> \in Ahead(r) /\ Ahead(r)' = Ahead(r) \ {<<flushing, at>>}
      /\ \A e : e # r => Ahead(e)' = Ahead(e)
      /\ r \in DOMAIN exprs
      /\ at' \in 1 .. Len(expressions[flushing]) + 1
  BY <1>1, <1>2, UnblockAhead
<1>5. IsFiniteSet(Ahead(r)')
  BY <1>1, <1>2, UnblockCount
<1>6. \A e : e # r => Waits(e)' = Waits(e) /\ Occurrences(e)' = Occurrences(e)
  BY <1>4 DEF Waits, Occurrences
<1>7. Waits(r)' \subseteq Waits(r)
  BY <1>4 DEF Waits
<1>8. Counted'
  BY <1>2, <1>3, <1>6 DEF FuturesInv, TypeOK, Counted
<1>9. (\A e \in DOMAIN exprs : Reached1(e))'
  <2>1. ASSUME NEW e \in DOMAIN exprs' PROVE Reached1(e)'
    <3>1. CASE e = r
      BY <1>3, <1>4, <1>5, <1>7, <3>1 DEF FuturesInv, Reached1
    <3>2. CASE e # r
      BY <1>3, <1>4, <1>6, <2>1, <3>2 DEF FuturesInv, Reached1
    <3>. QED BY <3>1, <3>2
  <2>. QED BY <2>1
<1>10. wild' \in Wilds
  <2>1. PICK o \in EvalOrders(exprs[Reached].run) : wild' = Evaluation(win, exprs[Reached].run, o).wild
    BY DEF RunExpr
  <2>2. Progress(Evaluation(win, exprs[Reached].run, o))
    BY EvaluationProgress
  <2>. QED BY <2>1, <2>2 DEF Progress
<1>11. TypeOK'
  <2>1. \A e \in DOMAIN exprs' : exprs'[e].alive \in BOOLEAN /\ exprs'[e].count \in 0 .. 2
    <3>1. DOMAIN exprs' = 1 .. Len(exprs') /\ \A e \in 1 .. Len(exprs') : exprs'[e] \in Entry
      BY <1>3, LenProperties, ElementOfSeq
    <3>. QED BY <3>1 DEF Entry
  <2>. QED BY <1>2, <1>3, <1>8, <1>10, <2>1 DEF FuturesInv, TypeOK, Wilds
<1>12. Place'
  BY <1>2, <1>4 DEF Place
<1>. QED
  BY <1>2, <1>3, <1>9, <1>11, <1>12 DEF FuturesInv

LEMMA EndFlushFutures ==
  ASSUME FuturesInv, EndFlush
  PROVE  FuturesInv'
<1>1. UNCHANGED <<comp, life, exprs, n, sane, wild>> /\ flushing' = None /\ at' = 0
  BY DEF EndFlush
<1>2. /\ \A e : Ahead(e)' = Ahead(e) /\ Waits(e)' = Waits(e) /\ Occurrences(e)' = Occurrences(e)
      /\ expressions' \in [Windows -> Seq(Nat)]
      /\ \A w \in Windows : expressions'[w] = IF w = flushing THEN <<>> ELSE expressions[w]
  BY EndAhead
<1>3. Counted' /\ (exprs \in Seq(Entry))' /\ (\A e \in DOMAIN exprs : Reached1(e))'
  BY <1>1, <1>2, SameExprs
<1>4. \A w \in Windows : /\ ToSet(expressions'[w]) \subseteq DOMAIN exprs'
                         /\ life'[w] # "open" => expressions'[w] = <<>>
  <2>1. ToSet(<<>>) = {}
    BY EmptySeq DEF ToSet
  <2>. QED BY <1>1, <1>2, <2>1 DEF FuturesInv, TypeOK
<1>5. TypeOK'
  BY <1>1, <1>3, <1>4 DEF FuturesInv, TypeOK
<1>6. Place'
  BY <1>1 DEF Place
<1>. QED
  BY <1>2, <1>3, <1>5, <1>6 DEF FuturesInv

\* A window is given up: what is ahead of its flush is not any more, and an expression
\* that counted it is never run, as its count stays above what is left.
LEMMA GivenUpFutures ==
  ASSUME FuturesInv, NEW w \in Windows, NEW l \in {"freed", "gone"},
         flushing = None, flushing' = None, at' = at, expressions' = Emptied(w),
         life' = [life EXCEPT ![w] = l], UNCHANGED <<comp, n, wild>>, sane' \in BOOLEAN,
         exprs' \in Seq(Entry), DOMAIN exprs' = DOMAIN exprs, Len(exprs') = Len(exprs),
         \A e \in DOMAIN exprs : /\ exprs'[e].count = exprs[e].count /\ exprs'[e].run = exprs[e].run
                                 /\ exprs'[e].ran = exprs[e].ran /\ (exprs'[e].alive => exprs[e].alive)
  PROVE  /\ FuturesInv'
         /\ \A e \in DOMAIN exprs : /\ w \notin Waits(e) => Ahead(e)' = Ahead(e)
                                    /\ w \in Waits(e) => Occurrences(e)' < Occurrences(e)
                                    /\ Occurrences(e)' <= Occurrences(e)
                                    /\ Occurrences(e) \in Nat /\ Occurrences(e)' \in Nat
<1>1. /\ \A e : Ahead(e)' = {place \in Ahead(e) : place[1] # w}
      /\ \A e : Waits(e)' = Waits(e) \ {w}
      /\ \A e : w \in Waits(e) <=> e \in ToSet(expressions[w])
      /\ expressions' \in [Windows -> Seq(Nat)]
      /\ \A u \in Windows : expressions'[u] = IF u = w THEN <<>> ELSE expressions[u]
  BY EmptiedAhead
<1>2. ASSUME NEW e \in DOMAIN exprs
      PROVE  /\ w \notin Waits(e) => Ahead(e)' = Ahead(e)
             /\ w \in Waits(e) => Occurrences(e)' < Occurrences(e)
             /\ Occurrences(e)' <= Occurrences(e) /\ IsFiniteSet(Ahead(e)')
             /\ Occurrences(e) \in Nat /\ Occurrences(e)' \in Nat
  <2>1. PICK S, U : S = Ahead(e) /\ U = {place \in S : place[1] # w}
    OBVIOUS
  <2>2. IsFiniteSet(S) /\ U \subseteq S /\ Ahead(e)' = U /\ Ahead(e) = S
    BY <1>1, <1>2, <2>1 DEF FuturesInv, Reached1
  <2>3. /\ IsFiniteSet(U) /\ Cardinality(U) <= Cardinality(S)
        /\ U # S => Cardinality(U) < Cardinality(S)
        /\ Cardinality(U) \in Nat /\ Cardinality(S) \in Nat
    BY <2>2, Fewer
  <2>4. w \in Waits(e) <=> U # S
    BY <2>1, <2>2 DEF Waits
  <2>. QED BY <2>2, <2>3, <2>4 DEF Occurrences
<1>3. \A u \in Windows : life'[u] = IF u = w THEN l ELSE life[u]
  BY DEF FuturesInv, TypeOK
<1>4. Counted'
  <2>1. ASSUME NEW e \in DOMAIN exprs', exprs'[e].alive
        PROVE  /\ exprs'[e].count >= 1 /\ exprs'[e].count >= Occurrences(e)'
               /\ (\A u \in ToSet(exprs'[e].run.wins) : life'[u] = "open") => exprs'[e].count = Occurrences(e)'
    <3>1. /\ exprs[e].count >= 1 /\ exprs[e].count >= Occurrences(e) /\ exprs[e].count \in 0 .. 2
          /\ (\A u \in ToSet(exprs[e].run.wins) : life[u] = "open") => exprs[e].count = Occurrences(e)
          /\ Waits(e) \subseteq ToSet(exprs[e].run.wins)
      BY <2>1 DEF FuturesInv, TypeOK, Counted, Reached1
    <3>2. e \in DOMAIN exprs /\ exprs'[e].count = exprs[e].count /\ exprs'[e].run = exprs[e].run
      BY <2>1
    <3>3. exprs'[e].count >= 1 /\ exprs'[e].count >= Occurrences(e)'
      BY <1>2, <3>1, <3>2
    <3>4. ASSUME \A u \in ToSet(exprs'[e].run.wins) : life'[u] = "open"
          PROVE  exprs'[e].count = Occurrences(e)'
      <4>1. life'[w] # "open"
        BY <1>3
      <4>2. w \notin ToSet(exprs'[e].run.wins)
        BY <3>4, <4>1
      <4>3. ToSet(exprs[e].run.wins) \subseteq Windows
        <5>1. exprs[e].run.wins \in Seq(Windows)
          BY <3>2, Entries DEF Entry, Calls, CallOK
        <5>. QED BY <5>1, LenProperties, ElementOfSeq DEF ToSet
      <4>4. \A u \in ToSet(exprs[e].run.wins) : life[u] = "open"
        BY <1>3, <3>2, <3>4, <4>2, <4>3
      <4>5. Ahead(e)' = Ahead(e)
        BY <1>2, <3>1, <3>2, <4>2
      <4>. QED BY <3>1, <3>2, <4>4, <4>5 DEF Occurrences
    <3>. QED BY <3>3, <3>4
  <2>. QED BY <2>1 DEF Counted
<1>5. (\A e \in DOMAIN exprs : Reached1(e))'
  <2>1. ASSUME NEW e \in DOMAIN exprs' PROVE Reached1(e)'
    <3>1. Reached1(e) /\ e \in DOMAIN exprs
      BY <2>1 DEF FuturesInv
    <3>2. Waits(e)' \subseteq Waits(e)
      BY <1>1
    <3>. QED BY <1>2, <3>1, <3>2 DEF Reached1
  <2>. QED BY <2>1
<1>6. TypeOK'
  <2>1. \A e \in DOMAIN exprs' : exprs'[e].alive \in BOOLEAN /\ exprs'[e].count \in 0 .. 2
    <3>1. DOMAIN exprs' = 1 .. Len(exprs') /\ \A e \in 1 .. Len(exprs') : exprs'[e] \in Entry
      BY LenProperties, ElementOfSeq
    <3>. QED BY <3>1 DEF Entry
  <2>2. \A u \in Windows : /\ ToSet(expressions'[u]) \subseteq DOMAIN exprs'
                           /\ life'[u] # "open" => expressions'[u] = <<>>
    <3>1. ToSet(<<>>) = {}
      BY EmptySeq DEF ToSet
    <3>. QED BY <1>1, <1>3, <3>1 DEF FuturesInv, TypeOK
  <2>3. life' \in [Windows -> {"open", "freed", "gone"}]
    BY DEF FuturesInv, TypeOK
  <2>. QED BY <1>4, <2>1, <2>2, <2>3 DEF FuturesInv, TypeOK
<1>7. Place'
  BY DEF Place, FuturesInv
<1>. QED
  BY <1>1, <1>2, <1>5, <1>6, <1>7 DEF FuturesInv

LEMMA WFreeFutures ==
  ASSUME FuturesInv, NEW w \in Windows, WFree(w)
  PROVE  /\ FuturesInv'
         /\ \A e \in DOMAIN exprs : /\ w \notin Waits(e) => Ahead(e)' = Ahead(e)
                                    /\ w \in Waits(e) => Occurrences(e)' < Occurrences(e)
                                    /\ Occurrences(e)' <= Occurrences(e)
                                    /\ Occurrences(e) \in Nat /\ Occurrences(e)' \in Nat
<1>1. /\ flushing = None /\ flushing' = None /\ at' = at /\ expressions' = Emptied(w)
      /\ life' = [life EXCEPT ![w] = "freed"] /\ UNCHANGED <<comp, n, wild, exprs>> /\ sane' \in BOOLEAN
  BY DEF WFree, Quiet, FuturesInv, TypeOK
<1>2. exprs' \in Seq(Entry)
  BY <1>1 DEF FuturesInv
<1>. QED
  BY <1>1, <1>2, GivenUpFutures

\* forget_all()
LEMMA DestroyEntries ==
  ASSUME FuturesInv, NEW w \in Windows, Destroy(w)
  PROVE  /\ exprs' \in Seq(Entry) /\ DOMAIN exprs' = DOMAIN exprs /\ Len(exprs') = Len(exprs)
         /\ \A e \in DOMAIN exprs :
              /\ exprs'[e].count = exprs[e].count /\ exprs'[e].run = exprs[e].run
              /\ exprs'[e].ran = exprs[e].ran /\ (exprs'[e].alive => exprs[e].alive)
              /\ exprs'[e].alive <=> exprs[e].alive /\ e \notin ToSet(expressions[w])
<1>. DEFINE y(e) == [alive |-> FALSE, count |-> exprs[e].count, run |-> exprs[e].run, ran |-> exprs[e].ran]
<1>1. /\ DOMAIN exprs = 1 .. Len(exprs) /\ Len(exprs) \in Nat
      /\ \A e \in DOMAIN exprs :
              /\ exprs[e] \in Entry
              /\ exprs[e] = [alive |-> exprs[e].alive, count |-> exprs[e].count,
                             run |-> exprs[e].run, ran |-> exprs[e].ran]
  BY Entries
<1>2. ASSUME NEW e \in DOMAIN exprs PROVE [exprs[e] EXCEPT !.alive = FALSE] = y(e)
  <2>1. PICK x, k, f, g, a, p : /\ x = exprs[e] /\ a = exprs[e].alive /\ k = exprs[e].count
                                /\ f = exprs[e].run /\ g = exprs[e].ran /\ p = FALSE
    BY Zenon
  <2>2. x = [alive |-> a, count |-> k, run |-> f, ran |-> g]
    BY <1>1, <1>2, <2>1, Zenon
  <2>3. [x EXCEPT !.alive = p] = [alive |-> p, count |-> k, run |-> f, ran |-> g]
    BY <2>2
  <2>. QED BY <2>1, <2>3, Zenon
<1>3. \A e \in DOMAIN exprs : y(e) \in Entry
  BY <1>1 DEF Entry
<1>4. exprs' = [e \in DOMAIN exprs |-> IF e \in ToSet(expressions[w]) THEN y(e) ELSE exprs[e]]
  BY <1>2, Zenon DEF Destroy
<1>5. \A e : /\ ~y(e).alive /\ y(e).count = exprs[e].count /\ y(e).run = exprs[e].run /\ y(e).ran = exprs[e].ran
  OBVIOUS
<1>. HIDE DEF y
<1>6. /\ exprs' \in [1 .. Len(exprs) -> Entry]
      /\ \A e \in DOMAIN exprs : exprs'[e] = IF e \in ToSet(expressions[w]) THEN y(e) ELSE exprs[e]
  BY <1>1, <1>3, <1>4
<1>7. exprs' \in Seq(Entry) /\ Len(exprs') = Len(exprs)
  BY <1>1, <1>6, FunctionSeq
<1>. QED
  BY <1>1, <1>5, <1>6, <1>7

LEMMA DestroyFutures ==
  ASSUME FuturesInv, NEW w \in Windows, Destroy(w)
  PROVE  /\ FuturesInv'
         /\ \A e \in DOMAIN exprs : /\ w \notin Waits(e) => Ahead(e)' = Ahead(e)
                                    /\ w \in Waits(e) => Occurrences(e)' < Occurrences(e)
                                    /\ Occurrences(e)' <= Occurrences(e)
                                    /\ Occurrences(e) \in Nat /\ Occurrences(e)' \in Nat
<1>1. /\ flushing = None /\ flushing' = None /\ at' = at /\ expressions' = Emptied(w)
      /\ life' = [life EXCEPT ![w] = "gone"] /\ UNCHANGED <<comp, n, wild>> /\ sane' \in BOOLEAN
  BY DEF Destroy, Quiet, FuturesInv, TypeOK
<1>2. /\ exprs' \in Seq(Entry) /\ DOMAIN exprs' = DOMAIN exprs /\ Len(exprs') = Len(exprs)
      /\ \A e \in DOMAIN exprs : /\ exprs'[e].count = exprs[e].count /\ exprs'[e].run = exprs[e].run
                                 /\ exprs'[e].ran = exprs[e].ran /\ (exprs'[e].alive => exprs[e].alive)
  BY DestroyEntries
<1>. QED
  BY <1>1, <1>2, GivenUpFutures

LEMMA StutterFutures ==
  ASSUME FuturesInv, UNCHANGED vars
  PROVE  FuturesInv'
<1>1. UNCHANGED <<comp, life, expressions, exprs, flushing, at, n, wild, sane>>
  BY DEF vars
<1>2. \A w \in Windows : Left(w)' = Left(w)
  BY <1>1 DEF Left
<1>3. Counted' /\ (exprs \in Seq(Entry))' /\ (\A e \in DOMAIN exprs : Reached1(e))'
  BY <1>1, <1>2, SameAhead, SameExprs
<1>. QED
  BY <1>1, <1>3 DEF FuturesInv, TypeOK, Place

LEMMA NextFutures == FuturesInv /\ [Next]_vars => FuturesInv'
<1>. SUFFICES ASSUME FuturesInv, [Next]_vars PROVE FuturesInv'
  OBVIOUS
<1>1. CASE Statements
  BY <1>1, StatementsCall, StatementFutures
<1>2. CASE Unblock
  BY <1>2, UnblockFutures
<1>3. CASE RunExpr
  BY <1>3, RunExprFutures
<1>4. CASE EndFlush
  BY <1>4, EndFlushFutures
<1>5. CASE \E w \in Windows : Flush(w) \/ WFree(w) \/ Destroy(w)
  BY <1>5, FlushFutures, WFreeFutures, DestroyFutures
<1>6. CASE UNCHANGED vars
  BY <1>6, StutterFutures
<1>. QED
  BY <1>1, <1>2, <1>3, <1>4, <1>5, <1>6 DEF Next

LEMMA AlwaysFutures == Spec => []FuturesInv
BY InitFutures, NextFutures, PTL DEF Spec

\* A live expression's blocking count is the number of its operands whose windows'
\* flushes have still to reach it, unless one was freed, and then it stays above.
THEOREM CountsRight == Spec => []TypeOK
<1>1. FuturesInv => TypeOK
  BY DEF FuturesInv
<1>. QED
  BY <1>1, AlwaysFutures, PTL

-----------------------------------------------------------------------------
(***************************************************************************)
(* The expressions left to flushes are those of Deferred.                  *)
(***************************************************************************)
Unreached(e) == IF Status(e) = "waiting" THEN Waits(e) ELSE {}

\* What an expression is to Deferred, before a step and after it.
LEMMA StatusIs ==
  ASSUME NEW e
  PROVE  /\ e \notin DOMAIN exprs => Status(e) = "none"
         /\ e \in DOMAIN exprs /\ exprs[e].ran => Status(e) = "done"
         /\ e \in DOMAIN exprs /\ ~exprs[e].ran =>
              Status(e) = IF exprs[e].alive /\ exprs[e].count = Occurrences(e) THEN "waiting" ELSE "forgotten"
         /\ e \notin DOMAIN exprs' => Status(e)' = "none"
         /\ e \in DOMAIN exprs' /\ exprs'[e].ran => Status(e)' = "done"
         /\ e \in DOMAIN exprs' /\ ~exprs'[e].ran =>
              Status(e)' = IF exprs'[e].alive /\ exprs'[e].count = Occurrences(e)' THEN "waiting" ELSE "forgotten"
BY DEF Status

\* An expression that the step does not touch stays what it was.
LEMMA SameStatus ==
  ASSUME NEW e, e \in DOMAIN exprs' <=> e \in DOMAIN exprs,
         e \in DOMAIN exprs => exprs'[e] = exprs[e] /\ Ahead(e)' = Ahead(e)
  PROVE  Status(e)' = Status(e) /\ Unreached(e)' = Unreached(e)
<1>1. e \in DOMAIN exprs => Occurrences(e)' = Occurrences(e) /\ Waits(e)' = Waits(e)
  BY DEF Occurrences, Waits
<1>2. Status(e)' = Status(e)
  BY <1>1, StatusIs
<1>3. CASE e \in DOMAIN exprs
  BY <1>1, <1>2, <1>3 DEF Unreached
<1>4. CASE e \notin DOMAIN exprs
  <2>1. Status(e) = "none"
    BY <1>4, StatusIs
  <2>. QED BY <1>2, <2>1 DEF Unreached
<1>. QED
  BY <1>2, <1>3, <1>4

LEMMA SameDeferred ==
  ASSUME \A e \in 1 .. EXPR_COUNT : Status(e)' = Status(e) /\ Unreached(e)' = Unreached(e)
  PROVE  UNCHANGED D!vars
BY DEF D!vars, Unreached

\* A step that touches no expression.
LEMMA UntouchedDeferred ==
  ASSUME UNCHANGED exprs, \A e : Ahead(e)' = Ahead(e)
  PROVE  UNCHANGED D!vars
<1>1. \A e \in 1 .. EXPR_COUNT : Status(e)' = Status(e) /\ Unreached(e)' = Unreached(e)
  BY SameStatus
<1>. QED
  BY <1>1, SameDeferred

\* A statement leaves an expression, or none.
LEMMA LeaveDeferred ==
  ASSUME FuturesInv, NEW c, CallOK(c), Statement(c)
  PROVE  D!Next \/ UNCHANGED D!vars
<1>1. flushing = None /\ flushing' = None /\ at' = at
  BY DEF Statement, Quiet
<1>2. CASE UNCHANGED <<exprs, expressions>>
  <2>1. \A w \in Windows : Left(w)' = Left(w)
    BY <1>1, <1>2 DEF Left
  <2>. QED BY <1>2, <2>1, SameAhead, UntouchedDeferred
<1>3. CASE /\ Len(exprs) < EXPR_COUNT
           /\ exprs' = Append(exprs, NewExpr(c)) /\ expressions' = Blocked(c)
  <2>1. PICK e0 : e0 = Len(exprs) + 1
    OBVIOUS
  <2>2. /\ Occurrences(e0)' = Len(c.wins)
        /\ Waits(e0)' = ToSet(c.wins) /\ ToSet(c.wins) # {}
        /\ \A e \in DOMAIN exprs : Ahead(e)' = Ahead(e)
    BY <1>1, <1>3, <2>1, BlockedAhead
  <2>3. /\ \A e \in DOMAIN exprs : exprs'[e] = exprs[e]
        /\ exprs'[e0] = NewExpr(c)
        /\ DOMAIN exprs' = 1 .. e0 /\ DOMAIN exprs = 1 .. e0 - 1 /\ e0 \in Nat
    BY <1>3, <2>1, LeftEntries
  <2>4. e0 \in 1 .. EXPR_COUNT /\ e0 \in DOMAIN exprs' /\ e0 \notin DOMAIN exprs
    BY <1>3, <2>1, <2>3, Entries, BoundsAssumption, AccessAssumption
  <2>5. Status(e0) = "none"
    BY <2>4, StatusIs
  <2>6. Status(e0)' = "waiting" /\ Unreached(e0)' = ToSet(c.wins)
    <3>1. exprs'[e0].alive /\ ~exprs'[e0].ran /\ exprs'[e0].count = Occurrences(e0)'
      BY <2>2, <2>3 DEF NewExpr
    <3>2. Status(e0)' = "waiting"
      BY <2>4, <3>1, StatusIs
    <3>. QED BY <2>2, <3>2 DEF Unreached
  <2>7. \A e \in 1 .. EXPR_COUNT : e # e0 => Status(e)' = Status(e) /\ Unreached(e)' = Unreached(e)
    <3>. TAKE e \in 1 .. EXPR_COUNT
    <3>1. e # e0 => (e \in DOMAIN exprs' <=> e \in DOMAIN exprs)
      BY <2>3
    <3>2. e \in DOMAIN exprs => exprs'[e] = exprs[e] /\ Ahead(e)' = Ahead(e)
      BY <2>2, <2>3
    <3>. QED BY <3>1, <3>2, SameStatus
  <2>8. ToSet(c.wins) \in (SUBSET Windows) \ {{}}
    <3>1. c.wins \in Seq(Windows)
      BY DEF CallOK, Calls
    <3>2. ToSet(c.wins) \subseteq Windows
      BY <3>1, LenProperties, ElementOfSeq DEF ToSet
    <3>. QED BY <2>2, <3>2
  <2>9. D!Leave(e0)
    BY <2>4, <2>5, <2>6, <2>7, <2>8 DEF D!Leave, Unreached
  <2>. QED BY <2>4, <2>9 DEF D!Next
<1>. QED
  BY <1>2, <1>3 DEF Statement

\* unblock_expr() of an expression that stays reaches it, if it waits for no other place
\* of the window's; one that is forgotten stays so.
LEMMA UnblockDeferred ==
  ASSUME FuturesInv, Unblock
  PROVE  D!Next \/ UNCHANGED D!vars
<1>1. PICK r : r = Reached
  OBVIOUS
<1>2. PICK w : w = flushing
  OBVIOUS
<1>3. /\ exprs' \in Seq(Entry) /\ DOMAIN exprs' = DOMAIN exprs /\ Len(exprs') = Len(exprs)
      /\ \A e \in DOMAIN exprs : /\ e # r \/ ~exprs[e].alive => exprs'[e] = exprs[e]
                                 /\ exprs'[e].alive = exprs[e].alive /\ exprs'[e].ran = exprs[e].ran
                                 /\ exprs'[e].run = exprs[e].run
      /\ exprs[r].alive => exprs[r].count = 2 /\ exprs'[r].count = 1
  BY <1>1, UnblockEntries
<1>4. /\ <<w, at>> \in Ahead(r) /\ Ahead(r)' = Ahead(r) \ {<<w, at>>}
      /\ \A e : e # r => Ahead(e)' = Ahead(e)
      /\ r \in DOMAIN exprs
  BY <1>1, <1>2, UnblockAhead DEF Unblock
<1>5. Occurrences(r)' = Occurrences(r) - 1 /\ Occurrences(r) \in Nat \ {0}
  BY <1>1, UnblockCount DEF Unblock
<1>6. \A e \in 1 .. EXPR_COUNT : e # r => Status(e)' = Status(e) /\ Unreached(e)' = Unreached(e)
  BY <1>3, <1>4, SameStatus
<1>7. r \in 1 .. EXPR_COUNT
  <2>1. r \in 1 .. Len(exprs) /\ Len(exprs) \in Nat /\ Len(exprs) <= EXPR_COUNT
    BY <1>4, Entries DEF FuturesInv, TypeOK
  <2>. QED BY <2>1, BoundsAssumption, AccessAssumption
<1>8. Status(r)' = Status(r)
  <2>1. CASE ~exprs[r].alive
    BY <1>3, <1>4, <2>1, StatusIs
  <2>2. CASE exprs[r].alive
    <3>1. exprs'[r].count = Occurrences(r)' <=> exprs[r].count = Occurrences(r)
      BY <1>3, <1>5, <2>2
    <3>. QED BY <1>3, <1>4, <3>1, StatusIs
  <2>. QED BY <2>1, <2>2
<1>9. CASE Status(r) # "waiting"
  <2>1. Unreached(r)' = Unreached(r)
    BY <1>8, <1>9 DEF Unreached
  <2>. QED BY <1>6, <1>8, <2>1, SameDeferred
<1>10. CASE Status(r) = "waiting" /\ Waits(r)' = Waits(r)
  <2>1. Unreached(r)' = Unreached(r)
    BY <1>8, <1>10 DEF Unreached
  <2>. QED BY <1>6, <1>8, <2>1, SameDeferred
<1>11. CASE Status(r) = "waiting" /\ Waits(r)' # Waits(r)
  <2>1. w \in Waits(r) /\ Waits(r)' = Waits(r) \ {w}
    <3>1. \A place \in Ahead(r) : place = <<place[1], place[2]>>
      BY AheadMember
    <3>2. Waits(r) = {place[1] : place \in Ahead(r)} /\ Waits(r)' = {place[1] : place \in Ahead(r)'}
      BY DEF Waits
    <3>3. <<w, at>>[1] = w
      OBVIOUS
    <3>4. w \in Waits(r) /\ \A u : u # w => (u \in Waits(r) <=> u \in Waits(r)')
      BY <1>4, <3>1, <3>2, <3>3
    <3>5. Waits(r)' \subseteq Waits(r)
      BY <1>4, <3>2
    <3>. QED BY <1>11, <3>4, <3>5
  <2>2. Waits(r)' # {}
    <3>1. exprs[r].alive /\ exprs[r].count = Occurrences(r)
      BY <1>4, <1>11, StatusIs DEF FuturesInv, Reached1
    <3>2. Occurrences(r)' = 1
      BY <1>3, <1>5, <3>1
    <3>3. Ahead(r)' # {}
      BY <3>2, FS_EmptySet DEF Occurrences
    <3>. QED BY <3>3 DEF Waits
  <2>3. Unreached(r) = Waits(r) /\ Unreached(r)' = Waits(r) \ {w} /\ Waits(r) # {w}
    BY <1>8, <1>11, <2>1, <2>2 DEF Unreached
  <2>4. D!Reach(r, w)
    BY <1>6, <1>7, <1>8, <1>11, <2>1, <2>3 DEF D!Reach, Unreached
  <2>5. w \in Windows
    BY <2>1, WaitsMember
  <2>. QED BY <1>7, <2>4, <2>5 DEF D!Next
<1>. QED
  BY <1>9, <1>10, <1>11

\* The unblock_expr() that runs an expression is the last to reach it.
LEMMA RunDeferred ==
  ASSUME FuturesInv, RunExpr
  PROVE  D!Next
<1>1. PICK r : r = Reached
  OBVIOUS
<1>2. PICK w : w = flushing
  OBVIOUS
<1>3. /\ exprs' \in Seq(Entry) /\ DOMAIN exprs' = DOMAIN exprs /\ Len(exprs') = Len(exprs)
      /\ \A e \in DOMAIN exprs : e # r => exprs'[e] = exprs[e]
      /\ exprs[r].alive /\ ~exprs[r].ran /\ exprs[r].count = 1
      /\ ~exprs'[r].alive /\ exprs'[r].ran /\ exprs'[r].run = exprs[r].run
  BY <1>1, RunEntries
<1>4. /\ <<w, at>> \in Ahead(r)
      /\ \A e : e # r => Ahead(e)' = Ahead(e)
      /\ r \in DOMAIN exprs
  BY <1>1, <1>2, UnblockAhead DEF RunExpr
<1>5. Occurrences(r) \in Nat \ {0}
  BY <1>1, UnblockCount DEF RunExpr
<1>6. \A e \in 1 .. EXPR_COUNT : e # r => Status(e)' = Status(e) /\ Unreached(e)' = Unreached(e)
  BY <1>3, <1>4, SameStatus
<1>7. r \in 1 .. EXPR_COUNT
  <2>1. r \in 1 .. Len(exprs) /\ Len(exprs) \in Nat /\ Len(exprs) <= EXPR_COUNT
    BY <1>4, Entries DEF FuturesInv, TypeOK
  <2>. QED BY <2>1, BoundsAssumption, AccessAssumption
<1>8. Occurrences(r) = 1
  <2>1. exprs[r].count >= Occurrences(r)
    BY <1>3, <1>4 DEF FuturesInv, TypeOK, Counted
  <2>. QED BY <1>3, <1>5, <2>1
<1>9. Status(r) = "waiting" /\ Status(r)' = "done"
  BY <1>3, <1>4, <1>8, StatusIs
<1>10. Waits(r) = {w}
  <2>1. PICK p, S : p = <<w, at>> /\ S = Ahead(r)
    OBVIOUS
  <2>2. IsFiniteSet(S) /\ Cardinality(S) = 1 /\ p \in S
    BY <1>4, <1>8, <2>1 DEF Occurrences, FuturesInv, Reached1
  <2>3. IsFiniteSet(S \ {p}) /\ Cardinality(S \ {p}) = 0
    BY <2>2, OneLess
  <2>4. S \ {p} = {}
    BY <2>3, FS_EmptySet
  <2>5. Ahead(r) = {p} /\ p[1] = w
    BY <2>1, <2>2, <2>4
  <2>. QED BY <2>5 DEF Waits
<1>11. Unreached(r) = {w} /\ Unreached(r)' = {} /\ w \in Windows
  BY <1>9, <1>10, WaitsMember DEF Unreached
<1>12. D!Reach(r, w)
  BY <1>6, <1>7, <1>9, <1>10, <1>11 DEF D!Reach, Unreached
<1>. QED
  BY <1>7, <1>11, <1>12 DEF D!Next

\* A window that is freed or destroyed is given up.
LEMMA GiveUpDeferred ==
  ASSUME FuturesInv, NEW w \in Windows, WFree(w) \/ Destroy(w)
  PROVE  D!Next
<1>1. \A e \in DOMAIN exprs : /\ w \notin Waits(e) => Ahead(e)' = Ahead(e)
                              /\ w \in Waits(e) => Occurrences(e)' < Occurrences(e)
                              /\ Occurrences(e)' <= Occurrences(e)
                              /\ Occurrences(e) \in Nat /\ Occurrences(e)' \in Nat
  BY WFreeFutures, DestroyFutures
<1>2. /\ DOMAIN exprs' = DOMAIN exprs
      /\ \A e \in DOMAIN exprs :
           /\ exprs'[e].count = exprs[e].count /\ exprs'[e].ran = exprs[e].ran
           /\ exprs'[e].alive => exprs[e].alive
           /\ w \notin Waits(e) => exprs'[e].alive = exprs[e].alive
  <2>1. CASE WFree(w)
    BY <2>1 DEF WFree
  <2>2. CASE Destroy(w)
    <3>1. \A e : w \in Waits(e) <=> e \in ToSet(expressions[w])
      BY <2>2, EmptiedAhead DEF Destroy, Quiet
    <3>2. \A e \in DOMAIN exprs : exprs[e].alive \in BOOLEAN /\ exprs'[e].alive \in BOOLEAN
      BY <2>2, DestroyFutures, DestroyEntries DEF FuturesInv, TypeOK
    <3>. QED BY <2>2, <3>1, <3>2, DestroyEntries
  <2>. QED BY <2>1, <2>2
<1>3. ASSUME NEW e \in 1 .. EXPR_COUNT
      PROVE  /\ Status(e)' = IF Status(e) = "waiting" /\ w \in Unreached(e) THEN "forgotten" ELSE Status(e)
             /\ Unreached(e)' = IF Status(e) = "waiting" /\ w \in Unreached(e) THEN {} ELSE Unreached(e)
  <2>1. CASE e \notin DOMAIN exprs
    BY <1>2, <2>1, StatusIs DEF Unreached
  <2>2. CASE e \in DOMAIN exprs /\ exprs[e].ran
    BY <1>2, <2>2, StatusIs DEF Unreached
  <2>3. CASE e \in DOMAIN exprs /\ ~exprs[e].ran /\ w \notin Waits(e)
    <3>1. Occurrences(e)' = Occurrences(e) /\ Waits(e)' = Waits(e)
      BY <1>1, <2>3 DEF Occurrences, Waits
    <3>2. Status(e)' = Status(e)
      BY <1>2, <2>3, <3>1, StatusIs
    <3>. QED BY <2>3, <3>1, <3>2 DEF Unreached
  <2>4. CASE e \in DOMAIN exprs /\ ~exprs[e].ran /\ w \in Waits(e)
    <3>1. ASSUME exprs'[e].alive PROVE exprs'[e].count # Occurrences(e)'
      <4>1. exprs[e].alive
        BY <1>2, <2>4, <3>1
      <4>2. exprs[e].count >= Occurrences(e) /\ exprs[e].count \in 0 .. 2
        BY <2>4, <4>1 DEF FuturesInv, TypeOK, Counted
      <4>. QED BY <1>1, <1>2, <2>4, <4>2
    <3>2. ~exprs'[e].alive \/ exprs'[e].count # Occurrences(e)'
      BY <3>1
    <3>3. Status(e)' = "forgotten" /\ Status(e) \in {"waiting", "forgotten"}
      BY <1>2, <2>4, <3>2, StatusIs
    <3>. QED BY <2>4, <3>3 DEF Unreached
  <2>. QED BY <2>1, <2>2, <2>3, <2>4
<1>4. D!GiveUp(w)
  BY <1>3 DEF D!GiveUp, Unreached
<1>. QED
  BY <1>4 DEF D!Next

LEMMA DeferredStep == FuturesInv /\ [Next]_vars => [D!Next]_(D!vars)
<1>. SUFFICES ASSUME FuturesInv, [Next]_vars PROVE D!Next \/ UNCHANGED D!vars
  OBVIOUS
<1>1. CASE Statements
  BY <1>1, StatementsCall, LeaveDeferred
<1>2. CASE Unblock
  BY <1>2, UnblockDeferred
<1>3. CASE RunExpr
  BY <1>3, RunDeferred
<1>4. CASE EndFlush
  <2>1. UNCHANGED exprs
    BY <1>4 DEF EndFlush
  <2>. QED BY <1>4, <2>1, EndAhead, UntouchedDeferred
<1>5. ASSUME NEW w \in Windows, Flush(w) PROVE D!Next \/ UNCHANGED D!vars
  <2>1. UNCHANGED exprs
    BY <1>5 DEF Flush
  <2>. QED BY <1>5, <2>1, FlushAhead, UntouchedDeferred
<1>6. ASSUME NEW w \in Windows, WFree(w) \/ Destroy(w) PROVE D!Next \/ UNCHANGED D!vars
  BY <1>6, GiveUpDeferred
<1>7. CASE UNCHANGED vars
  <2>1. UNCHANGED <<exprs, expressions, flushing, at>>
    BY <1>7 DEF vars
  <2>2. \A w \in Windows : Left(w)' = Left(w)
    BY <2>1 DEF Left
  <2>. QED BY <2>1, <2>2, SameAhead, UntouchedDeferred
<1>. QED
  BY <1>1, <1>2, <1>3, <1>4, <1>5, <1>6, <1>7 DEF Next

LEMMA InitDeferred == Init => D!Init
<1>. SUFFICES ASSUME Init PROVE D!Init
  OBVIOUS
<1>1. DOMAIN exprs = {}
  BY EmptySeq DEF Init
<1>2. \A e : Status(e) = "none" /\ Unreached(e) = {}
  BY <1>1, StatusIs DEF Unreached
<1>. QED
  BY <1>2 DEF D!Init, Unreached

\* An expression left to flushes runs once, in the flush that is the last of its
\* windows' to reach it, and never when one of them was freed or destroyed first.
THEOREM FuturesImplementDeferred == Spec => ImplementsDeferred
BY InitDeferred, DeferredStep, AlwaysFutures, PTL DEF Spec, ImplementsDeferred, D!Spec

-----------------------------------------------------------------------------
(***************************************************************************)
(* The invariant of the windows' data, while no unsupported call was made. *)
(***************************************************************************)

\* What a window that reads sees of it: not the puts.
NoPuts(v) == [v EXCEPT !.puts = [q \in Lists |-> <<>>], !.putc = 0]

\* Between two statements the gets of all records that found room were posted.
Sound(v, k, m) == Good(v, k, m) /\ (v.bufc < PREALLOC => Unposted(v, k) = 0)

\* A window that is used by one kind of statement is as that kind needs it.  One that
\* blocks may be read by both kinds, once it was used as what a statement puts into;
\* one that does not is used by one kind only.
WindowOK(v, b, m) ==
  /\ v \in Members
  /\ \A k \in Kinds : Only(v, k) => Sound(v, k, m)
  /\ b => \A k \in Kinds : Sound(NoPuts(v), k, m)
  /\ ~b => \E k \in Kinds : Only(v, k)

\* A supported statement reads one window.
From(c) == c.wins[1]
Ids(c) == {c.ids[i] : i \in 1 .. Len(c.wins)}

\* The expression e that waits for the window it reads: both that and the one it puts
\* into defer.
WaitingOK(e) ==
  LET c == exprs[e].run IN
  /\ ToSet(c.wins) = {From(c)} /\ ~Blocking(From(c)) /\ (c.sink # None => ~Blocking(c.sink))
  /\ \E base, top \in 0 .. n : NumberedOK(c, base, top)
  /\ Flag(win[From(c)], c.kind) /\ (c.sink # None => Flag(win[c.sink], c.kind))

\* Expressions wait in the order they were made, and one window's only put into another.
InTurn(e, f) ==
  LET c == exprs[e].run
      d == exprs[f].run IN
  /\ e < f => \A x \in Ids(c), y \in Ids(d) : x < y
  /\ e < f /\ c.sink # None /\ d.sink # None => c.sinkId < d.sinkId
  /\ c.sink = d.sink /\ c.sink # None => From(c) = From(d)
InOrderMade ==
  \A w \in Windows : \A i, j \in DOMAIN expressions[w] : i < j => expressions[w][i] <= expressions[w][j]
QueueOK ==
  /\ \A e \in Waiting : WaitingOK(e)
  /\ \A e, f \in Waiting : InTurn(e, f)
  /\ flushing # None => Undisturbed(flushing, flushing)
  /\ InOrderMade

\* The records of a window not used yet are those of the expressions that wait for it, and
\* the puts not made yet are theirs that put into it.
Awaited(w) == UNION {Ids(exprs[e].run) : e \in {f \in Waiting : From(exprs[f].run) = w}}
Coming(w) == {exprs[e].run.sinkId : e \in {f \in Waiting : exprs[f].run.sink = w}}

DataOK ==
  /\ wild = "no" /\ win \in [Windows -> Members]
  /\ \A w \in Windows : WindowOK(win[w], Blocking(w), n)
  /\ QueueOK
  /\ \A w \in Windows : Pending(win[w]) = Awaited(w) /\ ToPut(win[w]) = Coming(w)
  /\ OwnData

\* A window that statements of kind k use, or one whose puts are of another kind.
View(b, v) == IF b THEN v ELSE NoPuts(v)

-----------------------------------------------------------------------------
(***************************************************************************)
(* A window's puts are nothing to what reads it.                           *)
(***************************************************************************)
LEMMA NoPutsIs ==
  ASSUME NEW v \in Members
  PROVE  LET u == NoPuts(v)
         IN  /\ u \in Members
             /\ u.info = v.info /\ u.gets = v.gets /\ u.xfers = v.xfers
             /\ u.putc = 0 /\ (\A q \in Lists : u.puts[q] = <<>>)
             /\ u.bufc = v.bufc /\ u.size = v.size /\ u.buf = v.buf /\ u.unfinished = v.unfinished
             /\ u.isElem = v.isElem /\ u.isBulk = v.isBulk /\ u.shape = v.shape
<1>. DEFINE E == [q \in Lists |-> <<>>]
<1>1. NoPuts(v) = [v EXCEPT !.puts = E, !.putc = 0]
  BY DEF NoPuts
<1>2. E \in [Lists -> Seq(Accesses)] /\ \A q \in Lists : E[q] = <<>>
  BY EmptySeq
<1>. HIDE DEF E
<1>3. LET u == [v EXCEPT !.puts = E, !.putc = 0]
      IN  /\ u \in Members
          /\ u.info = v.info /\ u.gets = v.gets /\ u.xfers = v.xfers
          /\ u.putc = 0 /\ u.puts = E
          /\ u.bufc = v.bufc /\ u.size = v.size /\ u.buf = v.buf /\ u.unfinished = v.unfinished
          /\ u.isElem = v.isElem /\ u.isBulk = v.isBulk /\ u.shape = v.shape
  BY <1>2 DEF Members
<1>. QED
  BY <1>1, <1>2, <1>3

LEMMA NoPutsGood ==
  ASSUME NEW v \in Members, NEW k \in Kinds, NEW m \in Nat, Good(v, k, m)
  PROVE  Good(NoPuts(v), k, m)
<1>. DEFINE u == NoPuts(v)
            q == ListOf(v, k)
<1>1. /\ u \in Members
      /\ u.info = v.info /\ u.gets = v.gets /\ u.xfers = v.xfers
      /\ u.putc = 0 /\ (\A p \in Lists : u.puts[p] = <<>>)
      /\ u.bufc = v.bufc /\ u.size = v.size /\ u.buf = v.buf
      /\ u.isElem = v.isElem /\ u.isBulk = v.isBulk /\ u.shape = v.shape
  BY NoPutsIs
<1>. HIDE DEF u
<1>2. ListOf(u, k) = q /\ q \in Lists
  BY <1>1, SameList, ListIs
<1>. HIDE DEF q
<1>3. Len(<<>>) = 0 /\ DOMAIN <<>> = 1 .. 0
  OBVIOUS
<1>4. InOrder(u, m)
  <2>1. InOrder(v, m)
    BY DEF Good
  <2>2. \A p \in Lists : DOMAIN u.puts[p] = {}
    BY <1>1, <1>3
  <2>. QED BY <1>1, <2>1, <2>2 DEF InOrder
<1>5. \A p \in Lists \ {q} : Used(v, p)
  BY <1>2 DEF Good, q
<1>6. \A p \in Lists \ {q} : Used(u, p) /\ u.puts[p] = <<>>
  BY <1>1, <1>5 DEF Used
<1>7. u.putc <= Len(u.puts[q]) /\ u.puts[q] = <<>>
  BY <1>1, <1>2, <1>3
<1>8. PICK place \in [Nat -> 0 .. PREALLOC] : Aligned(v, k, place)
  BY DEF Good
<1>9. Aligned(u, k, place)
  BY <1>1, <1>2, <1>8 DEF Aligned, q
<1>10. v.bufc <= PREALLOC /\ \A r \in Lists : {v.gets[r], v.xfers[r]} \subseteq 0 .. Len(v.info[r])
  BY DEF Good
<1>11. u.bufc <= PREALLOC /\ \A r \in Lists : {u.gets[r], u.xfers[r]} \subseteq 0 .. Len(u.info[r])
  BY <1>1, <1>10
<1>. QED
  BY <1>2, <1>4, <1>6, <1>7, <1>8, <1>9, <1>11 DEF Good, u

\* A window's view is one of its members.
LEMMA ViewIs ==
  ASSUME NEW v \in Members, NEW b
  PROVE  LET u == View(b, v)
         IN  /\ u \in Members
             /\ u.info = v.info /\ u.gets = v.gets /\ u.xfers = v.xfers
             /\ u.bufc = v.bufc /\ u.size = v.size /\ u.buf = v.buf /\ u.unfinished = v.unfinished
             /\ u.isElem = v.isElem /\ u.isBulk = v.isBulk /\ u.shape = v.shape
BY NoPutsIs DEF View

\* What is told of a window by its records only is the same of its view.
LEMMA ViewSame ==
  ASSUME NEW v \in Members, NEW b, NEW k
  PROVE  /\ Pending(View(b, v)) = Pending(v) /\ Unposted(View(b, v), k) = Unposted(v, k)
         /\ Only(View(b, v), k) = Only(v, k) /\ Flag(View(b, v), k) = Flag(v, k)
         /\ NextGet(View(b, v), k) = NextGet(v, k) /\ NextXfer(View(b, v), k) = NextXfer(v, k)
         /\ (PostWild(View(b, v), k) <=> PostWild(v, k)) /\ (EvalWild(View(b, v), k) <=> EvalWild(v, k))
         /\ (Posts(View(b, v), k) <=> Posts(v, k))
         /\ Data(View(b, v), k) = Data(v, k) /\ ListOf(View(b, v), k) = ListOf(v, k)
<1>. DEFINE u == View(b, v)
<1>1. /\ u.info = v.info /\ u.gets = v.gets /\ u.xfers = v.xfers
      /\ u.bufc = v.bufc /\ u.size = v.size /\ u.buf = v.buf
      /\ u.isElem = v.isElem /\ u.isBulk = v.isBulk /\ u.shape = v.shape
  BY ViewIs
<1>. HIDE DEF u
<1>2. ListOf(u, k) = ListOf(v, k)
  BY <1>1, SameList
<1>3. Pending(u) = Pending(v)
  <2>1. ASSUME NEW x PROVE x \in Pending(u) <=> x \in Pending(v)
    BY <1>1, PendingIs
  <2>. QED BY <2>1
<1>4. Unposted(u, k) = Unposted(v, k)
  BY <1>1, <1>2, Zenon DEF Unposted
<1>5. Only(u, k) = Only(v, k) /\ Flag(u, k) = Flag(v, k)
  BY <1>1, Zenon DEF Only, Flag
<1>6. NextGet(u, k) = NextGet(v, k) /\ NextXfer(u, k) = NextXfer(v, k)
  BY <1>1, <1>2, Zenon DEF NextGet, NextXfer
<1>7. Posts(u, k) <=> Posts(v, k)
  BY <1>1, <1>6, Zenon DEF Posts
<1>8. PostWild(u, k) <=> PostWild(v, k)
  BY <1>1, <1>2, <1>6, <1>7, Zenon DEF PostWild
<1>9. EvalWild(u, k) <=> EvalWild(v, k)
  BY <1>1, <1>2, Zenon DEF EvalWild
<1>10. Data(u, k) = Data(v, k)
  BY <1>1, <1>6, Zenon DEF Data
<1>. QED
  BY <1>2, <1>3, <1>4, <1>5, <1>6, <1>7, <1>8, <1>9, <1>10 DEF u

\* A read of the window is one of its view.
LEMMA OpenedView ==
  ASSUME NEW v \in Members, NEW b, NEW k \in Kinds, NEW r \in Record
  PROVE  Opened(View(b, v), k, r) = View(b, Opened(v, k, r))
<1>1. ASSUME ~b PROVE Opened(NoPuts(v), k, r) = NoPuts(Opened(v, k, r))
  <2>. DEFINE q == ListOf(v, k)
              I == [v.info EXCEPT ![q] = Append(@, r)]
              E == [p \in Lists |-> <<>>]
              x == NoPuts(v)
  <2>1. x.info = v.info /\ x.isElem = v.isElem /\ x.isBulk = v.isBulk /\ x.shape = v.shape /\ ListOf(x, k) = q
    BY NoPutsIs, SameList
  <2>2. Opened(x, k, r) = [x EXCEPT !.info = I, !.isElem = @ \/ k = "elem", !.isBulk = @ \/ k = "bulk"]
    BY <2>1 DEF Opened
  <2>3. Opened(v, k, r) = [v EXCEPT !.info = I, !.isElem = @ \/ k = "elem", !.isBulk = @ \/ k = "bulk"]
    BY DEF Opened
  <2>4. x = [v EXCEPT !.puts = E, !.putc = 0]
    BY DEF NoPuts
  <2>5. NoPuts(Opened(v, k, r)) = [Opened(v, k, r) EXCEPT !.puts = E, !.putc = 0]
    BY DEF NoPuts
  <2>. HIDE DEF I, E, x, q
  <2>6. [[v EXCEPT !.puts = E, !.putc = 0] EXCEPT !.info = I, !.isElem = @ \/ k = "elem", !.isBulk = @ \/ k = "bulk"]
        = [[v EXCEPT !.info = I, !.isElem = @ \/ k = "elem", !.isBulk = @ \/ k = "bulk"] EXCEPT !.puts = E, !.putc = 0]
    BY DEF Members
  <2>. QED BY <2>2, <2>3, <2>4, <2>5, <2>6 DEF x
<1>. QED
  BY <1>1 DEF View

LEMMA PostedView ==
  ASSUME NEW v \in Members, NEW b, NEW k \in Kinds
  PROVE  Posted(View(b, v), k) = View(b, Posted(v, k))
<1>1. ASSUME ~b, Posts(v, k) PROVE Posted(NoPuts(v), k) = NoPuts(Posted(v, k))
  <2>. DEFINE q == ListOf(v, k)
              r == NextGet(v, k)
              B == [i \in DOMAIN v.buf |-> IF v.bufc <= i /\ i < v.bufc + SizeOf(k, r) THEN r.id ELSE v.buf[i]]
              G == [v.gets EXCEPT ![q] = @ + 1]
              c == v.bufc + SizeOf(k, r)
              E == [p \in Lists |-> <<>>]
              x == NoPuts(v)
  <2>1. /\ x.buf = v.buf /\ x.bufc = v.bufc /\ x.gets = v.gets /\ ListOf(x, k) = q /\ NextGet(x, k) = r
        /\ Posts(x, k)
    BY <1>1, NoPutsIs, ViewSame DEF View
  <2>2. Posted(x, k) = [x EXCEPT !.buf = B, !.bufc = c, !.gets = G]
    BY <2>1 DEF Posted
  <2>3. Posted(v, k) = [v EXCEPT !.buf = B, !.bufc = c, !.gets = G]
    BY <1>1 DEF Posted
  <2>4. x = [v EXCEPT !.puts = E, !.putc = 0]
    BY DEF NoPuts
  <2>5. NoPuts(Posted(v, k)) = [Posted(v, k) EXCEPT !.puts = E, !.putc = 0]
    BY DEF NoPuts
  <2>. HIDE DEF B, G, c, E, x, q, r
  <2>6. [[v EXCEPT !.puts = E, !.putc = 0] EXCEPT !.buf = B, !.bufc = c, !.gets = G]
        = [[v EXCEPT !.buf = B, !.bufc = c, !.gets = G] EXCEPT !.puts = E, !.putc = 0]
    BY DEF Members
  <2>. QED BY <2>2, <2>3, <2>4, <2>5, <2>6 DEF x
<1>2. ASSUME ~Posts(v, k) PROVE Posted(View(b, v), k) = View(b, v) /\ Posted(v, k) = v
  BY <1>2, ViewSame DEF Posted
<1>. QED
  BY <1>1, <1>2 DEF View

LEMMA EvaluatedView ==
  ASSUME NEW v \in Members, NEW b, NEW k \in Kinds
  PROVE  Evaluated(View(b, v), k) = View(b, Evaluated(v, k))
<1>1. ASSUME ~b PROVE Evaluated(NoPuts(v), k) = NoPuts(Evaluated(v, k))
  <2>. DEFINE q == ListOf(v, k)
              r == NextXfer(v, k)
              X == [v.xfers EXCEPT ![q] = @ + 1]
              z == IF k = "elem" \/ v.size < PREALLOC THEN v.size + SizeOf(k, r) ELSE v.size
              E == [p \in Lists |-> <<>>]
              x == NoPuts(v)
  <2>1. x.size = v.size /\ x.xfers = v.xfers /\ ListOf(x, k) = q /\ NextXfer(x, k) = r
    BY <1>1, NoPutsIs, ViewSame DEF View
  <2>2. Evaluated(x, k) = [x EXCEPT !.xfers = X, !.size = z]
    BY <2>1 DEF Evaluated
  <2>3. Evaluated(v, k) = [v EXCEPT !.xfers = X, !.size = z]
    BY DEF Evaluated
  <2>4. x = [v EXCEPT !.puts = E, !.putc = 0]
    BY DEF NoPuts
  <2>5. NoPuts(Evaluated(v, k)) = [Evaluated(v, k) EXCEPT !.puts = E, !.putc = 0]
    BY DEF NoPuts
  <2>. HIDE DEF X, z, E, x, q, r
  <2>6. [[v EXCEPT !.puts = E, !.putc = 0] EXCEPT !.xfers = X, !.size = z]
        = [[v EXCEPT !.xfers = X, !.size = z] EXCEPT !.puts = E, !.putc = 0]
    BY DEF Members
  <2>. QED BY <2>2, <2>3, <2>4, <2>5, <2>6 DEF x
<1>. QED
  BY <1>1 DEF View

-----------------------------------------------------------------------------
(***************************************************************************)
(* What a statement's operands do to their window.                         *)
(***************************************************************************)

\* The record of the j-th access, and the window after the operands were opened, their
\* gets posted, and the expression evaluated.
Rec(c, j) == [id |-> c.ids[c.opened[j]], count |-> c.count]
OpenedAll(v, c) ==
  IF Len(c.wins) = 1 THEN Opened(v, c.kind, Rec(c, 1))
  ELSE Opened(Opened(v, c.kind, Rec(c, 1)), c.kind, Rec(c, 2))
PostedAll(v, c) ==
  IF Len(c.wins) = 1 THEN Posted(v, c.kind) ELSE Posted(Posted(v, c.kind), c.kind)
EvaluatedAll(v, c) ==
  IF Len(c.wins) = 1 THEN Evaluated(v, c.kind) ELSE Evaluated(Evaluated(v, c.kind), c.kind)

\* The last j records, of count elements each, are those no get was posted for.
Fresh(v, k, j, count) ==
  v.bufc < PREALLOC =>
    LET q == ListOf(v, k) IN
    /\ Len(v.info[q]) = v.gets[q] + j
    /\ \A i \in 1 .. j : v.info[q][v.gets[q] + i].count = count

LEMMA NumbersAre ==
  ASSUME NEW c, NEW base, NEW top, NumberedOK(c, base, top)
  PROVE  /\ c.kind \in Kinds /\ c.count \in Nat \ {0} /\ Len(c.wins) \in {1, 2} /\ base \in Nat
         /\ Rec(c, 1) \in Record /\ Rec(c, 1).id = base + 1 /\ Rec(c, 1).count = c.count
         /\ Len(c.wins) = 2 => Rec(c, 2) \in Record /\ Rec(c, 2).id = base + 2 /\ Rec(c, 2).count = c.count
         /\ c.ids[c.opened[1]] = base + 1
         /\ Len(c.wins) = 2 => c.ids[c.opened[2]] = base + 2
<1>1. c.kind \in Kinds /\ c.count \in Nat \ {0} /\ Len(c.wins) \in {1, 2} /\ base \in Nat
  BY DEF NumberedOK, CallOK, Calls, Numbered
<1>6. PICK l : l = Len(c.wins)
  OBVIOUS
<1>2. \A j \in 1 .. l : c.ids[c.opened[j]] = base + j
  BY <1>6 DEF NumberedOK, Numbered
<1>3. base + l <= top /\ top <= MaxAccesses
  <2>1. PICK d \in {0, 1} : top = base + l + d
    BY <1>6 DEF NumberedOK, Numbered
  <2>2. top <= MaxAccesses
    BY DEF NumberedOK
  <2>. QED BY <1>1, <1>6, <2>1, <2>2
<1>7. l \in {1, 2}
  BY <1>1, <1>6
<1>4. c.ids[c.opened[1]] = base + 1 /\ (l = 2 => c.ids[c.opened[2]] = base + 2)
  <2>1. 1 \in 1 .. l /\ (l = 2 => 2 \in 1 .. l)
    BY <1>7
  <2>. QED BY <1>2, <2>1
<1>5. base + 1 \in Accesses /\ (l = 2 => base + 2 \in Accesses)
  <2>1. PICK x, y : x = base + 1 /\ y = base + 2
    OBVIOUS
  <2>2. base \in Nat
    BY <1>1
  <2>3. x \in Int /\ 1 <= x /\ x <= MaxAccesses
    <3>1. base + l \in Int /\ x <= base + l /\ x \in Int /\ 1 <= x
      BY <1>7, <2>1, <2>2
    <3>2. top \in Int
      <4>1. PICK d \in {0, 1} : top = base + l + d
        BY <1>6 DEF NumberedOK, Numbered
      <4>. QED BY <1>7, <2>2, <4>1
    <3>. QED BY <1>3, <3>1, <3>2, AccessAssumption
  <2>4. l = 2 => y \in Int /\ 1 <= y /\ y <= MaxAccesses
    <3>1. l = 2 => y = base + l /\ y \in Int /\ 1 <= y
      BY <2>1, <2>2
    <3>2. top \in Int
      <4>1. PICK d \in {0, 1} : top = base + l + d
        BY <1>6 DEF NumberedOK, Numbered
      <4>. QED BY <1>7, <2>2, <4>1
    <3>. QED BY <1>3, <3>1, <3>2, AccessAssumption
  <2>. QED BY <2>1, <2>3, <2>4, WindowBounds
<1>. QED
  BY <1>1, <1>4, <1>5, <1>6 DEF Rec, Record

\* One access more.
LEMMA OneOpened ==
  ASSUME NEW v \in Members, NEW k \in Kinds, NEW m \in Nat, Good(v, k, m), NEW r \in Record, r.id = m + 1,
         NEW j \in Nat, Fresh(v, k, j, r.count)
  PROVE  LET u == Opened(v, k, r)
         IN  /\ u \in Members /\ Good(u, k, m + 1) /\ Flag(u, k) /\ (Only(v, k) => Only(u, k))
             /\ Pending(u) = Pending(v) \cup {m + 1} /\ ToPut(u) = ToPut(v) /\ u.puts = v.puts
             /\ u.bufc = v.bufc /\ u.shape = v.shape /\ Fresh(u, k, j + 1, r.count)
<1>. DEFINE u == Opened(v, k, r)
            q == ListOf(v, k)
<1>1. u \in Members
  BY OpenedIs
<1>2. /\ Good(u, k, m + 1) /\ Flag(u, k) /\ (Only(v, k) => Only(u, k))
      /\ Pending(u) = Pending(v) \cup {m + 1} /\ ToPut(u) = ToPut(v) /\ u.puts = v.puts
      /\ u.bufc = v.bufc /\ u.shape = v.shape
      /\ u.gets[q] = v.gets[q]
      /\ Len(u.info[q]) = Len(v.info[q]) + 1 /\ u.info[q][Len(u.info[q])] = r
      /\ \A i \in 1 .. Len(v.info[q]) : u.info[q][i] = v.info[q][i]
  BY OpenedGood
<1>. HIDE DEF u
<1>3. ListOf(u, k) = q /\ q \in Lists
  BY <1>2, SameList, ListIs
<1>4. v.gets[q] \in Nat /\ Len(v.info[q]) \in Nat
  BY <1>3, ListsAre
<1>. HIDE DEF q
<1>5. Fresh(u, k, j + 1, r.count)
  <2>1. SUFFICES ASSUME u.bufc < PREALLOC
                 PROVE  /\ Len(u.info[q]) = u.gets[q] + (j + 1)
                        /\ \A i \in 1 .. j + 1 : u.info[q][u.gets[q] + i].count = r.count
    BY <1>3 DEF Fresh
  <2>2. Len(v.info[q]) = v.gets[q] + j /\ \A i \in 1 .. j : v.info[q][v.gets[q] + i].count = r.count
    BY <1>2, <2>1 DEF Fresh, q
  <2>3. Len(u.info[q]) = u.gets[q] + (j + 1)
    <3>1. PICK g, L : g = v.gets[q] /\ L = Len(v.info[q])
      OBVIOUS
    <3>2. g \in Nat /\ L = g + j
      BY <1>4, <2>2, <3>1
    <3>3. L + 1 = g + (j + 1)
      BY <3>2
    <3>. QED BY <1>2, <3>1, <3>3
  <2>4. ASSUME NEW i \in 1 .. j + 1 PROVE u.info[q][u.gets[q] + i].count = r.count
    <3>1. CASE i = j + 1
      BY <1>2, <2>3, <3>1
    <3>2. CASE i # j + 1
      <4>1. i \in 1 .. j /\ v.gets[q] + i \in 1 .. Len(v.info[q])
        BY <1>4, <2>2, <3>2
      <4>. QED BY <1>2, <2>2, <4>1
    <3>. QED BY <3>1, <3>2
  <2>. QED BY <2>3, <2>4
<1>. QED
  BY <1>1, <1>2, <1>5 DEF u

\* A window whose gets were all posted has no fresh record.
LEMMA SoundFresh ==
  ASSUME NEW v \in Members, NEW k \in Kinds, NEW m \in Nat, Good(v, k, m), NEW count
  PROVE  Fresh(v, k, 0, count) <=> (v.bufc < PREALLOC => Unposted(v, k) = 0)
<1>1. ListOf(v, k) \in Lists
  BY ListIs
<1>2. v.gets[ListOf(v, k)] \in Nat /\ Len(v.info[ListOf(v, k)]) \in Nat
  BY <1>1, ListsAre
<1>3. Len(v.info[ListOf(v, k)]) = v.gets[ListOf(v, k)] + 0 <=> Unposted(v, k) = 0
  BY <1>2 DEF Unposted
<1>4. ~ \E i : i \in 1 .. 0
  OBVIOUS
<1>. QED
  BY <1>3, <1>4 DEF Fresh

\* The accesses of a statement's operands.
LEMMA AllOpened ==
  ASSUME NEW c, NEW m \in Nat, NEW top, NumberedOK(c, m, top),
         NEW v \in Members, Good(v, c.kind, m), v.bufc < PREALLOC => Unposted(v, c.kind) = 0
  PROVE  LET u == OpenedAll(v, c)
             k == c.kind
             l == Len(c.wins)
         IN  /\ u \in Members /\ Good(u, k, m + l) /\ Flag(u, k) /\ (Only(v, k) => Only(u, k))
             /\ Pending(u) = Pending(v) \cup (m + 1 .. m + l) /\ ToPut(u) = ToPut(v) /\ u.puts = v.puts
             /\ u.bufc = v.bufc /\ u.shape = v.shape /\ Fresh(u, k, l, c.count)
<1>. DEFINE k == c.kind
            l == Len(c.wins)
            r == Rec(c, 1)
            s == Rec(c, 2)
            x == Opened(v, k, r)
            u == Opened(x, k, s)
<1>1. /\ k \in Kinds /\ c.count \in Nat \ {0} /\ l \in {1, 2}
      /\ r \in Record /\ r.id = m + 1 /\ r.count = c.count
      /\ l = 2 => s \in Record /\ s.id = m + 2 /\ s.count = c.count
  BY NumbersAre
<1>. HIDE DEF k, l, r, s
<1>2. Fresh(v, k, 0, c.count)
  BY <1>1, SoundFresh DEF k
<1>3. /\ x \in Members /\ Good(x, k, m + 1) /\ Flag(x, k) /\ (Only(v, k) => Only(x, k))
      /\ Pending(x) = Pending(v) \cup {m + 1} /\ ToPut(x) = ToPut(v) /\ x.puts = v.puts
      /\ x.bufc = v.bufc /\ x.shape = v.shape /\ Fresh(x, k, 0 + 1, c.count)
  <2>1. Good(v, k, m) /\ 0 \in Nat
    BY DEF k
  <2>2. /\ x \in Members /\ Good(x, k, m + 1) /\ Flag(x, k) /\ (Only(v, k) => Only(x, k))
        /\ Pending(x) = Pending(v) \cup {m + 1} /\ ToPut(x) = ToPut(v) /\ x.puts = v.puts
        /\ x.bufc = v.bufc /\ x.shape = v.shape /\ Fresh(x, k, 0 + 1, r.count)
    <3>. HIDE DEF x
    <3>. QED BY <1>1, <1>2, <2>1, OneOpened DEF x
  <2>. QED BY <1>1, <2>2
<1>. HIDE DEF x
<1>4. CASE l = 1
  <2>1. OpenedAll(v, c) = x
    BY <1>4 DEF OpenedAll, l, k, r, x
  <2>2. m + 1 .. m + l = {m + 1} /\ m + l = m + 1 /\ 0 + 1 = l
    BY <1>4
  <2>. QED BY <1>3, <2>1, <2>2 DEF k, l
<1>5. CASE l = 2
  <2>1. OpenedAll(v, c) = u
    BY <1>1, <1>5 DEF OpenedAll, l, k, r, s, x, u
  <2>2. m + 1 .. m + l = {m + 1} \cup {m + 2} /\ m + l = (m + 1) + 1 /\ (0 + 1) + 1 = l /\ m + 1 \in Nat /\ 0 + 1 \in Nat
    BY <1>5
  <2>3. s.id = (m + 1) + 1
    BY <1>1, <1>5
  <2>4. /\ u \in Members /\ Good(u, k, (m + 1) + 1) /\ Flag(u, k) /\ (Only(x, k) => Only(u, k))
        /\ Pending(u) = Pending(x) \cup {(m + 1) + 1} /\ ToPut(u) = ToPut(x) /\ u.puts = x.puts
        /\ u.bufc = x.bufc /\ u.shape = x.shape /\ Fresh(u, k, (0 + 1) + 1, s.count)
    <3>1. s \in Record /\ s.count = c.count
      BY <1>1, <1>5
    <3>. HIDE DEF u
    <3>. QED BY <1>1, <1>3, <2>2, <2>3, <3>1, OneOpened DEF u
  <2>. HIDE DEF u
  <2>5. (m + 1) + 1 = m + 2
    OBVIOUS
  <2>6. Pending(u) = Pending(v) \cup (m + 1 .. m + l)
    BY <1>3, <2>2, <2>4, <2>5
  <2>7. s.count = c.count
    BY <1>1, <1>5
  <2>. QED BY <1>3, <2>1, <2>2, <2>4, <2>6, <2>7 DEF k, l
<1>. QED
  BY <1>1, <1>4, <1>5

\* Room for one get, and for the next after it.
Fits(b, c) == b >= PREALLOC \/ (b + c <= PREALLOC /\ (b = 0 => c < PREALLOC))

LEMMA RoomIs ==
  ASSUME NEW v, v.bufc \in Nat, NEW c \in Nat
  PROVE  /\ Room(v, 1, c) => Fits(v.bufc, c)
         /\ Room(v, 2, c) => Fits(v.bufc, c) /\ Fits(v.bufc + c, c)
<1>1. PICK b : b = v.bufc /\ b \in Nat
  OBVIOUS
<1>2. b + (1 - 1) * c = b /\ b + (2 - 1) * c = b + c /\ 1 \in 1 .. 1 /\ 1 \in 1 .. 2 /\ 2 \in 1 .. 2
  BY <1>1
<1>3. ASSUME NEW m, NEW j \in 1 .. m, Room(v, m, c) PROVE Fits(b + (j - 1) * c, c)
  BY <1>1, <1>3 DEF Room, Fits
<1>. QED
  BY <1>1, <1>2, <1>3

\* The get of a fresh record is posted, if there is room left, and fits.
LEMMA OnePosted ==
  ASSUME NEW v \in Members, NEW k \in Kinds, NEW m \in Nat, Good(v, k, m), NEW j \in Nat,
         NEW count \in Nat \ {0}, Fresh(v, k, j + 1, count), k = "bulk" => Fits(v.bufc, count)
  PROVE  LET u == Posted(v, k)
         IN  /\ ~PostWild(v, k)
             /\ u \in Members /\ Good(u, k, m) /\ Fresh(u, k, j, count)
             /\ Pending(u) = Pending(v) /\ ToPut(u) = ToPut(v) /\ u.shape = v.shape
             /\ u.puts = v.puts /\ u.isElem = v.isElem /\ u.isBulk = v.isBulk
             /\ k = "bulk" /\ v.bufc < PREALLOC => u.bufc = v.bufc + count
             /\ v.bufc >= PREALLOC => u.bufc = v.bufc
<1>. DEFINE u == Posted(v, k)
            q == ListOf(v, k)
            r == NextGet(v, k)
<1>1. q \in Lists
  BY ListIs
<1>2. PICK b, P, g, L : b = v.bufc /\ P = PREALLOC /\ g = v.gets[q] /\ L = Len(v.info[q])
  OBVIOUS
<1>3. b \in Nat /\ P \in Nat \ {0} /\ g \in Nat /\ L \in Nat
  BY <1>1, <1>2, ListsAre, MembersAre, WindowBounds
<1>4. b < P => /\ L = g + (j + 1)
               /\ \A i \in 1 .. j + 1 : v.info[q][g + i].count = count
  BY <1>2 DEF Fresh
<1>5. b < P => r.count = count /\ g < L
  <2>1. 1 \in 1 .. j + 1 /\ g < g + (j + 1)
    BY <1>3
  <2>. QED BY <1>2, <1>4, <2>1 DEF NextGet
<1>6. k = "bulk" => b >= P \/ (b + count <= P /\ (b = 0 => count < P))
  BY <1>2 DEF Fits
<1>. HIDE DEF q, r
<1>7. Posts(v, k) <=> b < P
  BY <1>2, <1>3, <1>5, <1>6 DEF Posts, r
<1>8. ~PostWild(v, k)
  <2>1. b < P => ~(g >= L)
    BY <1>3, <1>5
  <2>2. b < P => ~(b + SizeOf(k, r) > P)
    <3>1. CASE k = "bulk"
      BY <1>3, <1>5, <1>6, <3>1 DEF SizeOf
    <3>2. CASE k = "elem"
      BY <1>3, <3>2 DEF SizeOf
    <3>. QED BY <3>1, <3>2 DEF Kinds
  <2>. QED BY <1>2, <2>1, <2>2 DEF PostWild, q, r
<1>9. CASE ~(b < P)
  <2>1. u = v
    BY <1>7, <1>9 DEF Posted
  <2>2. Fresh(v, k, j, count)
    BY <1>2, <1>9 DEF Fresh
  <2>. QED BY <1>2, <1>3, <1>8, <1>9, <2>1, <2>2
<1>10. CASE b < P
  <2>1. /\ u \in Members /\ u.bufc = b + SizeOf(k, r) /\ u.gets[q] = g + 1 /\ u.info = v.info
        /\ u.puts = v.puts /\ u.isElem = v.isElem /\ u.isBulk = v.isBulk /\ u.shape = v.shape
    BY <1>2, <1>7, <1>8, <1>10, PostedIs DEF q, r
  <2>2. Good(u, k, m) /\ Pending(u) = Pending(v) /\ ToPut(u) = ToPut(v)
    BY <1>8, PostedGood
  <2>. HIDE DEF u
  <2>3. ListOf(u, k) = q
    BY <2>1, SameList DEF q
  <2>4. Fresh(u, k, j, count)
    <3>1. Len(u.info[q]) = u.gets[q] + j
      <4>1. g + (j + 1) = (g + 1) + j
        BY <1>3
      <4>. QED BY <1>2, <1>4, <1>10, <2>1, <4>1
    <3>2. ASSUME NEW i \in 1 .. j PROVE u.info[q][u.gets[q] + i].count = count
      <4>1. g + (i + 1) = (g + 1) + i /\ i + 1 \in 1 .. j + 1
        BY <1>3
      <4>2. v.info[q][g + (i + 1)].count = count
        BY <1>4, <1>10, <4>1
      <4>. QED BY <2>1, <4>1, <4>2
    <3>. QED BY <2>3, <3>1, <3>2 DEF Fresh
  <2>5. k = "bulk" => u.bufc = b + count
    BY <1>5, <1>10, <2>1 DEF SizeOf
  <2>. QED BY <1>2, <1>3, <1>8, <1>10, <2>1, <2>2, <2>4, <2>5 DEF u
<1>. QED
  BY <1>9, <1>10

\* The gets of a statement's operands.
LEMMA AllPosted ==
  ASSUME NEW c, NEW n0, NEW top, NumberedOK(c, n0, top), NEW m \in Nat,
         NEW v \in Members, Good(v, c.kind, m), Fresh(v, c.kind, Len(c.wins), c.count),
         c.kind = "bulk" => Room(v, Len(c.wins), c.count)
  PROVE  LET u == PostedAll(v, c)
             k == c.kind
         IN  /\ ~PostWild(v, k) /\ (Len(c.wins) = 2 => ~PostWild(Posted(v, k), k))
             /\ u \in Members /\ Good(u, k, m)
             /\ Pending(u) = Pending(v) /\ ToPut(u) = ToPut(v) /\ u.shape = v.shape
             /\ u.puts = v.puts /\ u.isElem = v.isElem /\ u.isBulk = v.isBulk
             /\ u.bufc < PREALLOC => Unposted(u, k) = 0
<1>. DEFINE k == c.kind
            l == Len(c.wins)
            d == c.count
            x == Posted(v, k)
            y == Posted(x, k)
<1>1. k \in Kinds /\ d \in Nat \ {0} /\ l \in {1, 2}
  BY NumbersAre
<1>2. v.bufc \in Nat /\ PREALLOC \in Nat
  BY MembersAre, WindowBounds
<1>3. k = "bulk" => Fits(v.bufc, d) /\ (l = 2 => Fits(v.bufc + d, d))
  BY <1>1, <1>2, RoomIs
<1>. HIDE DEF k, l, d
<1>4. Good(v, k, m) /\ Fresh(v, k, l, d)
  BY DEF k, l, d
<1>5. PICK j \in Nat : l = j + 1 /\ (l = 1 => j = 0) /\ (l = 2 => j = 1)
  BY <1>1
<1>6. /\ ~PostWild(v, k)
      /\ x \in Members /\ Good(x, k, m) /\ Fresh(x, k, j, d)
      /\ Pending(x) = Pending(v) /\ ToPut(x) = ToPut(v) /\ x.shape = v.shape
      /\ x.puts = v.puts /\ x.isElem = v.isElem /\ x.isBulk = v.isBulk
      /\ k = "bulk" /\ v.bufc < PREALLOC => x.bufc = v.bufc + d
      /\ v.bufc >= PREALLOC => x.bufc = v.bufc
  <2>1. Fresh(v, k, j + 1, d)
    BY <1>4, <1>5
  <2>. HIDE DEF x
  <2>. QED BY <1>1, <1>3, <1>4, <2>1, OnePosted DEF x
<1>. HIDE DEF x
<1>7. CASE l = 1
  <2>1. PostedAll(v, c) = x
    BY <1>7 DEF PostedAll, l, k, x
  <2>2. Fresh(x, k, 0, d)
    BY <1>5, <1>6, <1>7
  <2>3. x.bufc < PREALLOC => Unposted(x, k) = 0
    BY <1>1, <1>6, <2>2, SoundFresh
  <2>. QED BY <1>6, <1>7, <2>1, <2>3 DEF k, l
<1>8. CASE l = 2
  <2>1. PostedAll(v, c) = y
    BY <1>1, <1>8 DEF PostedAll, l, k, x, y
  <2>2. Fresh(x, k, 0 + 1, d) /\ 0 \in Nat
    BY <1>5, <1>6, <1>8
  <2>3. k = "bulk" => Fits(x.bufc, d)
    <3>1. CASE v.bufc < PREALLOC
      BY <1>3, <1>6, <1>8, <3>1
    <3>2. CASE v.bufc >= PREALLOC
      BY <1>6, <3>2 DEF Fits
    <3>. QED BY <1>2, <3>1, <3>2
  <2>4. /\ ~PostWild(x, k)
        /\ y \in Members /\ Good(y, k, m) /\ Fresh(y, k, 0, d)
        /\ Pending(y) = Pending(x) /\ ToPut(y) = ToPut(x) /\ y.shape = x.shape
        /\ y.puts = x.puts /\ y.isElem = x.isElem /\ y.isBulk = x.isBulk
    <3>. HIDE DEF y
    <3>. QED BY <1>1, <1>6, <2>2, <2>3, OnePosted DEF y
  <2>. HIDE DEF y
  <2>5. y.bufc < PREALLOC => Unposted(y, k) = 0
    BY <1>1, <2>4, SoundFresh
  <2>. QED BY <1>6, <1>8, <2>1, <2>4, <2>5 DEF k, l, x
<1>. QED
  BY <1>1, <1>7, <1>8

\* The operands of a statement are the first accesses pending, and what its evaluation
\* does then to the window they are made of, for all l of them.
First(v, c, a) == a + 1 .. a + Len(c.wins) \subseteq Pending(v) /\ \A y \in Pending(v) : a + 1 <= y
FirstRead(v, c, a) ==
  LET u == EvaluatedAll(v, c)
      k == c.kind
      l == Len(c.wins)
      x == Evaluated(v, k)
  IN  /\ ~EvalWild(v, k) /\ Data(v, k) = {a + 1}
      /\ l = 2 => ~EvalWild(x, k) /\ Data(x, k) = {a + 2}
      /\ u \in Members /\ (Flag(v, k) => Flag(u, k)) /\ (Only(v, k) => Only(u, k))
      /\ Pending(u) = Pending(v) \ (a + 1 .. a + l) /\ ToPut(u) = ToPut(v) /\ u.shape = v.shape
      /\ u.bufc < PREALLOC => Unposted(u, k) = 0

LEMMA AllEvaluated ==
  ASSUME NEW c, NEW a \in Nat, NEW top, NumberedOK(c, a, top), NEW m \in Nat,
         NEW v \in Members, Good(v, c.kind, m), v.bufc < PREALLOC => Unposted(v, c.kind) = 0, First(v, c, a)
  PROVE  FirstRead(v, c, a) /\ Good(EvaluatedAll(v, c), c.kind, m)
<1>0. a + 1 .. a + Len(c.wins) \subseteq Pending(v) /\ \A y \in Pending(v) : a + 1 <= y
  BY DEF First
<1>. DEFINE k == c.kind
            l == Len(c.wins)
            x == Evaluated(v, k)
            u == Evaluated(x, k)
<1>1. k \in Kinds /\ l \in {1, 2}
  BY NumbersAre
<1>. HIDE DEF k, l
<1>2. Good(v, k, m) /\ (v.bufc < PREALLOC => Unposted(v, k) = 0)
  BY DEF k
<1>3. \A y \in Pending(v) : y \in Int
  <2>1. \A q \in Lists : \A i \in v.xfers[q] + 1 .. Len(v.info[q]) : v.info[q][i].id \in Int
    <3>. TAKE q \in Lists
    <3>1. v.xfers[q] \in Nat /\ Len(v.info[q]) \in Nat /\ \A i \in 1 .. Len(v.info[q]) : v.info[q][i].id \in Accesses
      BY ListsAre
    <3>2. \A i \in v.xfers[q] + 1 .. Len(v.info[q]) : i \in 1 .. Len(v.info[q])
      BY <3>1
    <3>. QED BY <3>1, <3>2, WindowBounds
  <2>. QED BY <2>1, PendingIs
<1>4. a + 1 \in Pending(v) /\ (l = 2 => a + 2 \in Pending(v))
  <2>1. a + 1 \in a + 1 .. a + l /\ (l = 2 => a + 2 \in a + 1 .. a + l)
    BY <1>1
  <2>. QED BY <1>0, <2>1 DEF l
<1>5. /\ ~EvalWild(v, k) /\ Data(v, k) = {a + 1}
      /\ x \in Members /\ Good(x, k, m) /\ (Flag(v, k) => Flag(x, k)) /\ (Only(v, k) => Only(x, k))
      /\ Pending(x) = Pending(v) \ {a + 1} /\ ToPut(x) = ToPut(v) /\ x.shape = v.shape /\ x.puts = v.puts
      /\ x.bufc < PREALLOC => Unposted(x, k) = 0
  <2>. DEFINE r == NextXfer(v, k)
  <2>. HIDE DEF x, r
  <2>1. Pending(v) # {}
    BY <1>4
  <2>2. /\ ~EvalWild(v, k) /\ Good(x, k, m) /\ (Flag(v, k) => Flag(x, k)) /\ (Only(v, k) => Only(x, k))
        /\ Data(v, k) = {r.id} /\ r.id \in Pending(v) /\ r.id \in Accesses
        /\ \A y \in Pending(v) : y = r.id \/ r.id < y
        /\ Pending(x) = Pending(v) \ {r.id} /\ ToPut(x) = ToPut(v)
        /\ Unposted(x, k) = Unposted(v, k) /\ x.bufc = v.bufc /\ x.shape = v.shape
        /\ x.puts = v.puts
    BY <1>1, <1>2, <2>1, EvaluatedGood DEF x, r
  <2>3. r.id = a + 1
    <3>1. PICK e : e = r.id /\ e \in Int /\ a + 1 <= e /\ (a + 1 = e \/ e < a + 1)
      BY <1>0, <1>3, <1>4, <2>2
    <3>. QED BY <3>1
  <2>4. x \in Members
    BY <1>1, <2>2, EvaluatedIs DEF x
  <2>. QED BY <1>2, <2>2, <2>3, <2>4
<1>. HIDE DEF x
<1>6. CASE l = 1
  <2>1. EvaluatedAll(v, c) = x
    BY <1>6 DEF EvaluatedAll, l, k, x
  <2>2. a + 1 .. a + l = {a + 1}
    BY <1>6
  <2>. QED BY <1>5, <1>6, <2>1, <2>2 DEF k, l, FirstRead
<1>7. CASE l = 2
  <2>1. EvaluatedAll(v, c) = u
    BY <1>1, <1>7 DEF EvaluatedAll, l, k, x, u
  <2>2. a + 1 .. a + l = {a + 1} \cup {a + 2}
    BY <1>7
  <2>3. a + 2 \in Pending(x) /\ \A y \in Pending(x) : y \in Int /\ a + 2 <= y
    <3>1. \A y \in Pending(v) : y # a + 1 => a + 2 <= y
      BY <1>0, <1>3
    <3>2. a + 2 # a + 1
      OBVIOUS
    <3>. QED BY <1>3, <1>4, <1>5, <1>7, <3>1, <3>2
  <2>4. /\ ~EvalWild(x, k) /\ Data(x, k) = {a + 2}
        /\ u \in Members /\ Good(u, k, m) /\ (Flag(x, k) => Flag(u, k)) /\ (Only(x, k) => Only(u, k))
        /\ Pending(u) = Pending(x) \ {a + 2} /\ ToPut(u) = ToPut(x) /\ u.shape = x.shape /\ u.puts = x.puts
        /\ u.bufc < PREALLOC => Unposted(u, k) = 0
    <3>. DEFINE r == NextXfer(x, k)
    <3>. HIDE DEF u, r
    <3>1. Pending(x) # {}
      BY <2>3
    <3>2. /\ ~EvalWild(x, k) /\ Good(u, k, m) /\ (Flag(x, k) => Flag(u, k)) /\ (Only(x, k) => Only(u, k))
          /\ Data(x, k) = {r.id} /\ r.id \in Pending(x) /\ r.id \in Accesses
          /\ \A y \in Pending(x) : y = r.id \/ r.id < y
          /\ Pending(u) = Pending(x) \ {r.id} /\ ToPut(u) = ToPut(x)
          /\ Unposted(u, k) = Unposted(x, k) /\ u.bufc = x.bufc /\ u.shape = x.shape
          /\ u.puts = x.puts
      BY <1>1, <1>5, <3>1, EvaluatedGood DEF u, r
    <3>3. r.id = a + 2
      <4>1. PICK e : e = r.id /\ e \in Int /\ a + 2 <= e /\ (a + 2 = e \/ e < a + 2)
        BY <2>3, <3>2
      <4>. QED BY <4>1
    <3>4. u \in Members
      BY <1>1, <1>5, <3>2, EvaluatedIs DEF u
    <3>. QED BY <1>5, <3>2, <3>3, <3>4
  <2>. HIDE DEF u
  <2>. QED BY <1>5, <1>7, <2>1, <2>2, <2>4 DEF k, l, x, FirstRead
<1>. QED
  BY <1>1, <1>6, <1>7

\* The kinds of access a window saw are not forgotten.
Grown(u, v) == (v.isElem => u.isElem) /\ (v.isBulk => u.isBulk)

LEMMA GrownFlags ==
  ASSUME NEW u, NEW v, Grown(u, v)
  PROVE  /\ \A k : Flag(v, k) => Flag(u, k)
         /\ \A k : Only(u, k) => Only(v, k)
         /\ \A x : Grown(v, x) => Grown(u, x)
BY DEF Grown, Flag, Only

\* What a statement puts into: its access is recorded, and its record becomes a put.
SinksWell(v, k, r, m) ==
  LET x == Opened(v, k, r)
      u == Ignored(x)
  IN  /\ x.info[LastList(x)] # <<>>
      /\ u \in Members /\ Good(u, k, m + 1) /\ Flag(u, k) /\ Only(u, k) /\ Grown(u, v)
      /\ Pending(u) = Pending(v) /\ ToPut(u) = ToPut(v) \cup {m + 1}
      /\ u.bufc = v.bufc /\ u.shape = v.shape /\ Unposted(u, k) = Unposted(v, k)
      /\ \A j \in Nat : \A count : Fresh(v, k, j, count) => Fresh(u, k, j, count)

LEMMA SinkOpened ==
  ASSUME NEW v \in Members, NEW k \in Kinds, NEW m \in Nat, Good(v, k, m), Only(v, k),
         NEW r \in Record, r.id = m + 1
  PROVE  SinksWell(v, k, r, m)
<1>. DEFINE x == Opened(v, k, r)
            u == Ignored(x)
            q == ListOf(v, k)
<1>1. x \in Members
  BY OpenedIs
<1>18. Grown(x, v)
  <2>1. x.isElem = (v.isElem \/ k = "elem") /\ x.isBulk = (v.isBulk \/ k = "bulk")
    BY OpenedIs
  <2>. QED BY <2>1, Zenon DEF Grown
<1>2. /\ Good(x, k, m + 1) /\ Flag(x, k) /\ Only(x, k)
      /\ Pending(x) = Pending(v) \cup {m + 1} /\ ToPut(x) = ToPut(v) /\ x.puts = v.puts
      /\ Unposted(x, k) = Unposted(v, k) + 1 /\ x.bufc = v.bufc /\ x.shape = v.shape
      /\ x.gets[q] = v.gets[q] /\ x.xfers[q] = v.xfers[q]
      /\ Len(x.info[q]) = Len(v.info[q]) + 1 /\ x.info[q][Len(x.info[q])] = r
      /\ v.gets[q] <= Len(v.info[q]) /\ v.xfers[q] <= Len(v.info[q])
      /\ \A i \in 1 .. Len(v.info[q]) : x.info[q][i] = v.info[q][i]
      /\ \A i \in DOMAIN v.puts[q] : v.puts[q][i] < m + 1
  BY OpenedGood
<1>. HIDE DEF x
<1>3. q \in Lists /\ ListOf(x, k) = q
  BY <1>2, ListIs, SameList
<1>4. LastList(x) = ListOf(x, k)
  <2>1. x.shape \in Shapes
    BY <1>1, MembersAre
  <2>2. x.shape.view = "LOCAL_VIEW" /\ x.shape.ndims \in Nat \ {0}
    BY <2>1, ViewAssumption, ShapeAssumption
  <2>3. CASE k = "elem"
    BY <1>2, <2>2, <2>3 DEF LastList, IgnoredList, ListOf, Flag
  <2>4. CASE k = "bulk"
    <3>1. ~x.isElem
      BY <1>2, <2>4 DEF Only
    <3>2. x.shape.ndims > 1 <=> x.shape.ndims # 1
      BY <2>2
    <3>. QED BY <2>2, <2>4, <3>1, <3>2 DEF LastList, IgnoredList, ListOf
  <2>. QED BY <2>3, <2>4 DEF Kinds
<1>5. v.gets[q] \in Nat /\ v.xfers[q] \in Nat /\ Len(v.info[q]) \in Nat
  BY <1>3, ListsAre
<1>. HIDE DEF q
<1>6. Len(x.info[q]) > 0 /\ x.xfers[q] < Len(x.info[q]) /\ x.gets[q] < Len(x.info[q])
  BY <1>2, <1>5
<1>7. x.info[q][Len(x.info[q])].id = m + 1 /\ \A i \in DOMAIN x.puts[q] : x.puts[q][i] < m + 1
  BY <1>2
<1>8. /\ Good(u, k, m + 1) /\ Flag(u, k) /\ Only(u, k)
      /\ x.info[LastList(x)] # <<>>
      /\ Pending(u) = Pending(x) \ {m + 1} /\ ToPut(u) = ToPut(x) \cup {m + 1}
      /\ Unposted(u, k) = Unposted(x, k) - 1 /\ u.bufc = x.bufc /\ u.shape = x.shape
      /\ u.gets[q] = x.gets[q]
      /\ Len(u.info[q]) = Len(x.info[q]) - 1
      /\ \A i \in 1 .. Len(u.info[q]) : u.info[q][i] = x.info[q][i]
  <2>1. m + 1 \in Nat
    OBVIOUS
  <2>2. /\ x \in Members /\ Good(x, k, m + 1) /\ LastList(x) = ListOf(x, k) /\ Flag(x, k)
        /\ Len(x.info[ListOf(x, k)]) > 0 /\ x.info[ListOf(x, k)][Len(x.info[ListOf(x, k)])].id = m + 1
        /\ x.xfers[ListOf(x, k)] < Len(x.info[ListOf(x, k)]) /\ x.gets[ListOf(x, k)] < Len(x.info[ListOf(x, k)])
        /\ \A i \in DOMAIN x.puts[ListOf(x, k)] : x.puts[ListOf(x, k)][i] < m + 1
    BY <1>1, <1>2, <1>3, <1>4, <1>6, <1>7
  <2>. HIDE DEF u
  <2>3. /\ Good(u, k, m + 1) /\ Flag(u, k) /\ (Only(x, k) => Only(u, k))
        /\ x.info[LastList(x)] # <<>>
        /\ Pending(u) = Pending(x) \ {m + 1} /\ ToPut(u) = ToPut(x) \cup {m + 1}
        /\ Unposted(u, k) = Unposted(x, k) - 1 /\ u.bufc = x.bufc /\ u.shape = x.shape
        /\ u.gets[ListOf(x, k)] = x.gets[ListOf(x, k)]
        /\ Len(u.info[ListOf(x, k)]) = Len(x.info[ListOf(x, k)]) - 1
        /\ \A i \in 1 .. Len(u.info[ListOf(x, k)]) : u.info[ListOf(x, k)][i] = x.info[ListOf(x, k)][i]
    BY <2>1, <2>2, IgnoredGood DEF u
  <2>4. Only(x, k) /\ ListOf(x, k) = q
    BY <1>2, <1>3
  <2>. QED BY <2>3, <2>4
<1>9. u \in Members /\ Grown(u, v)
  <2>1. u \in Members /\ u.isElem = x.isElem /\ u.isBulk = x.isBulk
    BY <1>1, <1>8, IgnoredIs
  <2>. QED BY <1>18, <2>1 DEF Grown
<1>. HIDE DEF u
<1>10. m + 1 \notin Pending(v)
  <2>1. SUFFICES ASSUME NEW p \in Lists, NEW i \in v.xfers[p] + 1 .. Len(v.info[p]) PROVE v.info[p][i].id # m + 1
    BY PendingIs
  <2>2. i \in DOMAIN v.info[p] /\ v.info[p][i].id \in Int
    <3>1. v.xfers[p] \in Nat /\ Len(v.info[p]) \in Nat /\ DOMAIN v.info[p] = 1 .. Len(v.info[p])
          /\ \A j \in 1 .. Len(v.info[p]) : v.info[p][j].id \in Accesses
      BY ListsAre
    <3>2. i \in 1 .. Len(v.info[p])
      BY <3>1
    <3>. QED BY <3>1, <3>2, WindowBounds
  <2>3. InOrder(v, m)
    BY DEF Good
  <2>4. v.info[p][i].id <= m
    BY <2>2, <2>3 DEF InOrder
  <2>. QED BY <2>2, <2>4
<1>11. Pending(u) = Pending(v) /\ ToPut(u) = ToPut(v) \cup {m + 1}
  BY <1>2, <1>8, <1>10
<1>12. Unposted(v, k) \in Int
  BY <1>5 DEF Unposted, q
<1>13. Unposted(u, k) = Unposted(v, k)
  <2>1. PICK y : y = Unposted(v, k)
    OBVIOUS
  <2>2. (y + 1) - 1 = y
    BY <1>12, <2>1
  <2>. QED BY <1>2, <1>8, <2>1, <2>2
<1>14. ListOf(u, k) = q
  BY <1>3, <1>8, SameList
<1>15. Len(u.info[q]) = Len(v.info[q]) /\ u.gets[q] = v.gets[q] /\ u.bufc = v.bufc
  <2>1. PICK y : y = Len(v.info[q])
    OBVIOUS
  <2>2. (y + 1) - 1 = y
    BY <1>5, <2>1
  <2>. QED BY <1>2, <1>8, <2>1, <2>2
<1>16. \A i \in 1 .. Len(v.info[q]) : u.info[q][i] = v.info[q][i]
  BY <1>2, <1>8, <1>15
<1>17. ASSUME NEW j \in Nat, NEW count, Fresh(v, k, j, count) PROVE Fresh(u, k, j, count)
  <2>1. SUFFICES ASSUME v.bufc < PREALLOC
                 PROVE  /\ Len(v.info[q]) = v.gets[q] + j
                        /\ \A i \in 1 .. j : u.info[q][v.gets[q] + i].count = count
    BY <1>14, <1>15 DEF Fresh
  <2>2. Len(v.info[q]) = v.gets[q] + j /\ \A i \in 1 .. j : v.info[q][v.gets[q] + i].count = count
    BY <1>17, <2>1 DEF Fresh, q
  <2>3. \A i \in 1 .. j : v.gets[q] + i \in 1 .. Len(v.info[q])
    BY <1>5, <2>2
  <2>. QED BY <1>16, <2>2, <2>3
<1>. QED
  BY <1>2, <1>8, <1>9, <1>11, <1>13, <1>17 DEF u, x, SinksWell

-----------------------------------------------------------------------------
(***************************************************************************)
(* The same of a window that is read whatever was put into it.             *)
(***************************************************************************)

\* A read leaves the puts alone.
LEMMA ReadsKeepPuts ==
  ASSUME NEW v \in Members, NEW k \in Kinds
  PROVE  /\ \A r \in Record : Opened(v, k, r) \in Members /\ ToPut(Opened(v, k, r)) = ToPut(v) /\ Grown(Opened(v, k, r), v)
         /\ ~PostWild(v, k) => Posted(v, k) \in Members /\ ToPut(Posted(v, k)) = ToPut(v) /\ Grown(Posted(v, k), v)
         /\ ~EvalWild(v, k) => Evaluated(v, k) \in Members /\ ToPut(Evaluated(v, k)) = ToPut(v) /\ Grown(Evaluated(v, k), v)
<1>1. ASSUME NEW u, u.puts = v.puts, u.putc = v.putc PROVE ToPut(u) = ToPut(v)
  <2>1. ASSUME NEW x PROVE x \in ToPut(u) <=> x \in ToPut(v)
    BY <1>1, ToPutIs
  <2>. QED BY <2>1
<1>2. ASSUME NEW r \in Record PROVE Opened(v, k, r) \in Members /\ ToPut(Opened(v, k, r)) = ToPut(v) /\ Grown(Opened(v, k, r), v)
  <2>. DEFINE u == Opened(v, k, r)
  <2>1. u \in Members /\ u.puts = v.puts /\ u.putc = v.putc
    BY OpenedIs
  <2>2. u.isElem = (v.isElem \/ k = "elem") /\ u.isBulk = (v.isBulk \/ k = "bulk")
    BY OpenedIs
  <2>. HIDE DEF u
  <2>3. Grown(u, v)
    BY <2>2, Zenon DEF Grown
  <2>. QED BY <1>1, <2>1, <2>3 DEF u
<1>3. ASSUME ~PostWild(v, k) PROVE Posted(v, k) \in Members /\ ToPut(Posted(v, k)) = ToPut(v) /\ Grown(Posted(v, k), v)
  <2>1. CASE ~Posts(v, k)
    BY <2>1 DEF Posted, Grown
  <2>2. CASE Posts(v, k)
    <3>. DEFINE u == Posted(v, k)
    <3>1. u \in Members /\ u.puts = v.puts /\ u.putc = v.putc /\ Grown(u, v)
      BY <1>3, <2>2, PostedIs DEF Grown
    <3>. HIDE DEF u
    <3>. QED BY <1>1, <3>1 DEF u
  <2>. QED BY <2>1, <2>2
<1>4. ASSUME ~EvalWild(v, k) PROVE Evaluated(v, k) \in Members /\ ToPut(Evaluated(v, k)) = ToPut(v) /\ Grown(Evaluated(v, k), v)
  <2>. DEFINE u == Evaluated(v, k)
  <2>1. u \in Members /\ u.puts = v.puts /\ u.putc = v.putc /\ Grown(u, v)
    BY <1>4, EvaluatedIs DEF Grown
  <2>. HIDE DEF u
  <2>. QED BY <1>1, <2>1 DEF u
<1>. QED
  BY <1>2, <1>3, <1>4

LEMMA ViewFresh ==
  ASSUME NEW v \in Members, NEW b, NEW k, NEW j, NEW count
  PROVE  Fresh(View(b, v), k, j, count) <=> Fresh(v, k, j, count)
<1>1. LET u == View(b, v)
      IN  u.info = v.info /\ u.gets = v.gets /\ u.bufc = v.bufc /\ ListOf(u, k) = ListOf(v, k)
  BY ViewIs, ViewSame
<1>. DEFINE u == View(b, v)
<1>2. u.info = v.info /\ u.gets = v.gets /\ u.bufc = v.bufc /\ ListOf(u, k) = ListOf(v, k)
  BY <1>1
<1>. HIDE DEF u
<1>3. Fresh(u, k, j, count) <=> Fresh(v, k, j, count)
  BY <1>2, Zenon DEF Fresh
<1>. QED
  BY <1>3 DEF u

\* What the accesses of a statement's operands, of which m come before, do to the window
\* they are made of; and the posting of their gets.
OpensWell(v, b, c, m) ==
  LET u == OpenedAll(v, c)
      k == c.kind
      l == Len(c.wins)
  IN  /\ u \in Members /\ Good(View(b, u), k, m + l) /\ Flag(u, k) /\ (Only(v, k) => Only(u, k))
      /\ Pending(u) = Pending(v) \cup (m + 1 .. m + l) /\ ToPut(u) = ToPut(v)
      /\ u.bufc = v.bufc /\ u.shape = v.shape /\ Fresh(u, k, l, c.count) /\ Grown(u, v)
PostsWell(v, b, c, m) ==
  LET u == PostedAll(v, c)
      k == c.kind
  IN  /\ ~PostWild(v, k) /\ (Len(c.wins) = 2 => ~PostWild(Posted(v, k), k))
      /\ u \in Members /\ Good(View(b, u), k, m)
      /\ Pending(u) = Pending(v) /\ ToPut(u) = ToPut(v) /\ u.shape = v.shape
      /\ Flag(u, k) = Flag(v, k) /\ Only(u, k) = Only(v, k) /\ Grown(u, v)
      /\ u.bufc < PREALLOC => Unposted(u, k) = 0

LEMMA OpenedRead ==
  ASSUME NEW c, NEW m \in Nat, NEW top, NumberedOK(c, m, top), NEW b,
         NEW v \in Members, Good(View(b, v), c.kind, m), v.bufc < PREALLOC => Unposted(v, c.kind) = 0
  PROVE  OpensWell(v, b, c, m)
<1>. DEFINE k == c.kind
            l == Len(c.wins)
            z == View(b, v)
            u == OpenedAll(v, c)
            y == OpenedAll(z, c)
            x == Opened(v, k, Rec(c, 1))
<1>1. k \in Kinds /\ Rec(c, 1) \in Record /\ (l = 2 => Rec(c, 2) \in Record) /\ l \in {1, 2}
  BY NumbersAre
<1>2. z \in Members /\ z.bufc = v.bufc /\ z.shape = v.shape
  BY ViewIs
<1>3. Pending(z) = Pending(v) /\ Unposted(z, k) = Unposted(v, k) /\ Only(z, k) = Only(v, k)
  BY ViewSame
<1>4. /\ y \in Members /\ Good(y, k, m + l) /\ Flag(y, k) /\ (Only(z, k) => Only(y, k))
      /\ Pending(y) = Pending(z) \cup (m + 1 .. m + l)
      /\ y.bufc = z.bufc /\ y.shape = z.shape /\ Fresh(y, k, l, c.count)
  <2>. HIDE DEF z, y
  <2>1. Good(z, c.kind, m) /\ (z.bufc < PREALLOC => Unposted(z, c.kind) = 0)
    BY <1>2, <1>3 DEF z
  <2>. QED BY <1>2, <2>1, AllOpened DEF y
<1>5. x \in Members /\ ToPut(x) = ToPut(v) /\ Grown(x, v) /\ Opened(z, k, Rec(c, 1)) = View(b, x)
  BY <1>1, ReadsKeepPuts, OpenedView
<1>6. l = 2 => /\ Opened(x, k, Rec(c, 2)) \in Members /\ ToPut(Opened(x, k, Rec(c, 2))) = ToPut(x)
               /\ Grown(Opened(x, k, Rec(c, 2)), x)
               /\ Opened(View(b, x), k, Rec(c, 2)) = View(b, Opened(x, k, Rec(c, 2)))
  <2>. HIDE DEF x, z, k, l
  <2>. QED BY <1>1, <1>5, ReadsKeepPuts, OpenedView
<1>7. u \in Members /\ ToPut(u) = ToPut(v) /\ Grown(u, v) /\ y = View(b, u)
  <2>1. CASE l = 1
    <3>1. u = x /\ y = Opened(z, k, Rec(c, 1))
      BY <2>1 DEF OpenedAll
    <3>. QED BY <1>5, <3>1
  <2>2. CASE l = 2
    <3>1. u = Opened(x, k, Rec(c, 2)) /\ y = Opened(Opened(z, k, Rec(c, 1)), k, Rec(c, 2))
      <4>1. l # 1
        BY <2>2
      <4>. QED BY <4>1 DEF OpenedAll
    <3>. HIDE DEF u, y, x, z, k
    <3>. QED BY <1>5, <1>6, <2>2, <3>1, GrownFlags
  <2>. QED BY <1>1, <2>1, <2>2
<1>. HIDE DEF u, y, z, k, l, x
<1>8. u.bufc = y.bufc /\ u.shape = y.shape
  BY <1>7, ViewIs
<1>9. /\ Pending(u) = Pending(y) /\ Flag(u, k) = Flag(y, k) /\ Only(u, k) = Only(y, k)
      /\ (Fresh(y, k, l, c.count) <=> Fresh(u, k, l, c.count))
  BY <1>7, ViewSame, ViewFresh
<1>. QED
  BY <1>2, <1>3, <1>4, <1>7, <1>8, <1>9 DEF u, k, l, OpensWell

LEMMA PostedRead ==
  ASSUME NEW c, NEW n0, NEW top, NumberedOK(c, n0, top), NEW m \in Nat, NEW b,
         NEW v \in Members, Good(View(b, v), c.kind, m), Fresh(v, c.kind, Len(c.wins), c.count),
         c.kind = "bulk" => Room(v, Len(c.wins), c.count)
  PROVE  PostsWell(v, b, c, m)
<1>. DEFINE k == c.kind
            l == Len(c.wins)
            z == View(b, v)
            u == PostedAll(v, c)
            y == PostedAll(z, c)
            x == Posted(v, k)
<1>1. k \in Kinds /\ l \in {1, 2}
  BY NumbersAre
<1>2. z \in Members /\ z.bufc = v.bufc /\ z.shape = v.shape /\ z.isElem = v.isElem /\ z.isBulk = v.isBulk
  BY ViewIs
<1>3. /\ Pending(z) = Pending(v) /\ (PostWild(z, k) <=> PostWild(v, k))
      /\ Fresh(z, c.kind, Len(c.wins), c.count)
  BY ViewSame, ViewFresh
<1>4. /\ ~PostWild(z, k) /\ (l = 2 => ~PostWild(Posted(z, k), k))
      /\ y \in Members /\ Good(y, k, m)
      /\ Pending(y) = Pending(z) /\ y.shape = z.shape /\ y.isElem = z.isElem /\ y.isBulk = z.isBulk
      /\ y.bufc < PREALLOC => Unposted(y, k) = 0
  <2>. HIDE DEF z, y
  <2>1. Good(z, c.kind, m) /\ (c.kind = "bulk" => Room(z, Len(c.wins), c.count))
    BY <1>2 DEF z, Room
  <2>. QED BY <1>2, <1>3, <2>1, AllPosted DEF y
<1>5. ~PostWild(v, k) /\ x \in Members /\ ToPut(x) = ToPut(v) /\ Grown(x, v) /\ Posted(z, k) = View(b, x)
  BY <1>1, <1>3, <1>4, ReadsKeepPuts, PostedView
<1>6. l = 2 => /\ ~PostWild(x, k) /\ Posted(x, k) \in Members /\ ToPut(Posted(x, k)) = ToPut(x) /\ Grown(Posted(x, k), x)
               /\ Posted(View(b, x), k) = View(b, Posted(x, k))
  <2>. HIDE DEF x, z, k, l
  <2>1. l = 2 => ~PostWild(x, k)
    BY <1>4, <1>5, ViewSame
  <2>. QED BY <1>1, <1>5, <2>1, ReadsKeepPuts, PostedView
<1>7. u \in Members /\ ToPut(u) = ToPut(v) /\ Grown(u, v) /\ y = View(b, u)
  <2>1. CASE l = 1
    <3>1. u = x /\ y = Posted(z, k)
      BY <2>1 DEF PostedAll
    <3>. QED BY <1>5, <3>1
  <2>2. CASE l = 2
    <3>1. u = Posted(x, k) /\ y = Posted(Posted(z, k), k)
      <4>1. l # 1
        BY <2>2
      <4>. QED BY <4>1 DEF PostedAll
    <3>. HIDE DEF u, y, x, z, k
    <3>. QED BY <1>5, <1>6, <2>2, <3>1, GrownFlags
  <2>. QED BY <1>1, <2>1, <2>2
<1>8. l = 2 => ~PostWild(Posted(v, k), k)
  BY <1>6
<1>. HIDE DEF u, y, z, k, l, x
<1>9. u.bufc = y.bufc /\ u.shape = y.shape /\ u.isElem = y.isElem /\ u.isBulk = y.isBulk
  BY <1>7, ViewIs
<1>10. Pending(u) = Pending(y) /\ Unposted(u, k) = Unposted(y, k)
  BY <1>7, ViewSame
<1>11. Flag(u, k) = Flag(v, k) /\ Only(u, k) = Only(v, k)
  BY <1>2, <1>4, <1>9 DEF Flag, Only
<1>. QED
  BY <1>2, <1>3, <1>4, <1>5, <1>7, <1>8, <1>9, <1>10, <1>11 DEF u, k, l, PostsWell

LEMMA EvaluatedRead ==
  ASSUME NEW c, NEW a \in Nat, NEW top, NumberedOK(c, a, top), NEW m \in Nat, NEW b,
         NEW v \in Members, Good(View(b, v), c.kind, m), v.bufc < PREALLOC => Unposted(v, c.kind) = 0, First(v, c, a)
  PROVE  FirstRead(v, c, a) /\ Good(View(b, EvaluatedAll(v, c)), c.kind, m) /\ Grown(EvaluatedAll(v, c), v)
<1>. DEFINE k == c.kind
            l == Len(c.wins)
            z == View(b, v)
            u == EvaluatedAll(v, c)
            w == EvaluatedAll(z, c)
            x == Evaluated(v, k)
<1>1. k \in Kinds /\ l \in {1, 2}
  BY NumbersAre
<1>2. z \in Members /\ z.bufc = v.bufc /\ z.shape = v.shape
  BY ViewIs
<1>3. /\ Pending(z) = Pending(v) /\ Unposted(z, k) = Unposted(v, k) /\ (EvalWild(z, k) <=> EvalWild(v, k))
      /\ Only(z, k) = Only(v, k) /\ Flag(z, k) = Flag(v, k) /\ Data(z, k) = Data(v, k)
  BY ViewSame
<1>0. FirstRead(z, c, a) /\ Good(w, c.kind, m)
  <2>. HIDE DEF z, w
  <2>1. Good(z, c.kind, m) /\ (z.bufc < PREALLOC => Unposted(z, c.kind) = 0) /\ First(z, c, a)
    BY <1>2, <1>3 DEF z, First
  <2>. HIDE DEF k, l, u, x
  <2>. QED BY <1>2, <2>1, AllEvaluated DEF w
<1>4. /\ ~EvalWild(z, k) /\ Data(z, k) = {a + 1}
      /\ l = 2 => ~EvalWild(Evaluated(z, k), k) /\ Data(Evaluated(z, k), k) = {a + 2}
      /\ w \in Members /\ Good(w, k, m) /\ (Flag(z, k) => Flag(w, k)) /\ (Only(z, k) => Only(w, k))
      /\ Pending(w) = Pending(z) \ (a + 1 .. a + l) /\ w.shape = z.shape
      /\ w.bufc < PREALLOC => Unposted(w, k) = 0
  <2>. HIDE DEF z
  <2>. QED BY <1>0 DEF FirstRead
<1>5. ~EvalWild(v, k) /\ x \in Members /\ ToPut(x) = ToPut(v) /\ Grown(x, v) /\ Evaluated(z, k) = View(b, x)
  BY <1>1, <1>3, <1>4, ReadsKeepPuts, EvaluatedView
<1>6. l = 2 => /\ ~EvalWild(x, k) /\ Data(x, k) = {a + 2}
               /\ Evaluated(x, k) \in Members /\ ToPut(Evaluated(x, k)) = ToPut(x) /\ Grown(Evaluated(x, k), x)
               /\ Evaluated(View(b, x), k) = View(b, Evaluated(x, k))
  <2>. HIDE DEF x, z, k, l
  <2>1. l = 2 => ~EvalWild(x, k) /\ Data(x, k) = {a + 2}
    BY <1>4, <1>5, ViewSame
  <2>. QED BY <1>1, <1>5, <2>1, ReadsKeepPuts, EvaluatedView
<1>7. u \in Members /\ ToPut(u) = ToPut(v) /\ Grown(u, v) /\ w = View(b, u)
  <2>1. CASE l = 1
    <3>1. u = x /\ w = Evaluated(z, k)
      BY <2>1 DEF EvaluatedAll
    <3>. QED BY <1>5, <3>1
  <2>2. CASE l = 2
    <3>1. u = Evaluated(x, k) /\ w = Evaluated(Evaluated(z, k), k)
      <4>1. l # 1
        BY <2>2
      <4>. QED BY <4>1 DEF EvaluatedAll
    <3>. HIDE DEF u, w, x, z, k
    <3>. QED BY <1>5, <1>6, <2>2, <3>1, GrownFlags
  <2>. QED BY <1>1, <2>1, <2>2
<1>. HIDE DEF u, w, z, k, l, x
<1>8. u.bufc = w.bufc /\ u.shape = w.shape
  BY <1>7, ViewIs
<1>9. /\ Pending(u) = Pending(w) /\ Unposted(u, k) = Unposted(w, k)
      /\ Only(u, k) = Only(w, k) /\ Flag(u, k) = Flag(w, k)
  BY <1>7, ViewSame
<1>. QED
  BY <1>2, <1>3, <1>4, <1>5, <1>6, <1>7, <1>8, <1>9 DEF u, k, l, x, FirstRead

-----------------------------------------------------------------------------
(***************************************************************************)
(* A statement that reads one window, as a function of all windows.        *)
(***************************************************************************)

\* A statement under way that left no memory.
St(W, g, p) == [win |-> W, wild |-> "no", got |-> g, put |-> p]
With(W, w, v) == [W EXCEPT ![w] = v]
Got(g, i, d) == [g EXCEPT ![i] = d]
SinkRec(c) == [id |-> c.sinkId, count |-> c.count]

LEMMA StIs ==
  ASSUME NEW W, NEW g, NEW p
  PROVE  LET x == St(W, g, p)
         IN  x.win = W /\ x.wild = "no" /\ x.got = g /\ x.put = p
BY DEF St

SetWin(x, V) == [x EXCEPT !.win = V]
SetGot(x, V, G) == [x EXCEPT !.win = V, !.got = G]
SetPut(x, V, P) == [x EXCEPT !.win = V, !.put = P]

LEMMA SetWinIs ==
  ASSUME NEW W, NEW g, NEW p, NEW V
  PROVE  SetWin(St(W, g, p), V) = St(V, g, p)
BY DEF SetWin, St

LEMMA SetGotIs ==
  ASSUME NEW W, NEW g, NEW p, NEW V, NEW G
  PROVE  SetGot(St(W, g, p), V, G) = St(V, G, p)
<1>1. PICK x : x = St(W, g, p)
  OBVIOUS
<1>2. PICK y : y = SetWin(x, V)
  OBVIOUS
<1>3. y = [win |-> V, wild |-> "no", got |-> g, put |-> p]
  BY <1>1, <1>2, SetWinIs DEF St
<1>4. SetGot(x, V, G) = [y EXCEPT !.got = G]
  BY <1>2 DEF SetWin, SetGot
<1>5. [y EXCEPT !.got = G] = St(V, G, p)
  BY <1>3 DEF St
<1>. QED
  BY <1>1, <1>4, <1>5

LEMMA SetPutIs ==
  ASSUME NEW W, NEW g, NEW p, NEW V, NEW P
  PROVE  SetPut(St(W, g, p), V, P) = St(V, g, P)
<1>1. PICK x : x = St(W, g, p)
  OBVIOUS
<1>2. PICK y : y = SetWin(x, V)
  OBVIOUS
<1>3. y = [win |-> V, wild |-> "no", got |-> g, put |-> p]
  BY <1>1, <1>2, SetWinIs DEF St
<1>4. SetPut(x, V, P) = [y EXCEPT !.put = P]
  BY <1>2 DEF SetWin, SetPut
<1>5. [y EXCEPT !.put = P] = St(V, g, P)
  BY <1>3 DEF St
<1>. QED
  BY <1>1, <1>4, <1>5

LEMMA WithIs ==
  ASSUME NEW W \in [Windows -> Members], NEW w \in Windows, NEW v \in Members
  PROVE  /\ With(W, w, v) \in [Windows -> Members]
         /\ With(W, w, v)[w] = v /\ \A u \in Windows : u # w => With(W, w, v)[u] = W[u]
         /\ \A z : With(With(W, w, v), w, z) = With(W, w, z)
BY DEF With

\* Y is W with window w's state v, nothing else changed.
Placed(Y, W, w, v) ==
  Y \in [Windows -> Members] /\ Y[w] = v /\ \A u \in Windows : u # w => Y[u] = W[u]

LEMMA PlacedIs ==
  ASSUME NEW W \in [Windows -> Members], NEW w \in Windows, NEW v \in Members, NEW Y, Y = With(W, w, v)
  PROVE  Placed(Y, W, w, v)
BY DEF With, Placed

\* A supported statement's operands and order.
LEMMA OneWindow ==
  ASSUME NEW c, NEW m, NEW top, NumberedOK(c, m, top), ToSet(c.wins) = {From(c)}
  PROVE  /\ From(c) \in Windows /\ c.kind \in Kinds /\ c.sink \in Windows \cup {None}
         /\ Len(c.wins) \in {1, 2} /\ DOMAIN c.wins = 1 .. Len(c.wins) /\ Len(c.opened) = Len(c.wins)
         /\ \A i \in 1 .. Len(c.wins) : c.wins[i] = From(c)
         /\ \A o \in Orders(Len(c.wins)) :
              /\ o[1] \in 1 .. Len(c.wins) /\ Len(o) = Len(c.wins)
              /\ Len(c.wins) = 2 => o[2] \in 1 .. 2 /\ o[2] # o[1]
         /\ c.opened \in Orders(Len(c.wins))
         /\ [i \in DOMAIN c.wins |-> i] \in Orders(Len(c.wins))
         /\ EvalOrders(c) \subseteq Orders(Len(c.wins))
<1>1. c \in Calls /\ Len(c.wins) \in {1, 2} /\ Len(c.opened) = Len(c.wins) /\ c.opened \in Orders(Len(c.wins))
  BY DEF NumberedOK, CallOK, Numbered
<1>2. c.wins \in Seq(Windows) /\ c.kind \in Kinds /\ c.sink \in Windows \cup {None}
  BY <1>1 DEF Calls
<1>3. DOMAIN c.wins = 1 .. Len(c.wins) /\ Len(c.wins) \in Nat
  BY <1>2, LenProperties
<1>4. \A i \in 1 .. Len(c.wins) : c.wins[i] = From(c)
  BY <1>3 DEF ToSet
<1>5. From(c) \in Windows
  <2>1. 1 \in 1 .. Len(c.wins)
    <3>1. PICK l : l = Len(c.wins) /\ l \in {1, 2}
      BY <1>1
    <3>2. 1 \in 1 .. l
      BY <3>1
    <3>. QED BY <3>1, <3>2
  <2>. QED BY <1>2, <1>3, <2>1, ElementOfSeq DEF From
<1>6. ASSUME NEW o \in Orders(Len(c.wins))
      PROVE  /\ o[1] \in 1 .. Len(c.wins) /\ Len(o) = Len(c.wins)
             /\ Len(c.wins) = 2 => o[2] \in 1 .. 2 /\ o[2] # o[1]
  <2>1. PICK l : l = Len(c.wins)
    OBVIOUS
  <2>2. o \in [1 .. l -> 1 .. l] /\ \A x, y \in 1 .. l : o[x] = o[y] => x = y
    BY <2>1 DEF Orders, IsInjective
  <2>3. l \in {1, 2} /\ l \in Nat
    BY <1>1, <2>1
  <2>4. Len(o) = l
    BY <2>2, <2>3, FunctionSeq
  <2>5. o[1] \in 1 .. l
    BY <2>2, <2>3
  <2>6. l = 2 => o[2] \in 1 .. 2 /\ o[2] # o[1]
    <3>1. l = 2 => 1 \in 1 .. l /\ 2 \in 1 .. l /\ 1 # 2
      BY <2>3
    <3>. QED BY <2>2, <3>1
  <2>. QED BY <2>1, <2>4, <2>5, <2>6
<1>7. [i \in DOMAIN c.wins |-> i] \in Orders(Len(c.wins))
  BY <1>3 DEF Orders, IsInjective
<1>8. EvalOrders(c) \subseteq Orders(Len(c.wins))
  BY <1>7 DEF EvalOrders
<1>. QED
  BY <1>1, <1>2, <1>3, <1>4, <1>5, <1>6, <1>7, <1>8

\* The parts of a statement on one window.
LEMMA OpenIs ==
  ASSUME NEW W, NEW g, NEW p, NEW c, NEW j, NEW w, c.wins[c.opened[j]] = w
  PROVE  Open(St(W, g, p), c, c.opened[j]) = St(With(W, w, Opened(W[w], c.kind, Rec(c, j))), g, p)
<1>. DEFINE x == St(W, g, p)
            V == [W EXCEPT ![w] = Opened(W[w], c.kind, Rec(c, j))]
<1>1. V = With(W, w, Opened(W[w], c.kind, Rec(c, j)))
  BY DEF With
<1>2. x.win = W
  BY StIs
<1>3. Open(x, c, c.opened[j]) = [x EXCEPT !.win = [x.win EXCEPT ![w] = Opened(x.win[w], c.kind, Rec(c, j))]]
  BY DEF Open, Rec
<1>4. [x EXCEPT !.win = [x.win EXCEPT ![w] = Opened(x.win[w], c.kind, Rec(c, j))]] = SetWin(x, V)
  BY <1>2 DEF SetWin
<1>5. SetWin(x, V) = St(V, g, p)
  <2>. HIDE DEF V
  <2>. QED BY SetWinIs
<1>. QED
  BY <1>1, <1>3, <1>4, <1>5

LEMMA PostIs ==
  ASSUME NEW W, NEW g, NEW p, NEW c, NEW i, NEW w, c.wins[i] = w, ~PostWild(W[w], c.kind)
  PROVE  Post(St(W, g, p), c, i) = St(With(W, w, Posted(W[w], c.kind)), g, p)
<1>. DEFINE x == St(W, g, p)
            V == [W EXCEPT ![w] = Posted(W[w], c.kind)]
<1>1. V = With(W, w, Posted(W[w], c.kind))
  BY DEF With
<1>2. x.win = W /\ x.wild = "no"
  BY StIs
<1>3. Post(x, c, i) = [x EXCEPT !.win = [x.win EXCEPT ![w] = Posted(x.win[w], c.kind)]]
  BY <1>2 DEF Post, Guarded
<1>4. [x EXCEPT !.win = [x.win EXCEPT ![w] = Posted(x.win[w], c.kind)]] = SetWin(x, V)
  BY <1>2 DEF SetWin
<1>5. SetWin(x, V) = St(V, g, p)
  <2>. HIDE DEF V
  <2>. QED BY SetWinIs
<1>. QED
  BY <1>1, <1>3, <1>4, <1>5

LEMMA OpenSinkIs ==
  ASSUME NEW W, NEW g, NEW p, NEW c, c.sink # None, NEW s, c.sink = s,
         NEW v, v = Opened(W[s], c.kind, SinkRec(c)), v.info[LastList(v)] # <<>>
  PROVE  OpenSink(St(W, g, p), c) = St(With(W, s, Ignored(v)), g, p)
<1>. DEFINE x == St(W, g, p)
            V == [W EXCEPT ![s] = Ignored(v)]
<1>1. V = With(W, s, Ignored(v))
  BY DEF With
<1>2. x.win = W /\ x.wild = "no"
  BY StIs
<1>3. OpenSink(x, c) = [x EXCEPT !.win = [x.win EXCEPT ![s] = Ignored(v)]]
  BY <1>2 DEF OpenSink, Guarded, SinkRec
<1>4. [x EXCEPT !.win = [x.win EXCEPT ![s] = Ignored(v)]] = SetWin(x, V)
  BY <1>2 DEF SetWin
<1>5. SetWin(x, V) = St(V, g, p)
  <2>. HIDE DEF V
  <2>. QED BY SetWinIs
<1>. QED
  BY <1>1, <1>3, <1>4, <1>5

LEMMA EvalIs ==
  ASSUME NEW W, NEW g, NEW p, NEW c, NEW i, NEW w, c.wins[i] = w, ~EvalWild(W[w], c.kind)
  PROVE  Eval(St(W, g, p), c, i)
         = St(With(W, w, Evaluated(W[w], c.kind)), Got(g, i, Data(W[w], c.kind)), p)
<1>. DEFINE x == St(W, g, p)
            V == [W EXCEPT ![w] = Evaluated(W[w], c.kind)]
            G == [g EXCEPT ![i] = Data(W[w], c.kind)]
<1>1. V = With(W, w, Evaluated(W[w], c.kind))
  BY DEF With
<1>6. G = Got(g, i, Data(W[w], c.kind))
  BY DEF Got
<1>2. x.win = W /\ x.wild = "no" /\ x.got = g
  BY StIs
<1>3. Eval(x, c, i) = [x EXCEPT !.win = [x.win EXCEPT ![w] = Evaluated(x.win[w], c.kind)], !.got = [x.got EXCEPT ![i] = Data(W[w], c.kind)]]
  BY <1>2 DEF Eval, Guarded
<1>4. [x EXCEPT !.win = [x.win EXCEPT ![w] = Evaluated(x.win[w], c.kind)], !.got = [x.got EXCEPT ![i] = Data(W[w], c.kind)]]
      = SetGot(x, V, G)
  BY <1>2 DEF SetGot
<1>5. SetGot(x, V, G) = St(V, G, p)
  <2>. HIDE DEF V, G
  <2>. QED BY SetGotIs
<1>. QED
  BY <1>1, <1>3, <1>4, <1>5, <1>6

LEMMA PutSinkIs ==
  ASSUME NEW W, NEW g, NEW p, NEW c, NEW s, c.sink = s, ~PutWild(W[s], c.kind)
  PROVE  PutSink(St(W, g, p), c) = St(With(W, s, PutMade(W[s], c.kind)), g, NextPut(W[s], c.kind))
<1>. DEFINE x == St(W, g, p)
            V == [W EXCEPT ![s] = PutMade(W[s], c.kind)]
            P == NextPut(W[s], c.kind)
<1>1. V = With(W, s, PutMade(W[s], c.kind))
  BY DEF With
<1>2. x.win = W /\ x.wild = "no" /\ x.put = p
  BY StIs
<1>3. PutSink(x, c) = [x EXCEPT !.win = [x.win EXCEPT ![s] = PutMade(x.win[s], c.kind)], !.put = P]
  BY <1>2 DEF PutSink, Guarded
<1>4. [x EXCEPT !.win = [x.win EXCEPT ![s] = PutMade(x.win[s], c.kind)], !.put = P] = SetPut(x, V, P)
  BY <1>2 DEF SetPut
<1>5. SetPut(x, V, P) = St(V, g, P)
  <2>. HIDE DEF V, P
  <2>. QED BY SetPutIs
<1>. QED
  BY <1>1, <1>3, <1>4, <1>5

\* A statement's parts, each a function of what was left by the one before it.
OpenEach(x, c) ==
  LET y == Open(x, c, c.opened[1]) IN IF Len(c.opened) = 1 THEN y ELSE Open(y, c, c.opened[2])
PostEach(x, c) ==
  LET y == Post(x, c, 1) IN IF Len(c.wins) = 1 THEN y ELSE Post(y, c, 2)
EvalEach(x, c, o) ==
  LET y == Eval(x, c, o[1]) IN IF Len(o) = 1 THEN y ELSE Eval(y, c, o[2])
Posting(W, c) == PostEach(OpenSink(OpenEach(St(W, <<>>, 0), c), c), c)
NoData(c) == [i \in DOMAIN c.wins |-> {}]

LEMMA EvaluationIs ==
  ASSUME NEW W, NEW c, NEW o
  PROVE  Evaluation(W, c, o) = IF c.sink = None THEN EvalEach(St(W, NoData(c), 0), c, o)
                               ELSE PutSink(EvalEach(St(W, NoData(c), 0), c, o), c)
<1>. DEFINE x == [win |-> W, wild |-> "no", got |-> [i \in DOMAIN c.wins |-> {}], put |-> 0]
            y == Each(LAMBDA z, i : Eval(z, c, i), x, o)
<1>1. x = St(W, NoData(c), 0)
  BY DEF St, NoData
<1>2. y = EvalEach(x, c, o)
  <2>. HIDE DEF x
  <2>. QED BY DEF Each, EvalEach
<1>3. Evaluation(W, c, o) = IF c.sink = None THEN y ELSE PutSink(y, c)
  BY DEF Evaluation
<1>. HIDE DEF y, x
<1>. QED
  BY <1>1, <1>2, <1>3

LEMMA StatementParts ==
  ASSUME NEW c, CallOK(c), Statement(c), NEW y, y = Posting(win, c)
  PROVE  /\ \/ /\ AtOnce(c) /\ y.wild = "no"
               /\ \E o \in EvalOrders(c) :
                    LET z == Evaluation(y.win, c, o)
                        r == Again(z, c) IN
                    /\ win' = r.win /\ wild' = r.wild
                    /\ last' = [expr |-> c, order |-> o, got |-> z.got, put |-> z.put]
               /\ UNCHANGED <<exprs, expressions>>
            \/ /\ ~AtOnce(c) /\ y.wild = "no" /\ Len(exprs) < EXPR_COUNT
               /\ win' = y.win
               /\ exprs' = Append(exprs, NewExpr(c)) /\ expressions' = Blocked(c)
               /\ UNCHANGED <<wild, last>>
            \/ /\ y.wild # "no" \/ (~AtOnce(c) /\ Len(exprs) = EXPR_COUNT)
               /\ wild' = IF y.wild # "no" THEN y.wild ELSE "ids"
               /\ UNCHANGED <<win, exprs, expressions, last>>
         /\ Quiet /\ n' = n + Len(c.wins) + (IF c.sink = None THEN 0 ELSE 1)
         /\ sane' = (sane /\ Supported(c))
         /\ UNCHANGED <<comp, life, flushing, at>>
<1>. DEFINE x0 == [win |-> win, wild |-> "no", got |-> <<>>, put |-> 0]
            d == [i \in DOMAIN c.wins |-> i]
            xx == Each(LAMBDA z, i : Open(z, c, i), x0, c.opened)
            yy == Each(LAMBDA z, i : Post(z, c, i), OpenSink(xx, c), d)
<1>1. x0 = St(win, <<>>, 0)
  BY DEF St
<1>2. d[1] = 1 /\ Len(d) = Len(c.wins) /\ (Len(c.wins) # 1 => d[2] = 2)
  <2>1. PICK l \in {1, 2} : l = Len(c.wins) /\ DOMAIN c.wins = 1 .. l
    <3>1. c.wins \in Seq(Windows) /\ Len(c.wins) \in {1, 2}
      BY DEF CallOK, Calls
    <3>. QED BY <3>1, LenProperties
  <2>2. l \in Nat /\ d \in [1 .. l -> Nat]
    BY <2>1
  <2>3. Len(d) = l
    <3>. HIDE DEF d
    <3>. QED BY <2>2, FunctionSeq
  <2>4. 1 \in 1 .. l /\ (l # 1 => 2 \in 1 .. l)
    BY <2>1
  <2>. QED BY <2>1, <2>3, <2>4
<1>3. xx = OpenEach(x0, c)
  <2>. HIDE DEF x0
  <2>. QED BY DEF Each, OpenEach
<1>4. yy = PostEach(OpenSink(xx, c), c)
  <2>. HIDE DEF xx, d
  <2>. QED BY <1>2 DEF Each, PostEach
<1>5. yy = y
  <2>. HIDE DEF x0, xx, yy
  <2>. QED BY <1>1, <1>3, <1>4 DEF Posting
<1>6. /\ \/ /\ AtOnce(c) /\ yy.wild = "no"
            /\ \E o \in EvalOrders(c) :
                 LET z == Evaluation(yy.win, c, o)
                     r == Again(z, c) IN
                 /\ win' = r.win /\ wild' = r.wild
                 /\ last' = [expr |-> c, order |-> o, got |-> z.got, put |-> z.put]
            /\ UNCHANGED <<exprs, expressions>>
         \/ /\ ~AtOnce(c) /\ yy.wild = "no" /\ Len(exprs) < EXPR_COUNT
            /\ win' = yy.win
            /\ exprs' = Append(exprs, NewExpr(c)) /\ expressions' = Blocked(c)
            /\ UNCHANGED <<wild, last>>
         \/ /\ yy.wild # "no" \/ (~AtOnce(c) /\ Len(exprs) = EXPR_COUNT)
            /\ wild' = IF yy.wild # "no" THEN yy.wild ELSE "ids"
            /\ UNCHANGED <<win, exprs, expressions, last>>
      /\ Quiet /\ n' = n + Len(c.wins) + (IF c.sink = None THEN 0 ELSE 1)
      /\ sane' = (sane /\ Supported(c))
      /\ UNCHANGED <<comp, life, flushing, at>>
  BY Zenon DEF Statement
<1>. HIDE DEF yy
<1>. QED
  BY <1>5, <1>6

\* All operands' records, gets and evaluations.
LEMMA OpenEachIs ==
  ASSUME NEW c, NEW m, NEW top, NumberedOK(c, m, top), ToSet(c.wins) = {From(c)},
         NEW W \in [Windows -> Members], NEW g, NEW p, NEW w, w = From(c)
  PROVE  OpenEach(St(W, g, p), c) = St(With(W, w, OpenedAll(W[w], c)), g, p)
<1>1. /\ w \in Windows /\ c.kind \in Kinds /\ Len(c.opened) = Len(c.wins) /\ Len(c.wins) \in {1, 2}
      /\ c.opened \in Orders(Len(c.wins))
      /\ \A i \in 1 .. Len(c.wins) : c.wins[i] = w
      /\ \A o \in Orders(Len(c.wins)) :
              /\ o[1] \in 1 .. Len(c.wins) /\ Len(o) = Len(c.wins)
              /\ Len(c.wins) = 2 => o[2] \in 1 .. 2 /\ o[2] # o[1]
  BY OneWindow
<1>2. c.wins[c.opened[1]] = w /\ (Len(c.wins) = 2 => c.wins[c.opened[2]] = w)
  BY <1>1
<1>3. Rec(c, 1) \in Record
  BY NumbersAre
<1>. DEFINE a == Opened(W[w], c.kind, Rec(c, 1))
            b == Opened(a, c.kind, Rec(c, 2))
<1>4. W[w] \in Members /\ a \in Members
  BY <1>1, <1>3, ReadsKeepPuts
<1>5. Open(St(W, g, p), c, c.opened[1]) = St(With(W, w, a), g, p)
  BY <1>2, OpenIs
<1>. HIDE DEF a
<1>6. With(W, w, a)[w] = a /\ \A z : With(With(W, w, a), w, z) = With(W, w, z)
  BY <1>1, <1>4, WithIs
<1>7. CASE Len(c.wins) = 1
  <2>1. OpenedAll(W[w], c) = a
    BY <1>7 DEF OpenedAll, a
  <2>2. OpenEach(St(W, g, p), c) = Open(St(W, g, p), c, c.opened[1])
    BY <1>1, <1>7 DEF OpenEach
  <2>. QED BY <1>5, <2>1, <2>2
<1>8. CASE Len(c.wins) = 2
  <2>0. Len(c.wins) # 1
    BY <1>8
  <2>1. OpenedAll(W[w], c) = b
    BY <2>0 DEF OpenedAll, a
  <2>2. OpenEach(St(W, g, p), c) = Open(Open(St(W, g, p), c, c.opened[1]), c, c.opened[2])
    BY <1>1, <2>0 DEF OpenEach
  <2>3. Open(St(With(W, w, a), g, p), c, c.opened[2]) = St(With(With(W, w, a), w, Opened(With(W, w, a)[w], c.kind, Rec(c, 2))), g, p)
    BY <1>2, <1>8, OpenIs
  <2>. QED BY <1>5, <1>6, <2>1, <2>2, <2>3
<1>. QED
  BY <1>1, <1>7, <1>8

LEMMA PostEachIs ==
  ASSUME NEW c, NEW m, NEW top, NumberedOK(c, m, top), ToSet(c.wins) = {From(c)},
         NEW W \in [Windows -> Members], NEW g, NEW p, NEW w, w = From(c),
         ~PostWild(W[w], c.kind), Len(c.wins) = 2 => ~PostWild(Posted(W[w], c.kind), c.kind)
  PROVE  PostEach(St(W, g, p), c) = St(With(W, w, PostedAll(W[w], c)), g, p)
<1>1. /\ w \in Windows /\ c.kind \in Kinds /\ Len(c.wins) \in {1, 2}
      /\ \A i \in 1 .. Len(c.wins) : c.wins[i] = w
  BY OneWindow
<1>2. c.wins[1] = w /\ (Len(c.wins) = 2 => c.wins[2] = w)
  <2>1. \A l \in {1, 2} : 1 \in 1 .. l /\ (l = 2 => 2 \in 1 .. l)
    OBVIOUS
  <2>2. 1 \in 1 .. Len(c.wins) /\ (Len(c.wins) = 2 => 2 \in 1 .. Len(c.wins))
    BY <1>1, <2>1, Zenon
  <2>. QED BY <1>1, <2>2
<1>. DEFINE a == Posted(W[w], c.kind)
            b == Posted(a, c.kind)
<1>4. W[w] \in Members /\ a \in Members
  BY <1>1, ReadsKeepPuts
<1>5. Post(St(W, g, p), c, 1) = St(With(W, w, a), g, p)
  BY <1>2, PostIs
<1>6. Len(c.wins) = 2 => ~PostWild(a, c.kind)
  OBVIOUS
<1>. HIDE DEF a
<1>7. With(W, w, a)[w] = a /\ \A z : With(With(W, w, a), w, z) = With(W, w, z)
  BY <1>1, <1>4, WithIs
<1>8. CASE Len(c.wins) = 1
  <2>1. PostedAll(W[w], c) = a
    BY <1>8 DEF PostedAll, a
  <2>2. PostEach(St(W, g, p), c) = Post(St(W, g, p), c, 1)
    BY <1>8 DEF PostEach
  <2>. QED BY <1>5, <2>1, <2>2
<1>9. CASE Len(c.wins) = 2
  <2>0. Len(c.wins) # 1
    BY <1>9
  <2>1. PostedAll(W[w], c) = b
    BY <2>0 DEF PostedAll, a
  <2>2. PostEach(St(W, g, p), c) = Post(Post(St(W, g, p), c, 1), c, 2)
    BY <2>0 DEF PostEach
  <2>3. ~PostWild(With(W, w, a)[w], c.kind)
    BY <1>6, <1>7, <1>9
  <2>4. Post(St(With(W, w, a), g, p), c, 2) = St(With(With(W, w, a), w, Posted(With(W, w, a)[w], c.kind)), g, p)
    BY <1>2, <1>9, <2>3, PostIs
  <2>. QED BY <1>5, <1>7, <2>1, <2>2, <2>4
<1>. QED
  BY <1>1, <1>8, <1>9

LEMMA EvalEachIs ==
  ASSUME NEW c, NEW m, NEW top, NumberedOK(c, m, top), ToSet(c.wins) = {From(c)},
         NEW W \in [Windows -> Members], NEW p, NEW w, w = From(c), NEW o \in EvalOrders(c),
         ~EvalWild(W[w], c.kind), Len(c.wins) = 2 => ~EvalWild(Evaluated(W[w], c.kind), c.kind)
  PROVE  \E g : /\ EvalEach(St(W, NoData(c), p), c, o) = St(With(W, w, EvaluatedAll(W[w], c)), g, p)
                /\ DOMAIN g = 1 .. Len(c.wins)
                /\ g[o[1]] = Data(W[w], c.kind)
                /\ Len(c.wins) = 2 => g[o[2]] = Data(Evaluated(W[w], c.kind), c.kind)
<1>0. /\ w \in Windows /\ c.kind \in Kinds /\ Len(c.wins) \in {1, 2} /\ DOMAIN c.wins = 1 .. Len(c.wins)
      /\ \A i \in 1 .. Len(c.wins) : c.wins[i] = w
      /\ o \in Orders(Len(c.wins))
      /\ \A x \in Orders(Len(c.wins)) :
              /\ x[1] \in 1 .. Len(c.wins) /\ Len(x) = Len(c.wins)
              /\ Len(c.wins) = 2 => x[2] \in 1 .. 2 /\ x[2] # x[1]
  BY OneWindow
<1>1. /\ o[1] \in 1 .. Len(c.wins) /\ Len(o) = Len(c.wins)
      /\ Len(c.wins) = 2 => o[2] \in 1 .. 2 /\ o[2] # o[1]
  BY <1>0
<1>2. c.wins[o[1]] = w /\ (Len(c.wins) = 2 => c.wins[o[2]] = w)
  BY <1>0, <1>1
<1>. DEFINE a == Evaluated(W[w], c.kind)
            b == Evaluated(a, c.kind)
            g0 == NoData(c)
            g1 == Got(g0, o[1], Data(W[w], c.kind))
            g2 == Got(g1, o[2], Data(a, c.kind))
<1>3. DOMAIN g0 = 1 .. Len(c.wins)
  BY <1>0 DEF NoData
<1>4. W[w] \in Members /\ a \in Members
  BY <1>0, ReadsKeepPuts
<1>5. Eval(St(W, g0, p), c, o[1]) = St(With(W, w, a), g1, p)
  <2>. HIDE DEF g0
  <2>. QED BY <1>2, EvalIs
<1>6. Len(c.wins) = 2 => ~EvalWild(a, c.kind)
  OBVIOUS
<1>. HIDE DEF g0
<1>7. DOMAIN g1 = 1 .. Len(c.wins) /\ g1[o[1]] = Data(W[w], c.kind)
  BY <1>1, <1>3 DEF Got
<1>. HIDE DEF a
<1>8. With(W, w, a)[w] = a /\ \A z : With(With(W, w, a), w, z) = With(W, w, z)
  BY <1>0, <1>4, WithIs
<1>9. CASE Len(c.wins) = 1
  <2>1. EvaluatedAll(W[w], c) = a
    BY <1>9 DEF EvaluatedAll, a
  <2>2. EvalEach(St(W, g0, p), c, o) = Eval(St(W, g0, p), c, o[1])
    BY <1>1, <1>9 DEF EvalEach
  <2>3. Len(c.wins) # 2
    BY <1>9
  <2>. HIDE DEF g1
  <2>. QED BY <1>5, <1>7, <2>1, <2>2, <2>3 DEF g0
<1>10. CASE Len(c.wins) = 2
  <2>0. Len(c.wins) # 1
    BY <1>10
  <2>1. EvaluatedAll(W[w], c) = b
    BY <2>0 DEF EvaluatedAll, a
  <2>2. EvalEach(St(W, g0, p), c, o) = Eval(Eval(St(W, g0, p), c, o[1]), c, o[2])
    BY <1>1, <2>0 DEF EvalEach
  <2>3. ~EvalWild(With(W, w, a)[w], c.kind)
    BY <1>6, <1>8, <1>10
  <2>. HIDE DEF g1
  <2>4. Eval(St(With(W, w, a), g1, p), c, o[2])
        = St(With(With(W, w, a), w, Evaluated(With(W, w, a)[w], c.kind)), Got(g1, o[2], Data(With(W, w, a)[w], c.kind)), p)
    BY <1>2, <1>10, <2>3, EvalIs
  <2>5. DOMAIN g2 = 1 .. Len(c.wins) /\ g2[o[1]] = Data(W[w], c.kind) /\ g2[o[2]] = Data(a, c.kind)
    <3>1. o[2] \in DOMAIN g1 /\ o[1] \in DOMAIN g1 /\ o[2] # o[1]
      BY <1>1, <1>7, <1>10
    <3>. QED BY <1>7, <3>1 DEF Got
  <2>6. EvalEach(St(W, g0, p), c, o) = St(With(W, w, b), g2, p)
    BY <1>5, <1>8, <2>2, <2>4
  <2>. HIDE DEF g2, b
  <2>. QED BY <2>1, <2>5, <2>6 DEF g0, a
<1>. QED
  BY <1>0, <1>9, <1>10

\* A window that is as it should be stays so while others are accessed.
LEMMA Later ==
  ASSUME NEW v \in Members, NEW k \in Kinds, NEW m \in Int, NEW top \in Int, m <= top, Good(v, k, m)
  PROVE  Good(v, k, top)
<1>1. \A q \in Lists : DOMAIN v.info[q] = 1 .. Len(v.info[q]) /\ DOMAIN v.puts[q] = 1 .. Len(v.puts[q])
        /\ (\A i \in 1 .. Len(v.info[q]) : v.info[q][i].id \in Accesses)
        /\ \A i \in 1 .. Len(v.puts[q]) : v.puts[q][i] \in Accesses
  BY ListsAre
<1>2. InOrder(v, m)
  BY DEF Good
<1>3. \A x \in Accesses : x <= m => x <= top
  BY WindowBounds
<1>4. ASSUME NEW q \in Lists, NEW i \in DOMAIN v.info[q] PROVE v.info[q][i].id <= top
  BY <1>1, <1>2, <1>3 DEF InOrder
<1>5. ASSUME NEW q \in Lists, NEW i \in DOMAIN v.puts[q] PROVE v.puts[q][i] <= top
  BY <1>1, <1>2, <1>3 DEF InOrder
<1>6. InOrder(v, top)
  BY <1>2, <1>4, <1>5 DEF InOrder
<1>. QED
  BY <1>6 DEF Good

\* The number of the put.
LEMMA TopIs ==
  ASSUME NEW c, NEW m, NEW top, NumberedOK(c, m, top), NEW d, d = m + Len(c.wins)
  PROVE  /\ m \in Nat /\ d \in Nat /\ m <= d /\ top \in Nat /\ d <= top /\ top <= MaxAccesses /\ m < top
         /\ c.sink = None => top = d /\ c.sinkId = 0
         /\ c.sink # None => top = d + 1 /\ SinkRec(c) \in Record /\ SinkRec(c).id = d + 1 /\ SinkRec(c).count = c.count
                             /\ c.sinkId = top
<1>1. Len(c.wins) \in {1, 2} /\ m \in Nat /\ c.count \in Nat
  BY NumbersAre
<1>2. d \in Nat /\ m <= d /\ m < d
  <2>1. \A l \in {1, 2} : m + l \in Nat /\ m <= m + l /\ m < m + l
    BY <1>1
  <2>. QED BY <1>1, <2>1, Zenon
<1>3. top <= MaxAccesses /\ top = m + Len(c.wins) + (IF c.sink = None THEN 0 ELSE 1)
      /\ c.sinkId = IF c.sink = None THEN 0 ELSE top
  BY DEF NumberedOK, Numbered
<1>4. CASE c.sink = None
  BY <1>1, <1>2, <1>3, <1>4
<1>5. CASE c.sink # None
  <2>1. top = d + 1 /\ c.sinkId = top
    BY <1>1, <1>2, <1>3, <1>5
  <2>2. top \in Accesses
    BY <1>2, <1>3, <2>1, WindowBounds
  <2>. QED BY <1>1, <1>2, <1>3, <1>5, <2>1, <2>2 DEF SinkRec, Record
<1>. QED
  BY <1>4, <1>5

\* What the accesses of a statement and the posting of their gets leave of a window v
\* that it reads, and of another that it puts into.
ReadDone(u, v, b, c, m, top) ==
  LET k == c.kind IN
  /\ u \in Members /\ Good(View(b, u), k, top) /\ Flag(u, k) /\ (b => Only(u, k)) /\ Grown(u, v)
  /\ Pending(u) = Pending(v) \cup (m + 1 .. m + Len(c.wins))
  /\ c.sink = From(c) => ToPut(u) = ToPut(v) \cup {top}
  /\ c.sink # From(c) => ToPut(u) = ToPut(v)
  /\ u.bufc < PREALLOC => Unposted(u, k) = 0
SinkDone(u, v, k, top) ==
  /\ u \in Members /\ Good(u, k, top) /\ Flag(u, k) /\ Only(u, k) /\ Grown(u, v)
  /\ Pending(u) = Pending(v) /\ ToPut(u) = ToPut(v) \cup {top}
  /\ u.bufc < PREALLOC => Unposted(u, k) = 0

\* What a window must be for a statement to read it; b, if it is used by that kind only.
Readable(v, b, c, m) ==
  /\ Good(View(b, v), c.kind, m) /\ (v.bufc < PREALLOC => Unposted(v, c.kind) = 0)
  /\ b => Only(v, c.kind)
  /\ c.kind = "bulk" => Room(v, Len(c.wins), c.count)
Puttable(v, k, m) == Good(v, k, m) /\ Only(v, k) /\ (v.bufc < PREALLOC => Unposted(v, k) = 0)

PostingDone(Y, W, b, c, m, top) ==
  /\ Y \in [Windows -> Members]
  /\ ReadDone(Y[From(c)], W[From(c)], b, c, m, top)
  /\ c.sink \notin {None, From(c)} => SinkDone(Y[c.sink], W[c.sink], c.kind, top)
  /\ \A u \in Windows : u # From(c) /\ u # c.sink => Y[u] = W[u]

LEMMA PostingIs ==
  ASSUME NEW c, NEW m \in Nat, NEW top, NumberedOK(c, m, top), ToSet(c.wins) = {From(c)},
         NEW W \in [Windows -> Members], NEW b \in BOOLEAN, Readable(W[From(c)], b, c, m),
         c.sink # None => Puttable(W[c.sink], c.kind, m), c.sink = From(c) => b
  PROVE  \E Y : Posting(W, c) = St(Y, <<>>, 0) /\ PostingDone(Y, W, b, c, m, top)
<1>. DEFINE w == From(c)
            k == c.kind
            l == Len(c.wins)
            A == OpenedAll(W[w], c)
            W1 == With(W, w, A)
<1>1. w \in Windows /\ k \in Kinds /\ l \in {1, 2} /\ c.sink \in Windows \cup {None}
  BY OneWindow
<1>2. PICK d : d = m + l
  OBVIOUS
<1>3. /\ m \in Nat /\ d \in Nat /\ m <= d /\ top \in Nat /\ d <= top
      /\ c.sink = None => top = d
      /\ c.sink # None => top = d + 1 /\ SinkRec(c) \in Record /\ SinkRec(c).id = d + 1 /\ SinkRec(c).count = c.count
  BY <1>2, TopIs
<1>4. OpensWell(W[w], b, c, m)
  BY <1>1, OpenedRead DEF Readable
<1>5. /\ A \in Members /\ Good(View(b, A), k, d) /\ Flag(A, k) /\ (Only(W[w], k) => Only(A, k))
      /\ Pending(A) = Pending(W[w]) \cup (m + 1 .. m + l) /\ ToPut(A) = ToPut(W[w])
      /\ A.bufc = W[w].bufc /\ A.shape = W[w].shape /\ Fresh(A, k, l, c.count) /\ Grown(A, W[w])
  BY <1>2, <1>4 DEF OpensWell
<1>6. OpenEach(St(W, <<>>, 0), c) = St(W1, <<>>, 0)
  BY OpenEachIs
<1>. HIDE DEF A
<1>7. W1 \in [Windows -> Members] /\ W1[w] = A /\ \A u \in Windows : u # w => W1[u] = W[u]
  <2>1. W1 = With(W, w, A)
    OBVIOUS
  <2>2. w \in Windows /\ A \in Members
    BY <1>1, <1>5
  <2>. HIDE DEF W1, w
  <2>3. Placed(W1, W, w, A)
    BY <2>1, <2>2, PlacedIs
  <2>. QED BY <2>3 DEF Placed
<1>8. (b => Only(W[w], k)) /\ (k = "bulk" => Room(W[w], l, c.count))
  BY DEF Readable
<1>. HIDE DEF W1
\* What is left to do: the posting, from windows V.
<1>9. ASSUME NEW V \in [Windows -> Members], NEW B, V[w] = B, OpenSink(St(W1, <<>>, 0), c) = St(V, <<>>, 0),
             B \in Members, Good(View(b, B), k, top), Flag(B, k), b => Only(B, k), B.bufc = A.bufc,
             Pending(B) = Pending(A), Fresh(B, k, l, c.count), Grown(B, A)
      PROVE  \E Y : /\ Posting(W, c) = St(Y, <<>>, 0)
                    /\ Y \in [Windows -> Members]
                    /\ \A u \in Windows : u # w => Y[u] = V[u]
                    /\ LET u == Y[w] IN
                       /\ u \in Members /\ Good(View(b, u), k, top) /\ Flag(u, k) /\ (b => Only(u, k)) /\ Grown(u, W[w])
                       /\ Pending(u) = Pending(W[w]) \cup (m + 1 .. m + Len(c.wins)) /\ ToPut(u) = ToPut(B)
                       /\ u.bufc < PREALLOC => Unposted(u, k) = 0
  <2>. DEFINE P == PostedAll(B, c)
              Y == With(V, w, P)
  <2>0. k = "bulk" => Room(B, l, c.count)
    BY <1>5, <1>8, <1>9 DEF Room
  <2>1. PostsWell(B, b, c, top)
    <3>. HIDE DEF w
    <3>. QED BY <1>3, <1>9, <2>0, PostedRead
  <2>2. /\ ~PostWild(B, k) /\ (l = 2 => ~PostWild(Posted(B, k), k))
        /\ P \in Members /\ Good(View(b, P), k, top)
        /\ Pending(P) = Pending(B) /\ ToPut(P) = ToPut(B)
        /\ Flag(P, k) = Flag(B, k) /\ Only(P, k) = Only(B, k) /\ Grown(P, B)
        /\ P.bufc < PREALLOC => Unposted(P, k) = 0
    BY <2>1 DEF PostsWell
  <2>3. PostEach(St(V, <<>>, 0), c) = St(Y, <<>>, 0)
    BY <1>9, <2>2, PostEachIs
  <2>4. Posting(W, c) = St(Y, <<>>, 0)
    BY <1>6, <1>9, <2>3 DEF Posting
  <2>. HIDE DEF P
  <2>5. Y \in [Windows -> Members] /\ Y[w] = P /\ \A u \in Windows : u # w => Y[u] = V[u]
    <3>1. w \in Windows /\ P \in Members /\ Y = With(V, w, P)
      <4>1. Y = With(V, w, P)
        OBVIOUS
      <4>2. P \in Members
        BY <2>2
      <4>. HIDE DEF Y, w
      <4>3. w \in Windows
        BY <1>1
      <4>. QED BY <4>1, <4>2, <4>3
    <3>. HIDE DEF Y, w
    <3>2. Placed(Y, V, w, P)
      BY <3>1, PlacedIs
    <3>. QED BY <3>2 DEF Placed
  <2>. HIDE DEF Y
  <2>6. LET u == Y[w] IN
           /\ u \in Members /\ Good(View(b, u), k, top) /\ Flag(u, k) /\ (b => Only(u, k)) /\ Grown(u, W[w])
           /\ Pending(u) = Pending(W[w]) \cup (m + 1 .. m + Len(c.wins)) /\ ToPut(u) = ToPut(B)
           /\ u.bufc < PREALLOC => Unposted(u, k) = 0
    BY <1>5, <1>9, <2>2, <2>5, GrownFlags
  <2>. QED BY <2>4, <2>5, <2>6
<1>10. CASE c.sink = None
  <2>1. OpenSink(St(W1, <<>>, 0), c) = St(W1, <<>>, 0)
    BY <1>10 DEF OpenSink
  <2>2. (b => Only(A, k)) /\ Grown(A, A)
    BY <1>5, <1>8 DEF Grown
  <2>3. PICK Y : /\ Posting(W, c) = St(Y, <<>>, 0)
                 /\ Y \in [Windows -> Members]
                 /\ \A u \in Windows : u # w => Y[u] = W1[u]
                 /\ LET u == Y[w] IN
                       /\ u \in Members /\ Good(View(b, u), k, top) /\ Flag(u, k) /\ (b => Only(u, k)) /\ Grown(u, W[w])
                       /\ Pending(u) = Pending(W[w]) \cup (m + 1 .. m + Len(c.wins)) /\ ToPut(u) = ToPut(A)
                       /\ u.bufc < PREALLOC => Unposted(u, k) = 0
    BY <1>3, <1>5, <1>7, <1>9, <1>10, <2>1, <2>2
  <2>4. \A u \in Windows : u # w => Y[u] = W[u]
    BY <1>7, <2>3
  <2>5. c.sink # w
    BY <1>1, <1>10, NoneAssumption
  <2>6. PostingDone(Y, W, b, c, m, top)
    BY <1>5, <1>10, <2>3, <2>4, <2>5 DEF PostingDone, ReadDone
  <2>. QED BY <2>3, <2>6
<1>11. CASE c.sink # None
  <2>. DEFINE s == c.sink
              x == Opened(W1[s], k, SinkRec(c))
              B == Ignored(x)
              V == With(W1, s, B)
  <2>1. s \in Windows /\ SinkRec(c) \in Record /\ SinkRec(c).id = d + 1 /\ top = d + 1
    BY <1>1, <1>3, <1>11
  <2>2. W1[s] \in Members /\ Good(W1[s], k, d) /\ Only(W1[s], k)
    <3>1. CASE s = w
      <4>1. Good(A, k, d) /\ Only(A, k)
        BY <1>5, <1>8, <3>1 DEF View
      <4>. QED BY <1>5, <1>7, <3>1, <4>1
    <3>2. CASE s # w
      <4>1. W1[s] = W[s] /\ W[s] \in Members /\ Good(W[s], k, m) /\ Only(W[s], k)
        BY <1>7, <1>11, <2>1, <3>2 DEF Puttable
      <4>2. Good(W[s], k, d)
        BY <1>1, <1>3, <4>1, Later
      <4>. QED BY <4>1, <4>2
    <3>. QED BY <3>1, <3>2
  <2>3. SinksWell(W1[s], k, SinkRec(c), d)
    <3>. HIDE DEF s
    <3>. QED BY <1>1, <1>3, <2>1, <2>2, SinkOpened
  <2>4. /\ x.info[LastList(x)] # <<>>
        /\ B \in Members /\ Good(B, k, top) /\ Flag(B, k) /\ Only(B, k) /\ Grown(B, W1[s])
        /\ Pending(B) = Pending(W1[s]) /\ ToPut(B) = ToPut(W1[s]) \cup {top}
        /\ B.bufc = W1[s].bufc /\ Unposted(B, k) = Unposted(W1[s], k)
        /\ \A j \in Nat : \A count : Fresh(W1[s], k, j, count) => Fresh(B, k, j, count)
    BY <2>1, <2>3 DEF SinksWell
  <2>5. OpenSink(St(W1, <<>>, 0), c) = St(V, <<>>, 0)
    <3>1. x = Opened(W1[s], k, SinkRec(c))
      OBVIOUS
    <3>. HIDE DEF x
    <3>. QED BY <1>11, <2>4, <3>1, OpenSinkIs
  <2>. HIDE DEF B, x
  <2>6. V \in [Windows -> Members] /\ V[s] = B /\ \A u \in Windows : u # s => V[u] = W1[u]
    <3>1. W1 \in [Windows -> Members] /\ s \in Windows /\ B \in Members
      BY <1>7, <2>1, <2>4
    <3>2. V = With(W1, s, B)
      OBVIOUS
    <3>. HIDE DEF V, W1, s
    <3>3. Placed(V, W1, s, B)
      BY <3>1, <3>2, PlacedIs
    <3>. QED BY <3>3 DEF Placed
  <2>. HIDE DEF V
  <2>7. CASE s = w
    <3>1. V[w] = B /\ W1[s] = A
      BY <1>7, <2>6, <2>7
    <3>2. Good(View(b, B), k, top)
      BY <2>4, <2>7 DEF View
    <3>3. Fresh(B, k, l, c.count)
      <4>1. l \in Nat
        BY <1>1
      <4>. QED BY <1>5, <2>4, <3>1, <4>1
    <3>4. PICK Y : /\ Posting(W, c) = St(Y, <<>>, 0)
                   /\ Y \in [Windows -> Members]
                   /\ \A u \in Windows : u # w => Y[u] = V[u]
                   /\ LET u == Y[w] IN
                       /\ u \in Members /\ Good(View(b, u), k, top) /\ Flag(u, k) /\ (b => Only(u, k)) /\ Grown(u, W[w])
                       /\ Pending(u) = Pending(W[w]) \cup (m + 1 .. m + Len(c.wins)) /\ ToPut(u) = ToPut(B)
                       /\ u.bufc < PREALLOC => Unposted(u, k) = 0
      BY <1>9, <2>4, <2>5, <2>6, <3>1, <3>2, <3>3
    <3>5. \A u \in Windows : u # w => Y[u] = W[u]
      BY <1>7, <2>6, <2>7, <3>4
    <3>6. ToPut(Y[w]) = ToPut(W[w]) \cup {top}
      BY <1>5, <2>4, <3>1, <3>4
    <3>7. PostingDone(Y, W, b, c, m, top)
      BY <2>7, <3>4, <3>5, <3>6 DEF PostingDone, ReadDone
    <3>. QED BY <3>4, <3>7
  <2>8. CASE s # w
    <3>1. V[w] = A /\ W1[s] = W[s]
      BY <1>1, <1>7, <2>1, <2>6, <2>8
    <3>2. Good(View(b, A), k, top)
      <4>1. View(b, A) \in Members
        BY <1>5, ViewIs
      <4>. QED BY <1>1, <1>3, <1>5, <4>1, Later
    <3>3. (b => Only(A, k)) /\ Grown(A, A)
      BY <1>5, <1>8 DEF Grown
    <3>4. PICK Y : /\ Posting(W, c) = St(Y, <<>>, 0)
                   /\ Y \in [Windows -> Members]
                   /\ \A u \in Windows : u # w => Y[u] = V[u]
                   /\ LET u == Y[w] IN
                       /\ u \in Members /\ Good(View(b, u), k, top) /\ Flag(u, k) /\ (b => Only(u, k)) /\ Grown(u, W[w])
                       /\ Pending(u) = Pending(W[w]) \cup (m + 1 .. m + Len(c.wins)) /\ ToPut(u) = ToPut(A)
                       /\ u.bufc < PREALLOC => Unposted(u, k) = 0
      BY <1>5, <1>9, <2>5, <2>6, <3>1, <3>2, <3>3
    <3>5. \A u \in Windows : u # w /\ u # s => Y[u] = W[u]
      BY <1>7, <2>6, <3>4
    <3>6. Y[s] = B
      BY <2>1, <2>6, <2>8, <3>4
    <3>7. SinkDone(Y[s], W[s], k, top)
      <4>1. W[s].bufc < PREALLOC => Unposted(W[s], k) = 0
        BY <1>11 DEF Puttable
      <4>. QED BY <2>4, <3>1, <3>6, <4>1 DEF SinkDone
    <3>8. PostingDone(Y, W, b, c, m, top)
      BY <1>5, <2>8, <3>4, <3>5, <3>7 DEF PostingDone, ReadDone
    <3>. QED BY <3>4, <3>8
  <2>. QED BY <2>7, <2>8
<1>. QED
  BY <1>10, <1>11

\* The put of a statement is the first its window has to make.
FirstPut(v, top) == top \in ToPut(v) /\ \A y \in ToPut(v) : top <= y
PutWell(v, k, m, top) ==
  LET u == PutMade(v, k)
  IN  /\ ~PutWild(v, k) /\ NextPut(v, k) = top
      /\ u \in Members /\ Good(u, k, m) /\ (Flag(v, k) => Flag(u, k)) /\ (Only(v, k) => Only(u, k)) /\ Grown(u, v)
      /\ ToPut(u) = ToPut(v) \ {top} /\ Pending(u) = Pending(v)
      /\ (v.bufc < PREALLOC => Unposted(v, k) = 0) => (u.bufc < PREALLOC => Unposted(u, k) = 0)

LEMMA PutFirst ==
  ASSUME NEW v \in Members, NEW k \in Kinds, NEW m \in Nat, Good(v, k, m), NEW top \in Nat, FirstPut(v, top)
  PROVE  PutWell(v, k, m, top)
<1>. DEFINE u == PutMade(v, k)
            y == NextPut(v, k)
<1>1. ToPut(v) # {} /\ top \in ToPut(v) /\ \A e \in ToPut(v) : top <= e
  BY DEF FirstPut
<1>2. /\ u \in Members
      /\ ~PutWild(v, k) /\ Good(u, k, m) /\ (Flag(v, k) => Flag(u, k)) /\ (Only(v, k) => Only(u, k))
      /\ y \in ToPut(v) /\ y \in Accesses /\ \A e \in ToPut(v) : e = y \/ y < e
      /\ ToPut(u) = ToPut(v) \ {y} /\ Pending(u) = Pending(v)
      /\ Unposted(u, k) = Unposted(v, k) /\ u.bufc = v.bufc
  BY <1>1, PutMadeGood
<1>4. u.isElem = v.isElem /\ u.isBulk = v.isBulk
  BY <1>2, PutMadeIs
<1>. HIDE DEF u, y
<1>3. y = top
  <2>1. y \in Int /\ top <= y /\ (top = y \/ y < top)
    BY <1>1, <1>2, WindowBounds
  <2>. QED BY <2>1
<1>. QED
  BY <1>2, <1>3, <1>4 DEF PutWell, u, y, Grown

\* What the evaluation of a statement, and its put, leave of a window v that it reads,
\* and of another that it puts into; and the data it read.
ReadEnd(u, v, b, c, a, m, top) ==
  LET k == c.kind IN
  /\ u \in Members /\ Good(View(b, u), k, m) /\ (Flag(v, k) => Flag(u, k)) /\ (Only(v, k) => Only(u, k)) /\ Grown(u, v)
  /\ Pending(u) = Pending(v) \ (a + 1 .. a + Len(c.wins))
  /\ c.sink = From(c) => ToPut(u) = ToPut(v) \ {top}
  /\ c.sink # From(c) => ToPut(u) = ToPut(v)
  /\ u.bufc < PREALLOC => Unposted(u, k) = 0
SinkEnd(u, v, k, m, top) ==
  /\ u \in Members /\ Good(u, k, m) /\ (Flag(v, k) => Flag(u, k)) /\ (Only(v, k) => Only(u, k)) /\ Grown(u, v)
  /\ Pending(u) = Pending(v) /\ ToPut(u) = ToPut(v) \ {top}
  /\ u.bufc < PREALLOC => Unposted(u, k) = 0
DataGot(g, c, o, a) ==
  /\ DOMAIN g = 1 .. Len(c.wins) /\ g[o[1]] = {a + 1}
  /\ Len(c.wins) = 2 => g[o[2]] = {a + 2}

\* What the windows must be.
Evaluable(W, b, c, a, m, top) ==
  /\ LET v == W[From(c)] IN
     Good(View(b, v), c.kind, m) /\ (v.bufc < PREALLOC => Unposted(v, c.kind) = 0) /\ First(v, c, a)
  /\ c.sink # None =>
       LET v == W[c.sink] IN
       Good(v, c.kind, m) /\ (v.bufc < PREALLOC => Unposted(v, c.kind) = 0) /\ FirstPut(v, top)
  /\ c.sink = From(c) => b
EvaluationDone(V, W, b, c, a, m, top) ==
  /\ V \in [Windows -> Members]
  /\ ReadEnd(V[From(c)], W[From(c)], b, c, a, m, top)
  /\ c.sink \notin {None, From(c)} => SinkEnd(V[c.sink], W[c.sink], c.kind, m, top)
  /\ \A u \in Windows : u # From(c) /\ u # c.sink => V[u] = W[u]
Evaluates(W, b, c, a, m, top, o) ==
  \E V, g : /\ Evaluation(W, c, o) = St(V, g, c.sinkId)
            /\ EvaluationDone(V, W, b, c, a, m, top) /\ DataGot(g, c, o, a)

LEMMA EvaluatesWell ==
  ASSUME NEW c, NEW a \in Nat, NEW top, NumberedOK(c, a, top), ToSet(c.wins) = {From(c)}, NEW m \in Nat,
         NEW W \in [Windows -> Members], NEW b \in BOOLEAN, Evaluable(W, b, c, a, m, top), NEW o \in EvalOrders(c)
  PROVE  Evaluates(W, b, c, a, m, top, o)
<1>. DEFINE w == From(c)
            k == c.kind
            l == Len(c.wins)
            E == EvaluatedAll(W[w], c)
            V1 == With(W, w, E)
<1>1. w \in Windows /\ k \in Kinds /\ l \in {1, 2} /\ c.sink \in Windows \cup {None}
  BY OneWindow
<1>2. PICK d : d = a + l
  OBVIOUS
<1>3. /\ top \in Nat /\ (c.sink = None => c.sinkId = 0) /\ (c.sink # None => c.sinkId = top)
  BY <1>2, TopIs
<1>4. FirstRead(W[w], c, a) /\ Good(View(b, E), k, m) /\ Grown(E, W[w])
  BY <1>1, EvaluatedRead DEF Evaluable
<1>5. /\ ~EvalWild(W[w], k) /\ Data(W[w], k) = {a + 1}
      /\ l = 2 => ~EvalWild(Evaluated(W[w], k), k) /\ Data(Evaluated(W[w], k), k) = {a + 2}
      /\ E \in Members /\ (Flag(W[w], k) => Flag(E, k)) /\ (Only(W[w], k) => Only(E, k))
      /\ Pending(E) = Pending(W[w]) \ (a + 1 .. a + l) /\ ToPut(E) = ToPut(W[w])
      /\ E.bufc < PREALLOC => Unposted(E, k) = 0
  BY <1>4 DEF FirstRead
<1>6. PICK g : /\ EvalEach(St(W, NoData(c), 0), c, o) = St(V1, g, 0)
               /\ DOMAIN g = 1 .. l
               /\ g[o[1]] = Data(W[w], k)
               /\ l = 2 => g[o[2]] = Data(Evaluated(W[w], k), k)
  BY <1>5, EvalEachIs
<1>7. DataGot(g, c, o, a)
  BY <1>5, <1>6 DEF DataGot
<1>. HIDE DEF E
<1>8. V1 \in [Windows -> Members] /\ V1[w] = E /\ \A u \in Windows : u # w => V1[u] = W[u]
  <2>1. V1 = With(W, w, E)
    OBVIOUS
  <2>2. w \in Windows /\ E \in Members
    BY <1>1, <1>5
  <2>. HIDE DEF V1, w
  <2>3. Placed(V1, W, w, E)
    BY <2>1, <2>2, PlacedIs
  <2>. QED BY <2>3 DEF Placed
<1>. HIDE DEF V1
<1>9. CASE c.sink = None
  <2>1. Evaluation(W, c, o) = St(V1, g, c.sinkId)
    BY <1>3, <1>6, <1>9, EvaluationIs
  <2>2. c.sink # w
    BY <1>1, <1>9, NoneAssumption
  <2>3. EvaluationDone(V1, W, b, c, a, m, top)
    BY <1>4, <1>5, <1>8, <1>9, <2>2 DEF EvaluationDone, ReadEnd
  <2>. QED BY <1>7, <2>1, <2>3 DEF Evaluates
<1>10. CASE c.sink # None
  <2>. DEFINE s == c.sink
              P == PutMade(V1[s], k)
              V == With(V1, s, P)
  <2>1. s \in Windows
    BY <1>1, <1>10
  <2>2. /\ V1[s] \in Members /\ Good(V1[s], k, m) /\ FirstPut(V1[s], top)
        /\ V1[s].bufc < PREALLOC => Unposted(V1[s], k) = 0
    <3>1. CASE s = w
      <4>1. b /\ FirstPut(W[w], top)
        BY <1>10, <3>1 DEF Evaluable
      <4>2. Good(E, k, m) /\ FirstPut(E, top)
        BY <1>4, <1>5, <4>1 DEF View, FirstPut
      <4>. QED BY <1>5, <1>8, <3>1, <4>2
    <3>2. CASE s # w
      <4>1. V1[s] = W[s] /\ W[s] \in Members
        BY <1>8, <2>1, <3>2
      <4>. QED BY <1>10, <4>1 DEF Evaluable
    <3>. QED BY <3>1, <3>2
  <2>3. PutWell(V1[s], k, m, top)
    <3>. HIDE DEF s
    <3>. QED BY <1>1, <1>3, <2>2, PutFirst
  <2>4. /\ ~PutWild(V1[s], k) /\ NextPut(V1[s], k) = top
        /\ P \in Members /\ Good(P, k, m) /\ (Flag(V1[s], k) => Flag(P, k)) /\ (Only(V1[s], k) => Only(P, k)) /\ Grown(P, V1[s])
        /\ ToPut(P) = ToPut(V1[s]) \ {top} /\ Pending(P) = Pending(V1[s])
        /\ P.bufc < PREALLOC => Unposted(P, k) = 0
    BY <2>2, <2>3 DEF PutWell
  <2>5. Evaluation(W, c, o) = St(V, g, c.sinkId)
    <3>1. Evaluation(W, c, o) = PutSink(St(V1, g, 0), c)
      BY <1>6, <1>10, EvaluationIs
    <3>2. PutSink(St(V1, g, 0), c) = St(V, g, top)
      BY <2>4, PutSinkIs
    <3>. QED BY <1>3, <1>10, <3>1, <3>2
  <2>. HIDE DEF P
  <2>6. V \in [Windows -> Members] /\ V[s] = P /\ \A u \in Windows : u # s => V[u] = V1[u]
    BY <1>8, <2>1, <2>4, WithIs
  <2>. HIDE DEF V
  <2>7. \A u \in Windows : u # w /\ u # s => V[u] = W[u]
    BY <1>8, <2>6
  <2>8. CASE s = w
    <3>1. V[w] = P /\ V1[s] = E
      BY <1>8, <2>6, <2>8
    <3>2. Good(View(b, P), k, m)
      BY <2>4, <2>8 DEF View, Evaluable
    <3>3. ReadEnd(V[w], W[w], b, c, a, m, top)
      BY <1>4, <1>5, <2>4, <2>8, <3>1, <3>2, GrownFlags DEF ReadEnd
    <3>4. EvaluationDone(V, W, b, c, a, m, top)
      BY <2>6, <2>7, <2>8, <3>3 DEF EvaluationDone
    <3>. QED BY <1>7, <2>5, <3>4 DEF Evaluates
  <2>9. CASE s # w
    <3>1. V[w] = E /\ V1[s] = W[s]
      BY <1>1, <1>8, <2>1, <2>6, <2>9
    <3>2. ReadEnd(V[w], W[w], b, c, a, m, top)
      BY <1>4, <1>5, <2>9, <3>1 DEF ReadEnd
    <3>3. SinkEnd(V[s], W[s], k, m, top)
      BY <2>4, <2>6, <3>1 DEF SinkEnd
    <3>4. EvaluationDone(V, W, b, c, a, m, top)
      BY <2>6, <2>7, <3>2, <3>3 DEF EvaluationDone
    <3>. QED BY <1>7, <2>5, <3>4 DEF Evaluates
  <2>. QED BY <2>8, <2>9
<1>. QED
  BY <1>9, <1>10

\* What an evaluation that used the data of its statement's own accesses leaves is OwnData.
LastOK(x) ==
  \/ x.got = <<>> /\ x.put = x.expr.sinkId
  \/ \E a, top : /\ NumberedOK(x.expr, a, top) /\ ToSet(x.expr.wins) = {From(x.expr)}
                 /\ x.order \in EvalOrders(x.expr) /\ DataGot(x.got, x.expr, x.order, a) /\ x.put = x.expr.sinkId

LastOwn(x) ==
  LET c == x.expr
      read == {i \in DOMAIN x.got : x.got[i] # {}} IN
  /\ \A i \in read : \E j \in DOMAIN c.ids : x.got[i] = {c.ids[j]}
  /\ \A i, j \in read : i # j => x.got[i] # x.got[j]
  /\ x.order = c.opened => \A i \in read : x.got[i] = {c.ids[i]}
  /\ x.put = c.sinkId

LEMMA LastOwnIs ==
  ASSUME NEW x, LastOK(x)
  PROVE  LastOwn(x)
<1>. DEFINE c == x.expr
            g == x.got
            o == x.order
            read == {i \in DOMAIN g : g[i] # {}}
<1>1. SUFFICES /\ \A i \in read : \E j \in DOMAIN c.ids : g[i] = {c.ids[j]}
               /\ \A i, j \in read : i # j => g[i] # g[j]
               /\ o = c.opened => \A i \in read : g[i] = {c.ids[i]}
               /\ x.put = c.sinkId
  BY DEF LastOwn
<1>2. CASE g = <<>> /\ x.put = c.sinkId
  BY <1>2
<1>3. CASE ~(g = <<>> /\ x.put = c.sinkId)
  <2>1. PICK a, top : /\ NumberedOK(c, a, top) /\ ToSet(c.wins) = {From(c)}
                      /\ o \in EvalOrders(c) /\ DataGot(g, c, o, a) /\ x.put = c.sinkId
    BY <1>3 DEF LastOK
  <2>. HIDE DEF c, g, o
  <2>. DEFINE l == Len(c.wins)
  <2>2. l \in {1, 2} /\ o \in Orders(l) /\ c.opened \in Orders(l)
        /\ \A p \in Orders(l) : p[1] \in 1 .. l /\ (l = 2 => p[2] \in 1 .. 2 /\ p[2] # p[1])
    BY <2>1, OneWindow
  <2>3. /\ c.ids[c.opened[1]] = a + 1 /\ (l = 2 => c.ids[c.opened[2]] = a + 2) /\ a \in Nat
    BY <2>1, NumbersAre
  <2>4. DOMAIN c.ids = 1 .. l
    <3>1. c.ids \in Seq(Int) /\ Len(c.ids) = l
      BY <2>1 DEF NumberedOK, CallOK, Calls, Numbered
    <3>. QED BY <3>1, LenProperties
  <2>5. DOMAIN g = 1 .. l /\ g[o[1]] = {a + 1} /\ (l = 2 => g[o[2]] = {a + 2})
    BY <2>1 DEF DataGot
  <2>. HIDE DEF l
  <2>6. \A p \in Orders(l) : \A i \in 1 .. l : i = p[1] \/ (l = 2 /\ i = p[2])
    <3>1. SUFFICES ASSUME NEW p \in Orders(l), NEW i \in 1 .. l PROVE i = p[1] \/ (l = 2 /\ i = p[2])
      OBVIOUS
    <3>2. p[1] \in 1 .. l /\ (l = 2 => p[2] \in 1 .. 2 /\ p[2] # p[1])
      BY <2>2
    <3>. QED BY <2>2, <3>2
  <2>7. o[1] \in 1 .. l /\ c.opened[1] \in 1 .. l /\ (l = 2 => c.opened[2] \in 1 .. l)
    BY <2>2
  <2>8. a + 1 # a + 2 /\ {a + 1} # {a + 2}
    <3>1. a + 1 # a + 2
      BY <2>3
    <3>. QED BY <3>1
  <2>9. ASSUME NEW i \in read PROVE i \in 1 .. l /\ (i = o[1] \/ (l = 2 /\ i = o[2]))
    BY <2>5, <2>6, <2>2
  <2>10. \A i \in read : \E j \in DOMAIN c.ids : g[i] = {c.ids[j]}
    BY <2>3, <2>4, <2>5, <2>7, <2>9
  <2>11. \A i, j \in read : i # j => g[i] # g[j]
    BY <2>5, <2>8, <2>9
  <2>12. o = c.opened => \A i \in read : g[i] = {c.ids[i]}
    BY <2>3, <2>5, <2>9
  <2>. QED BY <2>1, <2>10, <2>11, <2>12
<1>. QED
  BY <1>2, <1>3

LEMMA OwnDataIs ==
  /\ LastOwn(last) => OwnData
  /\ LastOwn(last') => OwnData'
<1>1. LastOwn(last) => OwnData
  BY DEF LastOwn, OwnData
<1>2. LastOwn(last') => OwnData'
  BY DEF LastOwn, OwnData
<1>. QED
  BY <1>1, <1>2

-----------------------------------------------------------------------------
(***************************************************************************)
(* Windows between two steps.                                              *)
(***************************************************************************)

\* A window that defers is used by one kind of statement.
LEMMA OneKind ==
  ASSUME NEW v, NEW k \in Kinds, NEW j \in Kinds, Flag(v, k), Only(v, j)
  PROVE  j = k
BY DEF Flag, Only, Kinds

LEMMA DeferringOK ==
  ASSUME NEW v \in Members, NEW k \in Kinds, NEW m \in Nat
  PROVE  /\ WindowOK(v, FALSE, m) /\ Flag(v, k) => Only(v, k) /\ Sound(v, k, m)
         /\ Sound(v, k, m) /\ Flag(v, k) /\ Only(v, k) => WindowOK(v, FALSE, m)
<1>1. ASSUME WindowOK(v, FALSE, m), Flag(v, k) PROVE Only(v, k) /\ Sound(v, k, m)
  <2>1. PICK j \in Kinds : Only(v, j)
    BY <1>1 DEF WindowOK
  <2>2. j = k
    BY <1>1, <2>1, OneKind
  <2>. QED BY <1>1, <2>1, <2>2 DEF WindowOK
<1>2. ASSUME Sound(v, k, m), Flag(v, k), Only(v, k) PROVE WindowOK(v, FALSE, m)
  <2>1. \A j \in Kinds : Only(v, j) => j = k
    BY <1>2, OneKind
  <2>. QED BY <1>2, <2>1 DEF WindowOK
<1>. QED
  BY <1>1, <1>2

\* One that blocks has nothing left to be read or put after a statement.
LEMMA BlockingOK ==
  ASSUME NEW v \in Members, NEW k \in Kinds, NEW m \in Nat, NEW b \in BOOLEAN, Good(View(b, v), k, m),
         v.bufc < PREALLOC => Unposted(v, k) = 0, Flag(v, k), Only(v, k) => b, Pending(v) = {}
  PROVE  WindowOK(v, TRUE, m)
<1>. DEFINE u == NoPuts(v)
<1>1. /\ u \in Members /\ u.bufc = v.bufc /\ \A q \in Lists : u.puts[q] = <<>>
  BY NoPutsIs
<1>2. Pending(u) = {} /\ Unposted(u, k) = Unposted(v, k)
  BY ViewSame DEF View
<1>3. Good(u, k, m)
  BY NoPutsGood DEF View
<1>. HIDE DEF u
<1>4. \A j \in Kinds : Sound(u, j, m)
  <2>. TAKE j \in Kinds
  <2>1. Good(u, j, m) /\ (u.bufc < PREALLOC => Unposted(u, j) = 0)
    BY <1>1, <1>2, <1>3, SwitchGood
  <2>. QED BY <2>1 DEF Sound
<1>5. ASSUME NEW j \in Kinds, Only(v, j) PROVE Sound(v, j, m)
  <2>1. j = k
    BY <1>5, OneKind
  <2>. QED BY <1>5, <2>1 DEF Sound, View
<1>. QED
  BY <1>4, <1>5 DEF WindowOK, u

LEMMA WindowLater ==
  ASSUME NEW v, NEW b \in BOOLEAN, NEW m \in Nat, NEW top \in Nat, m <= top, WindowOK(v, b, m)
  PROVE  WindowOK(v, b, top)
<1>1. v \in Members
  BY DEF WindowOK
<1>2. NoPuts(v) \in Members
  BY <1>1, NoPutsIs
<1>3. ASSUME NEW u \in Members, NEW k \in Kinds, Sound(u, k, m) PROVE Sound(u, k, top)
  BY <1>3, Later DEF Sound
<1>. QED
  BY <1>1, <1>2, <1>3 DEF WindowOK

\* A new window, and one after its flush.
LEMMA EmptyOK ==
  ASSUME NEW u \in Members, NEW b, NEW m \in Nat,
         \A q \in Lists : u.info[q] = <<>> /\ u.puts[q] = <<>> /\ u.gets[q] = 0 /\ u.xfers[q] = 0,
         u.putc = 0, u.bufc = 0, u.size = 0, ~u.isElem, ~u.isBulk
  PROVE  WindowOK(u, b, m) /\ Pending(u) = {} /\ ToPut(u) = {}
<1>1. ASSUME NEW v \in Members, NEW k \in Kinds,
             \A q \in Lists : v.info[q] = <<>> /\ v.puts[q] = <<>> /\ v.gets[q] = 0 /\ v.xfers[q] = 0,
             v.putc = 0, v.bufc = 0, v.size = 0
      PROVE  Sound(v, k, m) /\ Pending(v) = {} /\ ToPut(v) = {}
  BY <1>1, NewGood DEF Sound
<1>. DEFINE v == NoPuts(u)
<1>2. /\ v \in Members /\ v.info = u.info /\ v.gets = u.gets /\ v.xfers = u.xfers
      /\ v.putc = 0 /\ v.bufc = 0 /\ v.size = 0 /\ \A q \in Lists : v.puts[q] = <<>>
  BY NoPutsIs
<1>. HIDE DEF v
<1>3. \A k \in Kinds : Sound(v, k, m) /\ Sound(u, k, m)
  BY <1>1, <1>2
<1>4. "elem" \in Kinds /\ Only(u, "elem")
  BY DEF Kinds, Only
<1>5. WindowOK(u, b, m)
  BY <1>3, <1>4 DEF WindowOK, v
<1>. QED
  BY <1>1, <1>4, <1>5

LEMMA NewOK ==
  ASSUME NEW s \in Shapes, NEW b, NEW m \in Nat
  PROVE  New(s) \in Members /\ WindowOK(New(s), b, m) /\ Pending(New(s)) = {} /\ ToPut(New(s)) = {}
<1>. DEFINE u == New(s)
<1>1. /\ u \in Members
      /\ \A q \in Lists : u.info[q] = <<>> /\ u.puts[q] = <<>> /\ u.gets[q] = 0 /\ u.xfers[q] = 0
      /\ u.putc = 0 /\ u.bufc = 0 /\ u.size = 0 /\ ~u.isElem /\ ~u.isBulk
  BY NewIs
<1>. HIDE DEF u
<1>2. WindowOK(u, b, m) /\ Pending(u) = {} /\ ToPut(u) = {}
  BY <1>1, EmptyOK
<1>. QED
  BY <1>1, <1>2 DEF u

LEMMA ClearedOK ==
  ASSUME NEW v \in Members, NEW b, NEW m \in Nat
  PROVE  Cleared(v) \in Members /\ WindowOK(Cleared(v), b, m) /\ Pending(Cleared(v)) = {} /\ ToPut(Cleared(v)) = {}
<1>. DEFINE u == [New(v.shape) EXCEPT !.unfinished = v.unfinished]
<1>1. v.shape \in Shapes /\ v.unfinished \in SUBSET Accesses
  BY MembersAre
<1>2. /\ u \in Members
      /\ \A q \in Lists : u.info[q] = <<>> /\ u.puts[q] = <<>> /\ u.gets[q] = 0 /\ u.xfers[q] = 0
      /\ u.putc = 0 /\ u.bufc = 0 /\ u.size = 0 /\ ~u.isElem /\ ~u.isBulk
  BY <1>1, NewIs
<1>3. Cleared(v) = u
  BY DEF Cleared
<1>. HIDE DEF u
<1>4. WindowOK(u, b, m) /\ Pending(u) = {} /\ ToPut(u) = {}
  BY <1>2, EmptyOK
<1>. QED
  BY <1>2, <1>3, <1>4

-----------------------------------------------------------------------------
(***************************************************************************)
(* The expressions that wait.                                              *)
(***************************************************************************)

\* An expression's accesses are numbered from a + 1 on.
LEMMA IdsAre ==
  ASSUME NEW c, NEW a, NEW top, NumberedOK(c, a, top), ToSet(c.wins) = {From(c)}
  PROVE  Ids(c) = a + 1 .. a + Len(c.wins)
<1>. DEFINE l == Len(c.wins)
<1>1. l \in {1, 2} /\ c.opened \in Orders(l)
      /\ \A o \in Orders(l) : o[1] \in 1 .. l /\ (l = 2 => o[2] \in 1 .. 2 /\ o[2] # o[1])
  BY OneWindow
<1>2. c.ids[c.opened[1]] = a + 1 /\ (l = 2 => c.ids[c.opened[2]] = a + 2) /\ a \in Nat
  BY NumbersAre
<1>3. Ids(c) = {c.ids[i] : i \in 1 .. l}
  BY DEF Ids
<1>. HIDE DEF l
<1>4. CASE l = 1
  <2>1. c.opened[1] = 1 /\ 1 .. l = {1}
    BY <1>1, <1>4
  <2>2. Ids(c) = {a + 1}
    BY <1>2, <1>3, <2>1
  <2>3. a + 1 .. a + l = {a + 1}
    BY <1>2, <1>4
  <2>. QED BY <2>2, <2>3 DEF l
<1>5. CASE l = 2
  <2>1. 1 .. l = {1, 2}
    BY <1>5
  <2>2. {c.opened[1], c.opened[2]} = {1, 2}
    BY <1>1, <1>5
  <2>3. Ids(c) = {c.ids[c.opened[1]], c.ids[c.opened[2]]}
    BY <1>3, <2>1, <2>2
  <2>4. a + 1 .. a + l = {a + 1, a + 2}
    BY <1>2, <1>5
  <2>. QED BY <1>2, <1>5, <2>3, <2>4 DEF l
<1>. QED
  BY <1>1, <1>4, <1>5

LEMMA AwaitedIs ==
  ASSUME NEW w, NEW x
  PROVE  /\ x \in Awaited(w) <=> \E e \in Waiting : From(exprs[e].run) = w /\ x \in Ids(exprs[e].run)
         /\ x \in Awaited(w)' <=> \E e \in Waiting' : From(exprs'[e].run) = w /\ x \in Ids(exprs'[e].run)
         /\ x \in Coming(w) <=> \E e \in Waiting : exprs[e].run.sink = w /\ x = exprs[e].run.sinkId
         /\ x \in Coming(w)' <=> \E e \in Waiting' : exprs'[e].run.sink = w /\ x = exprs'[e].run.sinkId
<1>1. x \in Awaited(w) <=> \E e \in Waiting : From(exprs[e].run) = w /\ x \in Ids(exprs[e].run)
  BY DEF Awaited
<1>2. x \in Awaited(w)' <=> \E e \in Waiting' : From(exprs'[e].run) = w /\ x \in Ids(exprs'[e].run)
  BY DEF Awaited, From, Ids
<1>3. x \in Coming(w) <=> \E e \in Waiting : exprs[e].run.sink = w /\ x = exprs[e].run.sinkId
  BY DEF Coming
<1>4. x \in Coming(w)' <=> \E e \in Waiting' : exprs'[e].run.sink = w /\ x = exprs'[e].run.sinkId
  BY DEF Coming
<1>. QED
  BY <1>1, <1>2, <1>3, <1>4

LEMMA WaitingIs ==
  ASSUME FuturesInv, QueueOK, NEW e \in Waiting, NEW c, c = exprs[e].run
  PROVE  /\ e \in DOMAIN exprs /\ e \in Nat /\ exprs[e].alive /\ CallOK(c) /\ c.kind \in Kinds
         /\ From(c) \in Windows /\ Waits(e) = {From(c)} /\ ToSet(c.wins) = {From(c)} /\ ~Blocking(From(c))
         /\ c.sink # None => c.sink \in Windows /\ ~Blocking(c.sink) /\ Flag(win[c.sink], c.kind)
         /\ Flag(win[From(c)], c.kind)
         /\ \E a, top \in 0 .. n : NumberedOK(c, a, top)
<1>1. e \in DOMAIN exprs /\ exprs[e].alive /\ Waits(e) # {}
  BY DEF Waiting
<1>2. WaitingOK(e)
  BY DEF QueueOK
<1>3. e \in Nat /\ CallOK(c)
  <2>1. DOMAIN exprs = 1 .. Len(exprs) /\ exprs[e] \in Entry
    BY <1>1, Entries
  <2>. QED BY <1>1, <2>1 DEF Entry
<1>4. ToSet(c.wins) = {From(c)} /\ Waits(e) \subseteq ToSet(c.wins)
  BY <1>1, <1>2 DEF WaitingOK, FuturesInv, Reached1
<1>5. Waits(e) = {From(c)}
  BY <1>1, <1>4
<1>6. PICK a, top \in 0 .. n : NumberedOK(c, a, top)
  BY <1>2 DEF WaitingOK
<1>7. From(c) \in Windows /\ c.kind \in Kinds /\ c.sink \in Windows \cup {None}
  BY <1>4, <1>6, OneWindow
<1>. QED
  BY <1>1, <1>2, <1>3, <1>4, <1>5, <1>6, <1>7 DEF WaitingOK

\* Its accesses were made.
LEMMA WaitingIds ==
  ASSUME FuturesInv, QueueOK, NEW e \in Waiting, NEW c, c = exprs[e].run
  PROVE  /\ \A x \in Ids(c) : x \in Int /\ x <= n
         /\ c.sinkId \in Int /\ c.sinkId <= n
<1>1. PICK a, top \in 0 .. n : NumberedOK(c, a, top)
  BY WaitingIs
<1>2. ToSet(c.wins) = {From(c)}
  BY WaitingIs
<1>3. n \in Nat
  BY AccessAssumption DEF FuturesInv, TypeOK
<1>4. Ids(c) = a + 1 .. a + Len(c.wins)
  BY <1>1, <1>2, IdsAre
<1>5. PICK d : d = a + Len(c.wins)
  OBVIOUS
<1>6. /\ a \in Nat /\ d \in Nat /\ top \in Nat /\ d <= top
      /\ (c.sink = None => c.sinkId = 0) /\ (c.sink # None => c.sinkId = top)
  BY <1>1, <1>5, TopIs
<1>7. \A x \in a + 1 .. d : x \in Int /\ x <= n
  BY <1>1, <1>3, <1>6
<1>. QED
  BY <1>1, <1>3, <1>4, <1>5, <1>6, <1>7

\* An expression still waits as it did while its windows do not forget what they are.
LEMMA StillWaitingOK ==
  ASSUME FuturesInv, QueueOK, NEW e \in Waiting, UNCHANGED comp, n' \in Nat, n <= n', exprs'[e].run = exprs[e].run,
         \A w \in {From(exprs[e].run), exprs[e].run.sink} \ {None} : Grown(win'[w], win[w])
  PROVE  WaitingOK(e)'
<1>1. PICK c : c = exprs[e].run
  OBVIOUS
<1>2. PICK w, s : w = From(c) /\ s = c.sink
  OBVIOUS
<1>3. /\ c.kind \in Kinds /\ w \in Windows /\ ToSet(c.wins) = {w} /\ comp[w] = "NO_FLUSH"
      /\ s # None => s \in Windows /\ comp[s] = "NO_FLUSH" /\ Flag(win[s], c.kind)
      /\ Flag(win[w], c.kind)
      /\ \E a, top \in 0 .. n : NumberedOK(c, a, top)
  BY <1>1, <1>2, WaitingIs DEF Blocking
<1>4. Grown(win'[w], win[w]) /\ (s # None => Grown(win'[s], win[s]))
  BY <1>1, <1>2, <1>3, NoneAssumption
<1>5. Flag(win'[w], c.kind) /\ (s # None => Flag(win'[s], c.kind))
  BY <1>3, <1>4, GrownFlags
<1>6. \E a, top \in 0 .. n' : NumberedOK(c, a, top)
  <2>1. PICK a, top \in 0 .. n : NumberedOK(c, a, top)
    BY <1>3
  <2>2. n \in Nat
    BY AccessAssumption DEF FuturesInv, TypeOK
  <2>3. a \in 0 .. n' /\ top \in 0 .. n'
    BY <2>2
  <2>. QED BY <2>1, <2>3
<1>7. exprs'[e].run = c /\ comp'[w] = "NO_FLUSH" /\ (s # None => comp'[s] = "NO_FLUSH")
  BY <1>1, <1>3
<1>8. c.wins[1] = w /\ c.sink = s
  BY <1>2 DEF From
<1>. QED
  BY <1>3, <1>5, <1>6, <1>7, <1>8 DEF WaitingOK, From, Blocking

LEMMA StillInTurn ==
  ASSUME NEW e, NEW f, exprs'[e].run = exprs[e].run, exprs'[f].run = exprs[f].run, InTurn(e, f)
  PROVE  InTurn(e, f)'
BY DEF InTurn, Ids, From

\* No window's data changed but those that no expression waits for.
LEMMA QueueKept ==
  ASSUME FuturesInv, QueueOK, UNCHANGED comp, n' \in Nat, n <= n', Waiting' \subseteq Waiting,
         \A e \in Waiting' : exprs'[e].run = exprs[e].run,
         \A e \in Waiting' : \A w \in {From(exprs[e].run), exprs[e].run.sink} \ {None} : Grown(win'[w], win[w])
  PROVE  /\ \A e \in Waiting' : WaitingOK(e)'
         /\ \A e, f \in Waiting' : InTurn(e, f)'
<1>1. ASSUME NEW e \in Waiting' PROVE WaitingOK(e)'
  BY <1>1, StillWaitingOK
<1>2. ASSUME NEW e \in Waiting', NEW f \in Waiting' PROVE InTurn(e, f)'
  <2>1. InTurn(e, f)
    BY <1>2 DEF QueueOK
  <2>. QED BY <1>2, <2>1, StillInTurn
<1>. QED
  BY <1>1, <1>2

LEMMA WaitingMember ==
  ASSUME NEW e
  PROVE  /\ e \in Waiting <=> e \in DOMAIN exprs /\ exprs[e].alive /\ Waits(e) # {}
         /\ e \in Waiting' <=> e \in DOMAIN exprs' /\ exprs'[e].alive /\ Waits(e)' # {}
<1>1. e \in Waiting <=> e \in DOMAIN exprs /\ exprs[e].alive /\ Waits(e) # {}
  BY DEF Waiting
<1>2. e \in Waiting' <=> e \in DOMAIN exprs' /\ exprs'[e].alive /\ Waits(e)' # {}
  BY DEF Waiting
<1>. QED
  BY <1>1, <1>2

LEMMA SameWaits ==
  ASSUME NEW e, Ahead(e)' = Ahead(e)
  PROVE  Waits(e)' = Waits(e)
BY DEF Waits

LEMMA AheadWaits ==
  /\ \A e : Ahead(e) # {} => Waits(e) # {}
  /\ \A e : Ahead(e)' # {} => Waits(e)' # {}
<1>1. \A e : Ahead(e) # {} => Waits(e) # {}
  BY DEF Waits
<1>2. \A e : Ahead(e)' # {} => Waits(e)' # {}
  BY DEF Waits
<1>. QED
  BY <1>1, <1>2

\* A step that leaves every expression where it was.
LEMMA SameWaiting ==
  ASSUME UNCHANGED exprs, \A e : Waits(e)' = Waits(e)
  PROVE  Waiting' = Waiting
<1>1. ASSUME NEW e PROVE e \in Waiting' <=> e \in Waiting
  BY WaitingMember
<1>. QED
  BY <1>1

\* A statement left to flushes waits.
LEMMA LeftWaiting ==
  ASSUME FuturesInv, NEW c, CallOK(c), flushing = None, flushing' = None, exprs' = Append(exprs, NewExpr(c)),
         expressions' = Blocked(c), NEW new, new = Len(exprs) + 1
  PROVE  /\ Waiting' = Waiting \cup {new} /\ new \notin Waiting /\ exprs'[new].run = c
         /\ \A e \in Waiting : exprs'[e] = exprs[e] /\ e < new /\ e \in Nat
<1>1. /\ Waits(new)' # {}
      /\ \A e \in DOMAIN exprs : Ahead(e)' = Ahead(e)
  <2>1. Waits(new)' = ToSet(c.wins) /\ ToSet(c.wins) # {} /\ \A e \in DOMAIN exprs : Ahead(e)' = Ahead(e)
    BY BlockedAhead
  <2>. QED BY <2>1
<1>2. /\ \A e \in DOMAIN exprs : exprs'[e] = exprs[e]
      /\ exprs'[new] = NewExpr(c)
      /\ DOMAIN exprs' = 1 .. new /\ DOMAIN exprs = 1 .. new - 1 /\ new \in Nat
  BY LeftEntries
<1>3. exprs'[new].alive /\ exprs'[new].run = c
  BY <1>2 DEF NewExpr
<1>4. \A e \in DOMAIN exprs : Waits(e)' = Waits(e)
  BY <1>1, SameWaits
<1>5. new \notin DOMAIN exprs /\ DOMAIN exprs' = DOMAIN exprs \cup {new} /\ \A e \in DOMAIN exprs : e < new /\ e \in Nat
  <2>1. Len(exprs) \in Nat
    BY Entries
  <2>. QED BY <1>2, <2>1
<1>6. ASSUME NEW e PROVE e \in Waiting' <=> e \in Waiting \cup {new}
  <2>1. CASE e = new
    BY <1>1, <1>3, <1>5, <2>1, WaitingMember
  <2>2. CASE e # new
    BY <1>2, <1>4, <1>5, <2>2, WaitingMember
  <2>. QED BY <2>1, <2>2
<1>7. new \notin Waiting /\ Waiting \subseteq DOMAIN exprs
  BY <1>5, WaitingMember
<1>8. Waiting' = Waiting \cup {new}
  BY <1>6
<1>. QED
  BY <1>2, <1>3, <1>5, <1>7, <1>8

\* One operand's window reaches an expression that has another place before its end.
LEMMA UnblockWaiting ==
  ASSUME FuturesInv, QueueOK, Unblock
  PROVE  Waiting' = Waiting /\ \A e \in Waiting : exprs'[e].run = exprs[e].run
<1>1. PICK r : r = Reached
  OBVIOUS
<1>2. Unblocking
  BY DEF Unblock
<1>3. /\ <<flushing, at>> \in Ahead(r) /\ r \in DOMAIN exprs
      /\ \A e : e # r => Ahead(e)' = Ahead(e)
  BY <1>1, <1>2, UnblockAhead
<1>4. IsFiniteSet(Ahead(r)') /\ Occurrences(r)' = Occurrences(r) - 1 /\ Occurrences(r) \in Nat \ {0}
  BY <1>1, <1>2, UnblockCount
<1>5. /\ DOMAIN exprs' = DOMAIN exprs
      /\ \A e \in DOMAIN exprs : exprs'[e].alive = exprs[e].alive /\ exprs'[e].run = exprs[e].run
      /\ exprs[r].alive => exprs[r].count = 2
  BY <1>1, UnblockEntries
<1>6. Waits(r) # {}
  BY <1>3, AheadWaits
<1>7. ASSUME exprs[r].alive PROVE Waits(r)' # {}
  <2>1. r \in Waiting
    BY <1>3, <1>6, <1>7, WaitingMember
  <2>2. PICK c : c = exprs[r].run
    OBVIOUS
  <2>3. Waits(r) = {From(c)} /\ ToSet(c.wins) = {From(c)}
    BY <2>1, <2>2, WaitingIs
  <2>4. flushing \in Waits(r)
    BY <1>3 DEF Waits
  <2>5. life[flushing] = "open"
    <3>1. \A w \in Windows : life[w] # "open" => expressions[w] = <<>>
      BY DEF FuturesInv, TypeOK
    <3>2. <<flushing, at>> \in Ahead(r) => flushing \in Windows /\ at \in Left(flushing)
      BY AheadMember
    <3>3. flushing \in Windows /\ at \in at .. Len(expressions[flushing])
      BY <1>3, <3>2 DEF Left
    <3>4. at \in 1 .. Len(expressions[flushing]) + 1
      BY <3>3, NoneAssumption DEF FuturesInv, Place
    <3>5. expressions[flushing] # <<>>
      <4>1. expressions[flushing] = <<>> => Len(expressions[flushing]) = 0
        OBVIOUS
      <4>2. \A l : l = 0 /\ at \in at .. l => ~(at \in 1 .. l + 1)
        OBVIOUS
      <4>. QED BY <3>3, <3>4, <4>1, <4>2
    <3>. QED BY <3>1, <3>3, <3>5
  <2>6. \A w \in ToSet(c.wins) : life[w] = "open"
    BY <2>3, <2>4, <2>5
  <2>7. exprs[r].count = Occurrences(r)
    BY <1>3, <1>7, <2>2, <2>6 DEF FuturesInv, TypeOK, Counted
  <2>8. Occurrences(r)' = 1
    BY <1>4, <1>5, <1>7, <2>7
  <2>9. Ahead(r)' # {}
    <3>1. Cardinality({}) = 0
      BY FS_EmptySet
    <3>2. Occurrences(r)' = Cardinality(Ahead(r)')
      BY DEF Occurrences
    <3>. QED BY <2>8, <3>1, <3>2
  <2>. QED BY <2>9, AheadWaits
<1>8. ASSUME NEW e PROVE e \in Waiting' <=> e \in Waiting
  <2>1. CASE e = r
    BY <1>3, <1>5, <1>6, <1>7, <2>1, WaitingMember
  <2>2. CASE e # r
    <3>1. Waits(e)' = Waits(e)
      BY <1>3, <2>2, SameWaits
    <3>. QED BY <1>5, <3>1, WaitingMember
  <2>. QED BY <2>1, <2>2
<1>9. \A e \in Waiting : e \in DOMAIN exprs
  BY WaitingMember
<1>. QED
  BY <1>5, <1>8, <1>9

\* The expression that is run waits no more.
LEMMA RunWaiting ==
  ASSUME FuturesInv, RunExpr, NEW r, r = Reached
  PROVE  /\ r \in Waiting /\ Waiting' = Waiting \ {r}
         /\ \A e \in Waiting' : exprs'[e] = exprs[e]
         /\ flushing \in Waits(r) /\ at \in DOMAIN expressions[flushing] /\ expressions[flushing][at] = r
         /\ flushing \in Windows /\ at \in Left(flushing)
<1>2. Unblocking
  BY DEF RunExpr
<1>3. /\ <<flushing, at>> \in Ahead(r) /\ r \in DOMAIN exprs
      /\ \A e : e # r => Ahead(e)' = Ahead(e)
  BY <1>2, UnblockAhead
<1>5. /\ DOMAIN exprs' = DOMAIN exprs
      /\ \A e \in DOMAIN exprs : e # r => exprs'[e] = exprs[e]
      /\ exprs[r].alive /\ ~exprs'[r].alive
  BY RunEntries
<1>6. Waits(r) # {} /\ flushing \in Waits(r)
  BY <1>3 DEF Waits
<1>7. r \in Waiting
  BY <1>3, <1>5, <1>6, WaitingMember
<1>8. ASSUME NEW e PROVE e \in Waiting' <=> e \in Waiting \ {r}
  <2>1. CASE e = r
    BY <1>5, <2>1, WaitingMember
  <2>2. CASE e # r
    <3>1. Waits(e)' = Waits(e)
      BY <1>3, <2>2, SameWaits
    <3>. QED BY <1>5, <2>2, <3>1, WaitingMember
  <2>. QED BY <2>1, <2>2
<1>9. \A e \in Waiting' : e \in DOMAIN exprs /\ e # r
  BY <1>8, WaitingMember
<1>10. flushing \in Windows /\ at \in Left(flushing) /\ expressions[flushing][at] = r
  BY <1>3, AheadMember
<1>11. at \in DOMAIN expressions[flushing]
  <2>1. expressions[flushing] \in Seq(Nat) /\ at \in 1 .. Len(expressions[flushing]) + 1
    BY <1>10, NoneAssumption DEF FuturesInv, Place
  <2>2. at \in at .. Len(expressions[flushing])
    BY <1>10 DEF Left
  <2>3. DOMAIN expressions[flushing] = 1 .. Len(expressions[flushing]) /\ Len(expressions[flushing]) \in Nat
    BY <2>1, LenProperties
  <2>. QED BY <2>1, <2>2, <2>3
<1>. QED
  BY <1>5, <1>6, <1>7, <1>8, <1>9, <1>10, <1>11

\* A window that is freed or destroyed takes those that wait for it along.
LEMMA GivenUpWaiting ==
  ASSUME FuturesInv, QueueOK, NEW w \in Windows, WFree(w) \/ Destroy(w)
  PROVE  /\ Waiting' = {e \in Waiting : From(exprs[e].run) # w}
         /\ \A e \in Waiting : exprs'[e].run = exprs[e].run
         /\ \A u \in Windows : expressions'[u] = IF u = w THEN <<>> ELSE expressions[u]
<1>1. flushing = None /\ flushing' = None /\ expressions' = Emptied(w)
  BY DEF WFree, Destroy, Quiet
<1>2. /\ \A e : Waits(e)' = Waits(e) \ {w}
      /\ \A e : w \in Waits(e) <=> e \in ToSet(expressions[w])
      /\ \A u \in Windows : expressions'[u] = IF u = w THEN <<>> ELSE expressions[u]
  BY <1>1, EmptiedAhead
<1>3. /\ DOMAIN exprs' = DOMAIN exprs
      /\ \A e \in DOMAIN exprs : exprs'[e].run = exprs[e].run
      /\ \A e \in DOMAIN exprs : exprs'[e].alive => exprs[e].alive
      /\ \A e \in DOMAIN exprs : e \notin ToSet(expressions[w]) /\ exprs[e].alive => exprs'[e].alive
  <2>1. CASE WFree(w)
    BY <2>1 DEF WFree
  <2>2. CASE Destroy(w)
    BY <2>2, DestroyEntries
  <2>. QED BY <2>1, <2>2
<1>4. ASSUME NEW e PROVE e \in Waiting' <=> e \in Waiting /\ From(exprs[e].run) # w
  <2>1. ASSUME e \in Waiting PROVE Waits(e) = {From(exprs[e].run)}
    BY <2>1, WaitingIs
  <2>2. ASSUME e \in Waiting' PROVE e \in Waiting /\ From(exprs[e].run) # w
    <3>1. e \in DOMAIN exprs' /\ exprs'[e].alive /\ Waits(e)' # {}
      BY <2>2, WaitingMember
    <3>2. Waits(e) \ {w} # {}
      BY <1>2, <3>1
    <3>3. e \in Waiting
      BY <1>3, <3>1, <3>2, WaitingMember
    <3>. QED BY <2>1, <3>2, <3>3
  <2>3. ASSUME e \in Waiting, From(exprs[e].run) # w PROVE e \in Waiting'
    <3>1. Waits(e)' # {} /\ w \notin Waits(e)
      BY <1>2, <2>1, <2>3
    <3>2. e \in DOMAIN exprs /\ exprs[e].alive
      BY <2>3, WaitingMember
    <3>. QED BY <1>2, <1>3, <3>1, <3>2, WaitingMember
  <2>. QED BY <2>2, <2>3
<1>5. \A e \in Waiting : exprs'[e].run = exprs[e].run
  BY <1>3, WaitingMember
<1>. QED
  BY <1>2, <1>4, <1>5

-----------------------------------------------------------------------------
(***************************************************************************)
(* A supported statement.                                                  *)
(***************************************************************************)

\* Its windows are ready for it: b, if the one it reads is used by its kind only.
Ready(c, b, m) ==
  /\ ToSet(c.wins) = {From(c)} /\ b \in BOOLEAN
  /\ Readable(win[From(c)], b, c, m) /\ (Only(win[From(c)], c.kind) => b)
  /\ c.sink # None => Puttable(win[c.sink], c.kind, m)
  /\ c.sink = From(c) => b
  /\ AtOnce(c) <=> Blocking(From(c))
  /\ c.sink # None => (Blocking(c.sink) <=> Blocking(From(c)))
  /\ ~Blocking(From(c)) => b

LEMMA SupportedReady ==
  ASSUME FuturesInv, DataOK, NEW c, NEW m \in Nat, m = n, NEW top, NumberedOK(c, m, top), Supported(c)
  PROVE  \E b : Ready(c, b, m)
<1>1. PICK w, s, k : w = From(c) /\ s = c.sink /\ k = c.kind
  OBVIOUS
<1>2. ToSet(c.wins) = {w}
  BY <1>1 DEF Supported, From
<1>3. w \in Windows /\ k \in Kinds /\ s \in Windows \cup {None} /\ (s # None => s \in Windows)
  BY <1>1, <1>2, OneWindow
<1>4. /\ s # None => Only(win[s], k)
      /\ ~Blocking(w) => Only(win[w], k)
  <2>1. \A u \in {s} \cup (IF Blocking(w) THEN {} ELSE {w}) :
          u # None => IF k = "elem" THEN ~win[u].isBulk ELSE ~win[u].isElem
    BY <1>1 DEF Supported, From
  <2>2. w # None
    BY <1>3, NoneAssumption
  <2>3. s # None => IF k = "elem" THEN ~win[s].isBulk ELSE ~win[s].isElem
    BY <2>1
  <2>4. ~Blocking(w) => IF k = "elem" THEN ~win[w].isBulk ELSE ~win[w].isElem
    BY <2>1, <2>2
  <2>. QED BY <1>3, <2>3, <2>4 DEF Only, Kinds
<1>5. s # None => (Blocking(s) <=> Blocking(w))
  BY <1>1 DEF Supported, From
<1>6. AtOnce(c) <=> Blocking(w)
  BY <1>1, <1>2, <1>5 DEF AtOnce
<1>7. k = "bulk" => Room(win[w], Len(c.wins), c.count)
  BY <1>1 DEF Supported, From
<1>8. \A u \in Windows : WindowOK(win[u], Blocking(u), m)
  BY DEF DataOK
<1>9. win[w] \in Members
  BY <1>3, <1>8 DEF WindowOK
<1>10. s # None => Puttable(win[s], k, m)
  BY <1>3, <1>4, <1>8 DEF WindowOK, Sound, Puttable
<1>11. PICK b \in BOOLEAN : b <=> Only(win[w], k)
  OBVIOUS
<1>12. Good(View(b, win[w]), k, m) /\ (win[w].bufc < PREALLOC => Unposted(win[w], k) = 0)
  <2>1. CASE b
    BY <1>3, <1>8, <1>11, <2>1 DEF WindowOK, Sound, View
  <2>2. CASE ~b
    <3>1. Sound(NoPuts(win[w]), k, m)
      BY <1>3, <1>4, <1>8, <1>11, <2>2 DEF WindowOK
    <3>2. NoPuts(win[w]).bufc = win[w].bufc
      BY <1>9, NoPutsIs
    <3>3. Unposted(View(b, win[w]), k) = Unposted(win[w], k)
      BY <1>9, ViewSame
    <3>4. View(b, win[w]) = NoPuts(win[w])
      BY <2>2 DEF View
    <3>. QED BY <3>1, <3>2, <3>3, <3>4 DEF Sound
  <2>. QED BY <2>1, <2>2
<1>13. Readable(win[w], b, c, m)
  BY <1>1, <1>7, <1>11, <1>12 DEF Readable
<1>14. s = w => b
  BY <1>3, <1>4, <1>11, NoneAssumption
<1>. QED
  BY <1>1, <1>2, <1>4, <1>5, <1>6, <1>10, <1>11, <1>13, <1>14 DEF Ready

\* Its accesses are made and its gets posted.
LEMMA SupportedPosting ==
  ASSUME FuturesInv, DataOK, NEW c, NEW m \in Nat, m = n, NEW top, NumberedOK(c, m, top), NEW b, Ready(c, b, m)
  PROVE  /\ win \in [Windows -> Members]
         /\ \E Y : Posting(win, c) = St(Y, <<>>, 0) /\ PostingDone(Y, win, b, c, m, top)
<1>1. PICK W : W = win
  OBVIOUS
<1>2. W \in [Windows -> Members]
  BY <1>1 DEF DataOK
<1>3. /\ ToSet(c.wins) = {From(c)} /\ b \in BOOLEAN
      /\ Readable(W[From(c)], b, c, m)
      /\ c.sink # None => Puttable(W[c.sink], c.kind, m)
      /\ c.sink = From(c) => b
  BY <1>1 DEF Ready
<1>4. \E Y : Posting(W, c) = St(Y, <<>>, 0) /\ PostingDone(Y, W, b, c, m, top)
  BY <1>2, <1>3, PostingIs
<1>. QED
  BY <1>1, <1>2, <1>4

-----------------------------------------------------------------------------
(***************************************************************************)
(* The steps that evaluate nothing.                                        *)
(***************************************************************************)

\* What an expression waits for and what it is to put are its windows' while it waits.
LEMMA SameAwaited ==
  ASSUME \A e \in Waiting : exprs'[e].run = exprs[e].run, NEW w, Waiting' \subseteq Waiting,
         \A e \in Waiting \ Waiting' : From(exprs[e].run) # w /\ exprs[e].run.sink # w
  PROVE  Awaited(w)' = Awaited(w) /\ Coming(w)' = Coming(w)
<1>1. ASSUME NEW x PROVE x \in Awaited(w)' <=> x \in Awaited(w)
  BY AwaitedIs
<1>2. ASSUME NEW x PROVE x \in Coming(w)' <=> x \in Coming(w)
  BY AwaitedIs
<1>. QED
  BY <1>1, <1>2

LEMMA NoneAwaited ==
  ASSUME NEW w, \A e \in Waiting' : From(exprs'[e].run) # w /\ exprs'[e].run.sink # w
  PROVE  Awaited(w)' = {} /\ Coming(w)' = {}
<1>1. ASSUME NEW x PROVE x \notin Awaited(w)'
  BY AwaitedIs
<1>2. ASSUME NEW x PROVE x \notin Coming(w)'
  BY AwaitedIs
<1>. QED
  BY <1>1, <1>2

LEMMA SameOwn ==
  ASSUME OwnData, sane, UNCHANGED <<last, wild>>
  PROVE  OwnData'
BY DEF OwnData

LEMMA StillUndisturbed ==
  ASSUME NEW s, NEW w, Undisturbed(s, w), Waiting' \subseteq Waiting, \A e \in Waiting' : exprs'[e].run = exprs[e].run
  PROVE  \A e \in Waiting' : exprs'[e].run.sink = s => exprs'[e].run.wins[1] = w
BY DEF Undisturbed

\* No window changes.
LEMMA SteadyData ==
  ASSUME FuturesInv, DataOK, sane, UNCHANGED <<comp, wild, win, n, last, expressions>>, Waiting' = Waiting,
         \A e \in Waiting : exprs'[e].run = exprs[e].run,
         flushing' # None => Undisturbed(flushing', flushing')
  PROVE  DataOK'
<1>0. QueueOK
  BY DEF DataOK
<1>1. n \in Nat
  BY AccessAssumption DEF FuturesInv, TypeOK
<1>2. /\ \A e \in Waiting' : WaitingOK(e)'
      /\ \A e, f \in Waiting' : InTurn(e, f)'
  <2>1. \A w : Grown(win'[w], win[w])
    BY DEF Grown
  <2>. QED BY <1>0, <1>1, <2>1, QueueKept
<1>3. flushing' # None => Undisturbed(flushing, flushing)'
  <2>1. PICK f : f = flushing'
    OBVIOUS
  <2>2. f # None => \A e \in Waiting' : exprs'[e].run.sink = f => exprs'[e].run.wins[1] = f
    BY <2>1, StillUndisturbed
  <2>. QED BY <2>1, <2>2 DEF Undisturbed
<1>4. InOrderMade'
  BY <1>0 DEF QueueOK, InOrderMade
<1>5. QueueOK'
  BY <1>2, <1>3, <1>4 DEF QueueOK
<1>6. \A w \in Windows : Awaited(w)' = Awaited(w) /\ Coming(w)' = Coming(w)
  BY SameAwaited
<1>7. OwnData'
  BY SameOwn DEF DataOK
<1>8. \A w \in Windows : WindowOK(win'[w], Blocking(w)', n')
  BY DEF DataOK, Blocking
<1>9. \A w \in Windows : Pending(win'[w]) = Awaited(w)' /\ ToPut(win'[w]) = Coming(w)'
  BY <1>6 DEF DataOK
<1>10. wild' = "no" /\ win' \in [Windows -> Members]
  BY DEF DataOK
<1>. QED
  BY <1>5, <1>7, <1>8, <1>9, <1>10 DEF DataOK

LEMMA FlushData ==
  ASSUME FuturesInv, DataOK, sane, NEW w \in Windows, Flush(w), sane'
  PROVE  DataOK'
<1>1. UNCHANGED <<comp, wild, win, n, last, expressions, exprs>> /\ flushing' = w /\ Undisturbed(w, w)
  BY DEF Flush
<1>2. \A e : Waits(e)' = Waits(e)
  BY FlushAhead
<1>3. Waiting' = Waiting
  BY <1>1, <1>2, SameWaiting
<1>. QED
  BY <1>1, <1>3, SteadyData

LEMMA UnblockData ==
  ASSUME FuturesInv, DataOK, sane, Unblock
  PROVE  DataOK'
<1>1. UNCHANGED <<comp, wild, win, n, last, expressions, flushing>>
  BY DEF Unblock, Unblocking
<1>2. QueueOK /\ (flushing # None => Undisturbed(flushing, flushing))
  BY DEF DataOK, QueueOK
<1>3. Waiting' = Waiting /\ \A e \in Waiting : exprs'[e].run = exprs[e].run
  BY <1>2, UnblockWaiting
<1>. QED
  BY <1>1, <1>2, <1>3, SteadyData

LEMMA StutterData ==
  ASSUME FuturesInv, DataOK, sane, UNCHANGED vars
  PROVE  DataOK'
<1>1. UNCHANGED <<comp, wild, win, n, last, expressions, exprs, flushing, at>>
  BY DEF vars
<1>2. flushing # None => Undisturbed(flushing, flushing)
  BY DEF DataOK, QueueOK
<1>3. \A w \in Windows : Left(w)' = Left(w)
  BY <1>1 DEF Left
<1>4. \A e : Waits(e)' = Waits(e)
  BY <1>1, <1>3, SameAhead
<1>5. Waiting' = Waiting
  BY <1>1, <1>4, SameWaiting
<1>. QED
  BY <1>1, <1>2, <1>5, SteadyData

\* One window starts anew, and nothing that still waits needs it.
LEMMA ResetData ==
  ASSUME FuturesInv, DataOK, sane, UNCHANGED <<comp, wild, n, last>>, NEW w \in Windows, NEW z \in Members,
         win' = With(win, w, z), WindowOK(z, Blocking(w), n), Pending(z) = {}, ToPut(z) = {}, flushing' = None,
         Waiting' \subseteq Waiting, \A e \in Waiting : exprs'[e].run = exprs[e].run,
         \A e \in Waiting' : From(exprs[e].run) # w /\ exprs[e].run.sink # w,
         \A e \in Waiting \ Waiting' : From(exprs[e].run) = w /\ exprs[e].run.sink \in {None, w},
         \A u \in Windows : expressions'[u] = IF u = w THEN <<>> ELSE expressions[u]
  PROVE  DataOK'
<1>0. QueueOK /\ win \in [Windows -> Members]
  BY DEF DataOK
<1>1. n \in Nat
  BY AccessAssumption DEF FuturesInv, TypeOK
<1>2. win' \in [Windows -> Members] /\ win'[w] = z /\ \A u \in Windows : u # w => win'[u] = win[u]
  BY <1>0, WithIs
<1>3. /\ \A e \in Waiting' : WaitingOK(e)'
      /\ \A e, f \in Waiting' : InTurn(e, f)'
  <2>1. ASSUME NEW e \in Waiting', NEW u \in {From(exprs[e].run), exprs[e].run.sink} \ {None}
        PROVE  Grown(win'[u], win[u])
    <3>1. e \in Waiting /\ u # w /\ u # None
      BY <2>1
    <3>2. From(exprs[e].run) \in Windows /\ (exprs[e].run.sink # None => exprs[e].run.sink \in Windows)
      BY <1>0, <3>1, WaitingIs
    <3>3. win'[u] = win[u]
      BY <1>2, <2>1, <3>1, <3>2
    <3>. QED BY <3>3 DEF Grown
  <2>2. \A e \in Waiting' : exprs'[e].run = exprs[e].run
    OBVIOUS
  <2>. QED BY <1>0, <1>1, <2>1, <2>2, QueueKept
<1>4. InOrderMade'
  <2>1. ASSUME NEW u \in Windows, NEW i \in DOMAIN expressions'[u], NEW j \in DOMAIN expressions'[u], i < j
        PROVE  expressions'[u][i] <= expressions'[u][j]
    <3>1. u # w
      <4>1. DOMAIN <<>> = {}
        OBVIOUS
      <4>. QED BY <2>1, <4>1
    <3>. QED BY <1>0, <2>1, <3>1 DEF QueueOK, InOrderMade
  <2>. QED BY <2>1 DEF InOrderMade
<1>5. QueueOK'
  BY <1>3, <1>4 DEF QueueOK
<1>6. \A u \in Windows : Pending(win'[u]) = Awaited(u)' /\ ToPut(win'[u]) = Coming(u)'
  <2>. TAKE u \in Windows
  <2>1. CASE u = w
    <3>1. \A e \in Waiting' : From(exprs'[e].run) # w /\ exprs'[e].run.sink # w
      OBVIOUS
    <3>2. Awaited(w)' = {} /\ Coming(w)' = {}
      BY <3>1, NoneAwaited
    <3>. QED BY <1>2, <2>1, <3>2
  <2>2. CASE u # w
    <3>1. \A e \in Waiting \ Waiting' : From(exprs[e].run) # u /\ exprs[e].run.sink # u
      BY <2>2, NoneAssumption
    <3>2. Awaited(u)' = Awaited(u) /\ Coming(u)' = Coming(u)
      BY <3>1, SameAwaited
    <3>. QED BY <1>2, <2>2, <3>2 DEF DataOK
  <2>. QED BY <2>1, <2>2
<1>7. OwnData'
  BY SameOwn DEF DataOK
<1>8. \A u \in Windows : WindowOK(win'[u], Blocking(u)', n')
  <2>. TAKE u \in Windows
  <2>1. WindowOK(win'[u], Blocking(u), n)
    BY <1>2 DEF DataOK
  <2>2. Blocking(u)' = Blocking(u)
    BY DEF Blocking
  <2>. QED BY <2>1, <2>2
<1>9. wild' = "no"
  BY DEF DataOK
<1>. QED
  BY <1>2, <1>5, <1>6, <1>7, <1>8, <1>9 DEF DataOK

LEMMA EndFlushData ==
  ASSUME FuturesInv, DataOK, sane, EndFlush
  PROVE  DataOK'
<1>1. PICK w : w = flushing
  OBVIOUS
<1>2. /\ UNCHANGED <<comp, wild, n, last, exprs>> /\ flushing' = None /\ w # None
      /\ win' = [win EXCEPT ![w] = Cleared(@)] /\ at > Len(expressions[w])
  BY <1>1 DEF EndFlush
<1>3. w \in Windows
  BY <1>1, <1>2 DEF FuturesInv, TypeOK
<1>4. /\ \A e : Waits(e)' = Waits(e)
      /\ \A u \in Windows : expressions'[u] = IF u = w THEN <<>> ELSE expressions[u]
  BY <1>1, EndAhead
<1>5. Waiting' = Waiting
  BY <1>2, <1>4, SameWaiting
<1>6. QueueOK /\ n \in Nat /\ win \in [Windows -> Members]
  BY AccessAssumption DEF DataOK, FuturesInv, TypeOK
<1>7. Left(w) = {}
  <2>1. expressions[w] \in Seq(Nat) /\ at \in Int
    BY <1>1, <1>2, <1>3 DEF FuturesInv, Place
  <2>2. Len(expressions[w]) \in Nat
    BY <2>1, LenProperties
  <2>. QED BY <1>1, <1>2, <2>1, <2>2 DEF Left
<1>8. ASSUME NEW e \in Waiting
      PROVE  From(exprs[e].run) # w /\ exprs[e].run.sink # w
  <2>1. Waits(e) = {From(exprs[e].run)}
    BY <1>6, WaitingIs
  <2>2. w \notin Waits(e)
    BY <1>7, WaitsMember
  <2>3. Undisturbed(w, w)
    BY <1>1, <1>2, <1>6 DEF QueueOK
  <2>. QED BY <2>1, <2>2, <2>3 DEF Undisturbed, From
<1>9. PICK z : z = Cleared(win[w])
  OBVIOUS
<1>10. z \in Members /\ WindowOK(z, Blocking(w), n) /\ Pending(z) = {} /\ ToPut(z) = {}
  BY <1>3, <1>6, <1>9, ClearedOK
<1>11. win' = With(win, w, z)
  BY <1>2, <1>9 DEF With
<1>. QED
  BY <1>2, <1>3, <1>4, <1>5, <1>8, <1>10, <1>11, ResetData

LEMMA GivenUpData ==
  ASSUME FuturesInv, DataOK, sane, NEW w \in Windows, WFree(w) \/ Destroy(w), sane'
  PROVE  DataOK'
<1>1. /\ UNCHANGED <<comp, wild, n, last, flushing>> /\ flushing = None
      /\ win' = [win EXCEPT ![w] = New(@.shape)] /\ Unneeded(w)
  BY DEF WFree, Destroy, Quiet
<1>2. QueueOK /\ n \in Nat /\ win \in [Windows -> Members]
  BY AccessAssumption DEF DataOK, FuturesInv, TypeOK
<1>3. /\ Waiting' = {e \in Waiting : From(exprs[e].run) # w}
      /\ \A e \in Waiting : exprs'[e].run = exprs[e].run
      /\ \A u \in Windows : expressions'[u] = IF u = w THEN <<>> ELSE expressions[u]
  BY <1>2, GivenUpWaiting
<1>4. ASSUME NEW e \in Waiting
      PROVE  IF From(exprs[e].run) = w THEN exprs[e].run.sink \in {None, w} ELSE exprs[e].run.sink # w
  <2>1. Waits(e) = {From(exprs[e].run)}
    BY <1>2, WaitingIs
  <2>2. IF w \in Waits(e) THEN exprs[e].run.sink \in {None, w} ELSE exprs[e].run.sink # w
    BY <1>1 DEF Unneeded
  <2>. QED BY <2>1, <2>2
<1>5. PICK z : z = New(win[w].shape)
  OBVIOUS
<1>6. z \in Members /\ WindowOK(z, Blocking(w), n) /\ Pending(z) = {} /\ ToPut(z) = {}
  <2>1. win[w].shape \in Shapes
    BY <1>2, MembersAre
  <2>. QED BY <1>2, <1>5, <2>1, NewOK
<1>7. win' = With(win, w, z)
  BY <1>1, <1>5 DEF With
<1>8. /\ Waiting' \subseteq Waiting
      /\ \A e \in Waiting' : From(exprs[e].run) # w /\ exprs[e].run.sink # w
      /\ \A e \in Waiting \ Waiting' : From(exprs[e].run) = w /\ exprs[e].run.sink \in {None, w}
  BY <1>3, <1>4
<1>. QED
  BY <1>1, <1>3, <1>6, <1>7, <1>8, ResetData

-----------------------------------------------------------------------------
(***************************************************************************)
(* A statement left to flushes.                                            *)
(***************************************************************************)

\* Its identifier comes last in every list.
LEMMA LeftInOrder ==
  ASSUME FuturesInv, NEW c, CallOK(c), expressions' = Blocked(c), InOrderMade
  PROVE  InOrderMade'
<1>1. PICK new : new = Len(exprs) + 1
  OBVIOUS
<1>2. DOMAIN exprs = 1 .. new - 1 /\ new \in Nat
  BY <1>1, Entries
<1>. SUFFICES ASSUME NEW w \in Windows, NEW i \in DOMAIN expressions'[w], NEW j \in DOMAIN expressions'[w], i < j
              PROVE  expressions'[w][i] <= expressions'[w][j]
  BY DEF InOrderMade
<1>3. PICK l, d, s : l = Len(expressions[w]) /\ d = Cardinality({x \in DOMAIN c.wins : c.wins[x] = w}) /\ s = Blocked(c)[w]
  OBVIOUS
<1>4. /\ s \in Seq(Nat) /\ Len(s) = l + d /\ l \in Nat
      /\ \A x \in 1 .. l : s[x] = expressions[w][x]
      /\ \A x \in l + 1 .. l + d : s[x] = new
  <2>1. LET m == Cardinality({x \in DOMAIN c.wins : c.wins[x] = w})
            k == Len(expressions[w])
            r == Blocked(c)[w]
        IN  /\ r \in Seq(Nat) /\ Len(r) = k + m /\ k \in Nat
            /\ \A x \in 1 .. k : r[x] = expressions[w][x]
            /\ \A x \in k + 1 .. k + m : r[x] = Len(exprs) + 1
    BY BlockedList
  <2>. QED BY <1>1, <1>3, <2>1
<1>5. d \in Nat
  <2>1. Cardinality({x \in DOMAIN c.wins : c.wins[x] = w}) \in 0 .. 2
    BY OperandCount
  <2>. QED BY <1>3, <2>1
<1>6. i \in 1 .. l + d /\ j \in 1 .. l + d
  <2>1. DOMAIN s = 1 .. l + d
    BY <1>4, LenProperties
  <2>. QED BY <1>3, <2>1
<1>7. \A x \in 1 .. l : expressions[w][x] \in Nat /\ expressions[w][x] < new
  <2>1. ToSet(expressions[w]) \subseteq DOMAIN exprs /\ expressions[w] \in Seq(Nat)
    BY DEF FuturesInv, TypeOK
  <2>2. DOMAIN expressions[w] = 1 .. l
    BY <1>3, <2>1, LenProperties
  <2>3. \A x \in 1 .. l : expressions[w][x] \in DOMAIN exprs
    BY <2>1, <2>2 DEF ToSet
  <2>. QED BY <1>2, <2>3
<1>8. CASE j \in 1 .. l
  <2>1. i \in 1 .. l
    BY <1>4, <1>6, <1>8
  <2>2. DOMAIN expressions[w] = 1 .. l
    <3>1. expressions[w] \in Seq(Nat)
      BY DEF FuturesInv
    <3>. QED BY <1>3, <3>1, LenProperties
  <2>3. expressions[w][i] <= expressions[w][j]
    BY <1>8, <2>1, <2>2 DEF InOrderMade
  <2>. QED BY <1>3, <1>4, <1>8, <2>1, <2>3
<1>9. CASE j \notin 1 .. l
  <2>1. s[j] = new
    BY <1>4, <1>5, <1>6, <1>9
  <2>2. s[i] = new \/ (s[i] \in Nat /\ s[i] < new)
    <3>1. CASE i \in 1 .. l
      BY <1>4, <1>7, <3>1
    <3>2. CASE i \notin 1 .. l
      BY <1>4, <1>5, <1>6, <3>2
    <3>. QED BY <3>1, <3>2
  <2>. QED BY <1>2, <1>3, <2>1, <2>2
<1>. QED
  BY <1>8, <1>9

\* What it adds to what its windows' flushes are to read and put.
LEMMA LeftAwaited ==
  ASSUME NEW c, NEW new, Waiting' = Waiting \cup {new}, new \notin Waiting, exprs'[new].run = c,
         \A e \in Waiting : exprs'[e] = exprs[e], NEW u
  PROVE  /\ \A x : x \in Awaited(u)' <=> x \in Awaited(u) \/ (From(c) = u /\ x \in Ids(c))
         /\ \A x : x \in Coming(u)' <=> x \in Coming(u) \/ (c.sink = u /\ x = c.sinkId)
<1>1. ASSUME NEW x PROVE x \in Awaited(u)' <=> x \in Awaited(u) \/ (From(c) = u /\ x \in Ids(c))
  BY AwaitedIs
<1>2. ASSUME NEW x PROVE x \in Coming(u)' <=> x \in Coming(u) \/ (c.sink = u /\ x = c.sinkId)
  BY AwaitedIs
<1>. QED
  BY <1>1, <1>2

\* It comes after all that wait.
LEMMA LeftInTurn ==
  ASSUME FuturesInv, QueueOK, NEW c, NEW m, m = n, NEW top, NumberedOK(c, m, top), ToSet(c.wins) = {From(c)},
         c.sink # None => Undisturbed(c.sink, From(c)), NEW new, new \in Nat, exprs'[new].run = c,
         NEW e \in Waiting, e \in Nat, e < new, exprs'[e] = exprs[e]
  PROVE  InTurn(e, new)' /\ InTurn(new, e)'
<1>1. PICK d : d = exprs[e].run
  OBVIOUS
<1>2. /\ \A x \in Ids(d) : x \in Int /\ x <= m
      /\ d.sinkId \in Int /\ d.sinkId <= m
  BY <1>1, WaitingIds
<1>3. m \in Nat /\ top \in Nat /\ m < top /\ (c.sink # None => c.sinkId = top)
  <2>1. PICK z : z = m + Len(c.wins)
    OBVIOUS
  <2>. QED BY <2>1, TopIs
<1>4. \A y \in Ids(c) : y \in Int /\ m < y
  <2>1. Ids(c) = m + 1 .. m + Len(c.wins)
    BY IdsAre
  <2>. QED BY <1>3, <2>1
<1>5. c.sink # None /\ d.sink = c.sink => From(d) = From(c)
  BY <1>1 DEF Undisturbed, From
<1>6. exprs'[e].run = d
  BY <1>1
<1>7. \A x \in Ids(d), y \in Ids(c) : x < y
  BY <1>2, <1>3, <1>4
<1>8. c.sink # None => d.sinkId < c.sinkId
  BY <1>2, <1>3
<1>9. ~(new < e)
  OBVIOUS
<1>10. /\ \A x \in Ids(d), y \in Ids(c) : x < y
       /\ c.sink # None => d.sinkId < c.sinkId
       /\ c.sink # None /\ d.sink = c.sink => From(d) = From(c)
  BY <1>5, <1>7, <1>8
<1>11. InTurn(e, new)'
  BY <1>6, <1>10 DEF InTurn, Ids, From
<1>12. InTurn(new, e)'
  BY <1>5, <1>6, <1>9 DEF InTurn, Ids, From
<1>. QED
  BY <1>11, <1>12

\* Its windows, after its accesses.
LEMMA LeftWindows ==
  ASSUME FuturesInv, DataOK, NEW c, NEW m \in Nat, m = n, NEW top, NumberedOK(c, m, top),
         NEW b, Ready(c, b, m), ~Blocking(From(c)), NEW Y, PostingDone(Y, win, b, c, m, top)
  PROVE  /\ Y \in [Windows -> Members]
         /\ \A u \in Windows : WindowOK(Y[u], Blocking(u), top) /\ Grown(Y[u], win[u])
         /\ Flag(Y[From(c)], c.kind) /\ (c.sink # None => Flag(Y[c.sink], c.kind))
         /\ \A u \in Windows : \A x :
              /\ x \in Pending(Y[u]) <=> x \in Pending(win[u]) \/ (From(c) = u /\ x \in Ids(c))
              /\ x \in ToPut(Y[u]) <=> x \in ToPut(win[u]) \/ (c.sink = u /\ x = c.sinkId)
<1>1. PICK w, s, k : w = From(c) /\ s = c.sink /\ k = c.kind
  OBVIOUS
<1>2. ToSet(c.wins) = {From(c)} /\ b = TRUE /\ (s # None => ~Blocking(s))
  BY <1>1 DEF Ready
<1>3. w \in Windows /\ k \in Kinds /\ s \in Windows \cup {None}
  BY <1>1, <1>2, OneWindow
<1>4. m \in Nat /\ top \in Nat /\ m <= top /\ (s # None => c.sinkId = top)
  <2>1. PICK z : z = m + Len(c.wins)
    OBVIOUS
  <2>. QED BY <1>1, <2>1, TopIs
<1>5. Ids(c) = m + 1 .. m + Len(c.wins)
  BY <1>2, IdsAre
<1>6. /\ Y \in [Windows -> Members]
      /\ ReadDone(Y[w], win[w], TRUE, c, m, top)
      /\ s \notin {None, w} => SinkDone(Y[s], win[s], k, top)
      /\ \A u \in Windows : u # w /\ u # s => Y[u] = win[u]
  BY <1>1, <1>2 DEF PostingDone
<1>7. /\ Good(Y[w], k, top) /\ Flag(Y[w], k) /\ Only(Y[w], k) /\ Grown(Y[w], win[w])
      /\ Pending(Y[w]) = Pending(win[w]) \cup Ids(c)
      /\ s = w => ToPut(Y[w]) = ToPut(win[w]) \cup {top}
      /\ s # w => ToPut(Y[w]) = ToPut(win[w])
      /\ Y[w].bufc < PREALLOC => Unposted(Y[w], k) = 0
  BY <1>1, <1>5, <1>6 DEF ReadDone, View
<1>8. ASSUME s \notin {None, w}
      PROVE  /\ Good(Y[s], k, top) /\ Flag(Y[s], k) /\ Only(Y[s], k) /\ Grown(Y[s], win[s])
             /\ Pending(Y[s]) = Pending(win[s]) /\ ToPut(Y[s]) = ToPut(win[s]) \cup {top}
             /\ Y[s].bufc < PREALLOC => Unposted(Y[s], k) = 0
  BY <1>6, <1>8 DEF SinkDone
<1>9. ASSUME NEW u \in Windows PROVE WindowOK(Y[u], Blocking(u), top) /\ Grown(Y[u], win[u])
  <2>1. CASE u = w
    <3>1. Sound(Y[w], k, top) /\ Y[w] \in Members
      BY <1>3, <1>6, <1>7 DEF Sound
    <3>2. WindowOK(Y[w], FALSE, top)
      BY <1>3, <1>4, <1>7, <3>1, DeferringOK
    <3>. QED BY <1>1, <1>7, <2>1, <3>2 DEF Blocking
  <2>2. CASE u = s /\ u # w
    <3>0. s \notin {None, w}
      BY <2>2, NoneAssumption
    <3>1. Sound(Y[s], k, top) /\ Y[s] \in Members
      BY <1>6, <1>8, <2>2, <3>0 DEF Sound
    <3>2. WindowOK(Y[s], FALSE, top)
      BY <1>3, <1>4, <1>8, <3>0, <3>1, DeferringOK
    <3>. QED BY <1>2, <1>8, <2>2, <3>0, <3>2 DEF Blocking
  <2>3. CASE u # s /\ u # w
    <3>1. Y[u] = win[u]
      BY <1>6, <2>3
    <3>2. WindowOK(win[u], Blocking(u), m)
      BY DEF DataOK
    <3>3. Blocking(u) \in BOOLEAN
      BY DEF Blocking
    <3>4. WindowOK(win[u], Blocking(u), top)
      BY <1>4, <3>2, <3>3, WindowLater
    <3>. QED BY <3>1, <3>4 DEF Grown
  <2>. QED BY <2>1, <2>2, <2>3
<1>10. ASSUME NEW u \in Windows, NEW x
       PROVE  /\ x \in Pending(Y[u]) <=> x \in Pending(win[u]) \/ (w = u /\ x \in Ids(c))
              /\ x \in ToPut(Y[u]) <=> x \in ToPut(win[u]) \/ (s = u /\ x = c.sinkId)
  <2>0. s = u => s # None
    BY NoneAssumption
  <2>1. CASE u = w
    BY <1>4, <1>7, <2>0, <2>1
  <2>2. CASE u = s /\ u # w
    BY <1>4, <1>8, <2>0, <2>2
  <2>3. CASE u # s /\ u # w
    BY <1>6, <2>3
  <2>. QED BY <2>1, <2>2, <2>3
<1>11. Flag(Y[w], k) /\ (s # None => Flag(Y[s], k))
  BY <1>7, <1>8
<1>. QED
  BY <1>1, <1>6, <1>9, <1>10, <1>11

LEMMA LeftData ==
  ASSUME FuturesInv, DataOK, sane, NEW c, CallOK(c), Statement(c), NumberedOK(c, n, n'), sane', ~AtOnce(c)
  PROVE  DataOK'
<1>1. PICK m, top, w, s : m = n /\ top = n' /\ w = From(c) /\ s = c.sink
  OBVIOUS
<1>2. NumberedOK(c, m, top)
  BY <1>1
<1>3. QueueOK /\ m \in Nat
  BY <1>1, AccessAssumption DEF DataOK, FuturesInv, TypeOK
<1>4. Supported(c) /\ Quiet /\ UNCHANGED <<comp, flushing>>
  BY DEF Statement
<1>5. PICK b : Ready(c, b, m)
  BY <1>1, <1>2, <1>3, <1>4, SupportedReady
<1>6. PICK Y : Posting(win, c) = St(Y, <<>>, 0) /\ PostingDone(Y, win, b, c, m, top)
  BY <1>1, <1>2, <1>3, <1>5, SupportedPosting
<1>7. /\ win' = Y /\ Len(exprs) < EXPR_COUNT
      /\ exprs' = Append(exprs, NewExpr(c)) /\ expressions' = Blocked(c)
      /\ UNCHANGED <<wild, last>>
  <2>1. PICK y : y = Posting(win, c)
    OBVIOUS
  <2>2. y.win = Y /\ y.wild = "no"
    BY <1>6, <2>1, StIs
  <2>3. Len(exprs) < EXPR_COUNT
    BY <1>4 DEF Supported
  <2>4. Len(exprs) # EXPR_COUNT
    BY <2>3, BoundsAssumption
  <2>5. \/ /\ ~AtOnce(c) /\ y.wild = "no" /\ Len(exprs) < EXPR_COUNT
           /\ win' = y.win
           /\ exprs' = Append(exprs, NewExpr(c)) /\ expressions' = Blocked(c)
           /\ UNCHANGED <<wild, last>>
        \/ y.wild # "no" \/ (~AtOnce(c) /\ Len(exprs) = EXPR_COUNT)
    <3>1. \/ AtOnce(c)
          \/ /\ ~AtOnce(c) /\ y.wild = "no" /\ Len(exprs) < EXPR_COUNT
             /\ win' = y.win
             /\ exprs' = Append(exprs, NewExpr(c)) /\ expressions' = Blocked(c)
             /\ UNCHANGED <<wild, last>>
          \/ y.wild # "no" \/ (~AtOnce(c) /\ Len(exprs) = EXPR_COUNT)
      BY <2>1, StatementParts
    <3>. QED BY <3>1
  <2>. QED BY <2>2, <2>3, <2>4, <2>5
<1>8. PICK new : new = Len(exprs) + 1
  OBVIOUS
<1>9. flushing = None /\ flushing' = None
  BY <1>4 DEF Quiet
<1>10. /\ Waiting' = Waiting \cup {new} /\ new \notin Waiting /\ exprs'[new].run = c
       /\ \A e \in Waiting : exprs'[e] = exprs[e] /\ e < new /\ e \in Nat
  BY <1>7, <1>8, <1>9, LeftWaiting
<1>11. new \in Nat
  <2>1. Len(exprs) \in Nat
    BY Entries
  <2>. QED BY <1>8, <2>1
<1>12. /\ ToSet(c.wins) = {w} /\ ~Blocking(w) /\ (s # None => ~Blocking(s))
       /\ s # None => Undisturbed(s, w)
  <2>1. /\ ToSet(c.wins) = {w} /\ ~Blocking(w) /\ (s # None => ~Blocking(s))
    BY <1>1, <1>5 DEF Ready
  <2>2. s # None => Undisturbed(s, w)
    BY <1>1, <1>4 DEF Supported, From
  <2>. QED BY <2>1, <2>2
<1>13. w \in Windows /\ c.kind \in Kinds /\ s \in Windows \cup {None}
  BY <1>1, <1>2, <1>12, OneWindow
<1>14. /\ Y \in [Windows -> Members]
       /\ \A u \in Windows : WindowOK(Y[u], Blocking(u), top) /\ Grown(Y[u], win[u])
       /\ Flag(Y[w], c.kind) /\ (s # None => Flag(Y[s], c.kind))
       /\ \A u \in Windows : \A x :
            /\ x \in Pending(Y[u]) <=> x \in Pending(win[u]) \/ (w = u /\ x \in Ids(c))
            /\ x \in ToPut(Y[u]) <=> x \in ToPut(win[u]) \/ (s = u /\ x = c.sinkId)
  BY <1>1, <1>2, <1>3, <1>5, <1>6, <1>12, LeftWindows
<1>15. m \in Nat /\ top \in Nat /\ m <= top
  <2>1. PICK z : z = m + Len(c.wins)
    OBVIOUS
  <2>. QED BY <1>2, <2>1, TopIs
<1>16. ASSUME NEW e \in Waiting PROVE WaitingOK(e)'
  <2>1. \A u \in {From(exprs[e].run), exprs[e].run.sink} \ {None} : Grown(win'[u], win[u])
    <3>1. From(exprs[e].run) \in Windows /\ (exprs[e].run.sink # None => exprs[e].run.sink \in Windows)
      BY <1>3, WaitingIs
    <3>. QED BY <1>7, <1>14, <3>1
  <2>2. exprs'[e].run = exprs[e].run /\ n' \in Nat /\ n <= n' /\ UNCHANGED comp
    BY <1>1, <1>4, <1>10, <1>15
  <2>. QED BY <1>3, <2>1, <2>2, StillWaitingOK
<1>17. WaitingOK(new)'
  <2>1. comp'[w] = "NO_FLUSH" /\ (s # None => comp'[s] = "NO_FLUSH")
    BY <1>4, <1>12 DEF Blocking
  <2>2. Flag(win'[w], c.kind) /\ (s # None => Flag(win'[s], c.kind))
    BY <1>7, <1>14
  <2>3. \E x, y \in 0 .. n' : NumberedOK(c, x, y)
    <3>1. m \in 0 .. n' /\ top \in 0 .. n'
      BY <1>1, <1>15
    <3>. QED BY <1>2, <3>1
  <2>4. exprs'[new].run = c /\ c.wins[1] = w /\ c.sink = s
    BY <1>1, <1>10 DEF From
  <2>. QED BY <1>12, <2>1, <2>2, <2>3, <2>4 DEF WaitingOK, From, Blocking
<1>18. \A e, f \in Waiting' : InTurn(e, f)'
  <2>1. ASSUME NEW e \in Waiting, NEW f \in Waiting PROVE InTurn(e, f)'
    <3>1. InTurn(e, f)
      BY <1>3 DEF QueueOK
    <3>2. exprs'[e].run = exprs[e].run /\ exprs'[f].run = exprs[f].run
      BY <1>10
    <3>. QED BY <3>1, <3>2, StillInTurn
  <2>2. ASSUME NEW e \in Waiting PROVE InTurn(e, new)' /\ InTurn(new, e)'
    <3>1. e \in Nat /\ e < new /\ exprs'[e] = exprs[e] /\ exprs'[new].run = c
      BY <1>10
    <3>2. ToSet(c.wins) = {From(c)} /\ (c.sink # None => Undisturbed(c.sink, From(c)))
      BY <1>1, <1>12
    <3>. QED BY <1>1, <1>2, <1>3, <1>11, <3>1, <3>2, LeftInTurn
  <2>3. InTurn(new, new)'
    <3>1. ~(new < new)
      BY <1>11
    <3>. QED BY <3>1 DEF InTurn
  <2>. QED BY <1>10, <2>1, <2>2, <2>3
<1>19. InOrderMade'
  BY <1>3, <1>7, LeftInOrder DEF QueueOK
<1>20. QueueOK'
  BY <1>9, <1>10, <1>16, <1>17, <1>18, <1>19 DEF QueueOK
<1>21. \A u \in Windows : WindowOK(win'[u], Blocking(u)', n')
  <2>. TAKE u \in Windows
  <2>1. Blocking(u)' = Blocking(u)
    BY <1>4 DEF Blocking
  <2>. QED BY <1>1, <1>7, <1>14, <2>1
<1>22. \A u \in Windows : Pending(win'[u]) = Awaited(u)' /\ ToPut(win'[u]) = Coming(u)'
  <2>. TAKE u \in Windows
  <2>1. /\ \A x : x \in Awaited(u)' <=> x \in Awaited(u) \/ (w = u /\ x \in Ids(c))
        /\ \A x : x \in Coming(u)' <=> x \in Coming(u) \/ (s = u /\ x = c.sinkId)
    BY <1>1, <1>10, LeftAwaited
  <2>2. Pending(win[u]) = Awaited(u) /\ ToPut(win[u]) = Coming(u)
    BY DEF DataOK
  <2>3. \A x : x \in Pending(win'[u]) <=> x \in Awaited(u)'
    BY <1>7, <1>14, <2>1, <2>2
  <2>4. \A x : x \in ToPut(win'[u]) <=> x \in Coming(u)'
    BY <1>7, <1>14, <2>1, <2>2
  <2>5. Pending(win'[u]) = Awaited(u)'
    BY <2>3
  <2>6. ToPut(win'[u]) = Coming(u)'
    BY <2>4
  <2>. QED BY <2>5, <2>6
<1>23. OwnData'
  BY <1>7, SameOwn DEF DataOK
<1>24. wild' = "no" /\ win' \in [Windows -> Members]
  BY <1>7, <1>14 DEF DataOK
<1>. QED
  BY <1>20, <1>21, <1>22, <1>23, <1>24 DEF DataOK

-----------------------------------------------------------------------------
(***************************************************************************)
(* A statement that is evaluated at once.                                  *)
(***************************************************************************)

\* No expression waits for a window that blocks, or is to put into it.
LEMMA BlockingFree ==
  ASSUME FuturesInv, DataOK, NEW w \in Windows, Blocking(w)
  PROVE  Pending(win[w]) = {} /\ ToPut(win[w]) = {}
<1>1. QueueOK /\ Pending(win[w]) = Awaited(w) /\ ToPut(win[w]) = Coming(w)
  BY DEF DataOK
<1>2. ASSUME NEW e \in Waiting PROVE From(exprs[e].run) # w /\ exprs[e].run.sink # w
  <2>1. PICK c : c = exprs[e].run
    OBVIOUS
  <2>2. ~Blocking(From(c)) /\ (c.sink # None => ~Blocking(c.sink))
    BY <1>1, <2>1, WaitingIs
  <2>. QED BY <2>1, <2>2, NoneAssumption
<1>3. \A x : x \notin Awaited(w) /\ x \notin Coming(w)
  BY <1>2, AwaitedIs
<1>. QED
  BY <1>1, <1>3

\* Its windows, after its accesses, are ready for its evaluation.
Made(Y, b, c, m, top) ==
  /\ Y \in [Windows -> Members] /\ top \in Nat /\ b \in BOOLEAN
  /\ Evaluable(Y, b, c, m, top, top)
  /\ Flag(Y[From(c)], c.kind) /\ (Only(Y[From(c)], c.kind) => b)
  /\ Pending(Y[From(c)]) = m + 1 .. m + Len(c.wins)
  /\ ToPut(Y[From(c)]) \subseteq {top}
  /\ c.sink # From(c) => ToPut(Y[From(c)]) = {}
  /\ c.sink \notin {None, From(c)} =>
       Flag(Y[c.sink], c.kind) /\ Pending(Y[c.sink]) = {} /\ ToPut(Y[c.sink]) = {top}

LEMMA MadeEvaluable ==
  ASSUME FuturesInv, DataOK, NEW c, NEW m \in Nat, m = n, NEW top, NumberedOK(c, m, top),
         NEW b, Ready(c, b, m), Blocking(From(c)), NEW Y, PostingDone(Y, win, b, c, m, top)
  PROVE  Made(Y, b, c, m, top)
<1>1. PICK w, s, k : w = From(c) /\ s = c.sink /\ k = c.kind
  OBVIOUS
<1>2. /\ ToSet(c.wins) = {From(c)} /\ b \in BOOLEAN /\ (s # None => Blocking(s)) /\ (s = w => b)
      /\ Only(win[w], k) => b
  BY <1>1 DEF Ready
<1>3. w \in Windows /\ k \in Kinds /\ s \in Windows \cup {None}
  BY <1>1, <1>2, OneWindow
<1>4. m \in Nat /\ top \in Nat /\ m <= top
  <2>1. PICK z : z = m + Len(c.wins)
    OBVIOUS
  <2>. QED BY <1>1, <2>1, TopIs
<1>5. /\ Y \in [Windows -> Members]
      /\ ReadDone(Y[w], win[w], b, c, m, top)
      /\ s \notin {None, w} => SinkDone(Y[s], win[s], k, top)
      /\ \A u \in Windows : u # w /\ u # s => Y[u] = win[u]
  BY <1>1 DEF PostingDone
<1>6. Pending(win[w]) = {} /\ ToPut(win[w]) = {}
  BY <1>1, <1>3, BlockingFree
<1>7. /\ Good(View(b, Y[w]), k, top) /\ Flag(Y[w], k) /\ Grown(Y[w], win[w])
      /\ Pending(Y[w]) = m + 1 .. m + Len(c.wins)
      /\ s = w => ToPut(Y[w]) = {top}
      /\ s # w => ToPut(Y[w]) = {}
      /\ Y[w].bufc < PREALLOC => Unposted(Y[w], k) = 0
  BY <1>1, <1>5, <1>6 DEF ReadDone
<1>8. ASSUME s \notin {None, w}
      PROVE  /\ Good(Y[s], k, top) /\ Flag(Y[s], k)
             /\ Pending(Y[s]) = {} /\ ToPut(Y[s]) = {top}
             /\ Y[s].bufc < PREALLOC => Unposted(Y[s], k) = 0
  <2>1. Pending(win[s]) = {} /\ ToPut(win[s]) = {}
    BY <1>2, <1>3, <1>8, BlockingFree
  <2>. QED BY <1>5, <1>8, <2>1 DEF SinkDone
<1>9. First(Y[w], c, m)
  <2>1. \A y \in m + 1 .. m + Len(c.wins) : m + 1 <= y
    OBVIOUS
  <2>. QED BY <1>7, <2>1 DEF First
<1>10. \A v : ToPut(v) = {top} => FirstPut(v, top)
  BY <1>4 DEF FirstPut
<1>11. ASSUME s # None
       PROVE  Good(Y[s], k, top) /\ (Y[s].bufc < PREALLOC => Unposted(Y[s], k) = 0) /\ FirstPut(Y[s], top)
  <2>1. CASE s = w
    BY <1>2, <1>7, <1>10, <2>1 DEF View
  <2>2. CASE s # w
    BY <1>8, <1>10, <1>11, <2>2
  <2>. QED BY <2>1, <2>2
<1>12. Evaluable(Y, b, c, m, top, top)
  BY <1>1, <1>2, <1>7, <1>9, <1>11 DEF Evaluable
<1>13. Only(Y[w], k) => b
  BY <1>2, <1>7, GrownFlags
<1>14. ToPut(Y[w]) \subseteq {top}
  BY <1>7
<1>. QED
  BY <1>1, <1>2, <1>4, <1>5, <1>7, <1>8, <1>12, <1>13, <1>14 DEF Made

\* And nothing is left to read or put after it.
LEMMA MadeWindows ==
  ASSUME FuturesInv, DataOK, NEW c, NEW m \in Nat, m = n, NEW top, NumberedOK(c, m, top),
         NEW b, Ready(c, b, m), Blocking(From(c)), NEW Y, PostingDone(Y, win, b, c, m, top),
         NEW V, EvaluationDone(V, Y, b, c, m, top, top)
  PROVE  /\ V \in [Windows -> Members]
         /\ \A u \in Windows : WindowOK(V[u], Blocking(u), top)
         /\ \A u \in Windows : Pending(V[u]) = Pending(win[u]) /\ ToPut(V[u]) = ToPut(win[u])
         /\ \A u \in Windows : ~Blocking(u) => V[u] = win[u]
<1>1. PICK w, s, k : w = From(c) /\ s = c.sink /\ k = c.kind
  OBVIOUS
<1>2. /\ ToSet(c.wins) = {From(c)} /\ (s # None => Blocking(s)) /\ Blocking(w)
  BY <1>1 DEF Ready
<1>3. w \in Windows /\ k \in Kinds /\ s \in Windows \cup {None}
  BY <1>1, <1>2, OneWindow
<1>4. m \in Nat /\ top \in Nat /\ m <= top
  <2>1. PICK z : z = m + Len(c.wins)
    OBVIOUS
  <2>. QED BY <1>1, <2>1, TopIs
<1>5. /\ Y \in [Windows -> Members] /\ b \in BOOLEAN
      /\ Flag(Y[w], k) /\ (Only(Y[w], k) => b)
      /\ Pending(Y[w]) = m + 1 .. m + Len(c.wins)
      /\ ToPut(Y[w]) \subseteq {top}
      /\ s # w => ToPut(Y[w]) = {}
      /\ s \notin {None, w} => Flag(Y[s], k) /\ Pending(Y[s]) = {} /\ ToPut(Y[s]) = {top}
      /\ \A u \in Windows : u # w /\ u # s => Y[u] = win[u]
  <2>1. Made(Y, b, c, m, top)
    BY MadeEvaluable
  <2>2. \A u \in Windows : u # From(c) /\ u # c.sink => Y[u] = win[u]
    BY DEF PostingDone
  <2>. QED BY <1>1, <2>1, <2>2 DEF Made
<1>6. /\ V \in [Windows -> Members]
      /\ ReadEnd(V[w], Y[w], b, c, m, top, top)
      /\ s \notin {None, w} => SinkEnd(V[s], Y[s], k, top, top)
      /\ \A u \in Windows : u # w /\ u # s => V[u] = Y[u]
  BY <1>1 DEF EvaluationDone
<1>7. /\ Good(View(b, V[w]), k, top) /\ Flag(V[w], k) /\ Grown(V[w], Y[w])
      /\ Pending(V[w]) = {} /\ ToPut(V[w]) = {}
      /\ V[w].bufc < PREALLOC => Unposted(V[w], k) = 0
  BY <1>1, <1>5, <1>6 DEF ReadEnd
<1>8. ASSUME s \notin {None, w}
      PROVE  /\ Good(V[s], k, top) /\ Flag(V[s], k) /\ Pending(V[s]) = {} /\ ToPut(V[s]) = {}
             /\ V[s].bufc < PREALLOC => Unposted(V[s], k) = 0
  BY <1>5, <1>6, <1>8 DEF SinkEnd
<1>9. WindowOK(V[w], TRUE, top)
  <2>1. Only(V[w], k) => b
    BY <1>5, <1>7, GrownFlags
  <2>2. V[w] \in Members
    BY <1>3, <1>6
  <2>. QED BY <1>3, <1>4, <1>5, <1>7, <2>1, <2>2, BlockingOK
<1>10. ASSUME s \notin {None, w} PROVE WindowOK(V[s], TRUE, top)
  <2>1. V[s] \in Members
    BY <1>3, <1>6, <1>10
  <2>2. Good(View(TRUE, V[s]), k, top)
    BY <1>8, <1>10 DEF View
  <2>. QED BY <1>3, <1>4, <1>8, <1>10, <2>1, <2>2, BlockingOK
<1>11. ASSUME NEW u \in Windows
       PROVE  /\ WindowOK(V[u], Blocking(u), top)
              /\ Pending(V[u]) = Pending(win[u]) /\ ToPut(V[u]) = ToPut(win[u])
              /\ ~Blocking(u) => V[u] = win[u]
  <2>0. Blocking(u) \in BOOLEAN /\ u # None
    BY NoneAssumption DEF Blocking
  <2>1. CASE u = w
    <3>1. Pending(win[w]) = {} /\ ToPut(win[w]) = {} /\ Blocking(w) = TRUE
      BY <1>2, <1>3, <2>0, <2>1, BlockingFree
    <3>. QED BY <1>7, <1>9, <2>1, <3>1
  <2>2. CASE u = s /\ u # w
    <3>1. Pending(win[s]) = {} /\ ToPut(win[s]) = {} /\ Blocking(s) = TRUE
      BY <1>2, <2>0, <2>2, BlockingFree
    <3>. QED BY <1>8, <1>10, <2>0, <2>2, <3>1
  <2>3. CASE u # s /\ u # w
    <3>1. V[u] = win[u]
      BY <1>5, <1>6, <2>3
    <3>2. WindowOK(win[u], Blocking(u), m)
      BY DEF DataOK
    <3>3. WindowOK(win[u], Blocking(u), top)
      BY <1>4, <2>0, <3>2, WindowLater
    <3>. QED BY <3>1, <3>3
  <2>. QED BY <2>1, <2>2, <2>3
<1>. QED
  BY <1>6, <1>11

LEMMA MadeData ==
  ASSUME FuturesInv, DataOK, sane, NEW c, CallOK(c), Statement(c), NumberedOK(c, n, n'), sane', AtOnce(c)
  PROVE  DataOK'
<1>1. PICK m, top, w, s : m = n /\ top = n' /\ w = From(c) /\ s = c.sink
  OBVIOUS
<1>2. NumberedOK(c, m, top)
  BY <1>1
<1>3. QueueOK /\ m \in Nat
  BY <1>1, AccessAssumption DEF DataOK, FuturesInv, TypeOK
<1>4. Supported(c) /\ Quiet /\ UNCHANGED <<comp, flushing, at>>
  BY DEF Statement
<1>5. PICK b : Ready(c, b, m)
  BY <1>1, <1>2, <1>3, <1>4, SupportedReady
<1>6. PICK Y : Posting(win, c) = St(Y, <<>>, 0) /\ PostingDone(Y, win, b, c, m, top)
  BY <1>1, <1>2, <1>3, <1>5, SupportedPosting
<1>7. Blocking(w) /\ ToSet(c.wins) = {From(c)} /\ b \in BOOLEAN
  BY <1>1, <1>5 DEF Ready
<1>8. /\ \E o \in EvalOrders(c) :
           LET z == Evaluation(Y, c, o)
               r == Again(z, c) IN
           /\ win' = r.win /\ wild' = r.wild
           /\ last' = [expr |-> c, order |-> o, got |-> z.got, put |-> z.put]
      /\ UNCHANGED <<exprs, expressions>>
  <2>1. PICK y : y = Posting(win, c)
    OBVIOUS
  <2>2. y.win = Y /\ y.wild = "no"
    BY <1>6, <2>1, StIs
  <2>3. \/ /\ AtOnce(c) /\ y.wild = "no"
           /\ \E o \in EvalOrders(c) :
                LET z == Evaluation(y.win, c, o)
                    r == Again(z, c) IN
                /\ win' = r.win /\ wild' = r.wild
                /\ last' = [expr |-> c, order |-> o, got |-> z.got, put |-> z.put]
           /\ UNCHANGED <<exprs, expressions>>
        \/ ~AtOnce(c)
        \/ y.wild # "no" \/ (~AtOnce(c) /\ Len(exprs) = EXPR_COUNT)
    <3>1. \/ /\ AtOnce(c) /\ y.wild = "no"
             /\ \E o \in EvalOrders(c) :
                  LET z == Evaluation(y.win, c, o)
                      r == Again(z, c) IN
                  /\ win' = r.win /\ wild' = r.wild
                  /\ last' = [expr |-> c, order |-> o, got |-> z.got, put |-> z.put]
             /\ UNCHANGED <<exprs, expressions>>
          \/ /\ ~AtOnce(c) /\ y.wild = "no" /\ Len(exprs) < EXPR_COUNT
             /\ win' = y.win
             /\ exprs' = Append(exprs, NewExpr(c)) /\ expressions' = Blocked(c)
             /\ UNCHANGED <<wild, last>>
          \/ /\ y.wild # "no" \/ (~AtOnce(c) /\ Len(exprs) = EXPR_COUNT)
             /\ wild' = IF y.wild # "no" THEN y.wild ELSE "ids"
             /\ UNCHANGED <<win, exprs, expressions, last>>
      BY <2>1, StatementParts
    <3>. QED BY <3>1, Zenon
  <2>. QED BY <2>2, <2>3
<1>9. PICK o \in EvalOrders(c) :
        LET z == Evaluation(Y, c, o)
            r == Again(z, c) IN
        /\ win' = r.win /\ wild' = r.wild
        /\ last' = [expr |-> c, order |-> o, got |-> z.got, put |-> z.put]
  BY <1>8
<1>10. Evaluable(Y, b, c, m, top, top) /\ Y \in [Windows -> Members] /\ top \in Nat
  <2>1. Made(Y, b, c, m, top)
    BY <1>1, <1>2, <1>3, <1>5, <1>6, <1>7, MadeEvaluable
  <2>. QED BY <2>1 DEF Made
<1>11. PICK V, g : /\ Evaluation(Y, c, o) = St(V, g, c.sinkId)
                   /\ EvaluationDone(V, Y, b, c, m, top, top) /\ DataGot(g, c, o, m)
  <2>1. Evaluates(Y, b, c, m, top, top, o)
    BY <1>2, <1>3, <1>7, <1>10, EvaluatesWell
  <2>. QED BY <2>1 DEF Evaluates
<1>12. /\ V \in [Windows -> Members]
       /\ \A u \in Windows : WindowOK(V[u], Blocking(u), top)
       /\ \A u \in Windows : Pending(V[u]) = Pending(win[u]) /\ ToPut(V[u]) = ToPut(win[u])
       /\ \A u \in Windows : ~Blocking(u) => V[u] = win[u]
  BY <1>1, <1>2, <1>3, <1>5, <1>6, <1>7, <1>11, MadeWindows
<1>13. PICK z : z = Evaluation(Y, c, o)
  OBVIOUS
<1>14. z.win = V /\ z.wild = "no" /\ z.got = g /\ z.put = c.sinkId
  BY <1>11, <1>13, StIs
<1>15. Again(z, c) = z
  <2>1. c.sink # None => comp[c.sink] # "REMOTE_FLUSH"
    BY <1>4 DEF Supported
  <2>. QED BY <2>1 DEF Again
<1>16. /\ win' = V /\ wild' = "no"
       /\ last' = [expr |-> c, order |-> o, got |-> g, put |-> c.sinkId]
  BY <1>9, <1>13, <1>14, <1>15
<1>17. Waiting' = Waiting /\ UNCHANGED <<exprs, expressions>>
  <2>1. UNCHANGED <<exprs, expressions>> /\ \A u \in Windows : Left(u)' = Left(u)
    BY <1>4, <1>8 DEF Left
  <2>2. \A e : Waits(e)' = Waits(e)
    BY <2>1, SameAhead
  <2>. QED BY <2>1, <2>2, SameWaiting
<1>18. n' \in Nat /\ n <= n'
  <2>1. PICK d : d = m + Len(c.wins)
    OBVIOUS
  <2>2. m \in Nat /\ top \in Nat /\ m < top
    BY <1>2, <2>1, TopIs
  <2>. QED BY <1>1, <2>2
<1>19. /\ \A e \in Waiting' : WaitingOK(e)'
       /\ \A e, f \in Waiting' : InTurn(e, f)'
  <2>1. ASSUME NEW e \in Waiting', NEW u \in {From(exprs[e].run), exprs[e].run.sink} \ {None}
        PROVE  Grown(win'[u], win[u])
    <3>1. PICK d : d = exprs[e].run
      OBVIOUS
    <3>2. e \in Waiting
      BY <1>17
    <3>3. From(d) \in Windows /\ ~Blocking(From(d)) /\ (d.sink # None => d.sink \in Windows /\ ~Blocking(d.sink))
      BY <1>3, <3>1, <3>2, WaitingIs
    <3>4. u \in Windows /\ ~Blocking(u)
      BY <2>1, <3>1, <3>3
    <3>5. win'[u] = win[u]
      BY <1>12, <1>16, <3>4
    <3>. QED BY <3>5 DEF Grown
  <2>2. \A e \in Waiting' : exprs'[e].run = exprs[e].run
    BY <1>17
  <2>3. UNCHANGED comp
    BY <1>4
  <2>. QED BY <1>3, <1>17, <1>18, <2>1, <2>2, <2>3, QueueKept
<1>20. flushing' = None
  BY <1>4 DEF Quiet
<1>21. InOrderMade'
  BY <1>3, <1>17 DEF QueueOK, InOrderMade
<1>22. QueueOK'
  BY <1>19, <1>20, <1>21 DEF QueueOK
<1>23. \A u \in Windows : WindowOK(win'[u], Blocking(u)', n')
  <2>. TAKE u \in Windows
  <2>1. Blocking(u)' = Blocking(u)
    BY <1>4 DEF Blocking
  <2>. QED BY <1>1, <1>12, <1>16, <2>1
<1>24. \A u \in Windows : Pending(win'[u]) = Awaited(u)' /\ ToPut(win'[u]) = Coming(u)'
  <2>. TAKE u \in Windows
  <2>1. Awaited(u)' = Awaited(u) /\ Coming(u)' = Coming(u)
    BY <1>17, SameAwaited
  <2>2. Pending(win[u]) = Awaited(u) /\ ToPut(win[u]) = Coming(u)
    BY DEF DataOK
  <2>. QED BY <1>12, <1>16, <2>1, <2>2
<1>25. OwnData'
  <2>1. PICK x : x = last'
    OBVIOUS
  <2>2. x.expr = c /\ x.order = o /\ x.got = g /\ x.put = c.sinkId
    BY <1>16, <2>1
  <2>3. LastOK(x)
    BY <1>2, <1>7, <1>11, <2>2 DEF LastOK
  <2>4. LastOwn(last')
    BY <2>1, <2>3, LastOwnIs
  <2>. QED BY <2>4, OwnDataIs
<1>26. win' \in [Windows -> Members]
  BY <1>12, <1>16
<1>. QED
  BY <1>16, <1>22, <1>23, <1>24, <1>25, <1>26 DEF DataOK

-----------------------------------------------------------------------------
(***************************************************************************)
(* A flush runs an expression.                                             *)
(***************************************************************************)

\* It is the oldest of those that wait for the window.
LEMMA RunFirst ==
  ASSUME FuturesInv, QueueOK, RunExpr, NEW r, r = Reached,
         NEW e \in Waiting, From(exprs[e].run) = flushing, e # r
  PROVE  r < e
<1>1. /\ r \in Waiting /\ at \in DOMAIN expressions[flushing] /\ expressions[flushing][at] = r
      /\ flushing \in Windows
  BY RunWaiting
<1>2. r \in Nat /\ e \in Nat /\ Waits(e) = {flushing}
  BY <1>1, WaitingIs
<1>3. PICK i \in Left(flushing) : expressions[flushing][i] = e
  BY <1>2, WaitsMember
<1>4. /\ at \in Int /\ i \in Int /\ at <= i /\ i \in DOMAIN expressions[flushing]
  <2>1. expressions[flushing] \in Seq(Nat)
    BY <1>1 DEF FuturesInv
  <2>2. DOMAIN expressions[flushing] = 1 .. Len(expressions[flushing]) /\ Len(expressions[flushing]) \in Nat
    BY <2>1, LenProperties
  <2>3. i \in at .. Len(expressions[flushing])
    BY <1>3 DEF Left
  <2>. QED BY <1>1, <2>2, <2>3
<1>5. at < i
  BY <1>1, <1>3, <1>4
<1>6. r <= e
  BY <1>1, <1>3, <1>4, <1>5 DEF QueueOK, InOrderMade
<1>. QED
  BY <1>2, <1>6

\* So its accesses are the first its windows have yet to use, and no others are its own.
LEMMA RunTurn ==
  ASSUME FuturesInv, QueueOK, RunExpr, NEW r, r = Reached, NEW c, c = exprs[r].run,
         NEW e \in Waiting, e # r, NEW d, d = exprs[e].run
  PROVE  /\ From(c) = flushing
         /\ From(d) = flushing => \A x \in Ids(c), y \in Ids(d) : x < y
         /\ c.sink # None /\ d.sink = c.sink => c.sinkId < d.sinkId
<1>1. r \in Waiting /\ flushing \in Waits(r)
  BY RunWaiting
<1>2. From(c) = flushing
  <2>1. Waits(r) = {From(c)}
    BY <1>1, WaitingIs
  <2>. QED BY <1>1, <2>1
<1>3. InTurn(r, e)
  BY <1>1 DEF QueueOK
<1>4. /\ r < e => \A x \in Ids(c), y \in Ids(d) : x < y
      /\ r < e /\ c.sink # None /\ d.sink # None => c.sinkId < d.sinkId
      /\ c.sink = d.sink /\ c.sink # None => From(c) = From(d)
  BY <1>3 DEF InTurn
<1>5. From(d) = flushing => r < e
  BY RunFirst
<1>. QED
  BY <1>2, <1>4, <1>5

\* Its windows are ready for its evaluation.
LEMMA RunEvaluable ==
  ASSUME FuturesInv, DataOK, RunExpr, NEW r, r = Reached, NEW c, c = exprs[r].run,
         NEW a, NEW top, NumberedOK(c, a, top), NEW W, W = win, NEW m \in Nat, m = n
  PROVE  Evaluable(W, TRUE, c, a, m, top)
<1>1. QueueOK /\ r \in Waiting
  BY RunWaiting DEF DataOK
<1>2. PICK w, s, k : w = From(c) /\ s = c.sink /\ k = c.kind
  OBVIOUS
<1>3. /\ w \in Windows /\ ToSet(c.wins) = {w} /\ ~Blocking(w) /\ k \in Kinds /\ Flag(W[w], k)
      /\ s # None => s \in Windows /\ ~Blocking(s) /\ Flag(W[s], k)
  BY <1>1, <1>2, WaitingIs
<1>4. /\ a \in Nat /\ top \in Nat /\ (s # None => c.sinkId = top)
  <2>1. PICK z : z = a + Len(c.wins)
    OBVIOUS
  <2>. QED BY <1>2, <2>1, TopIs
<1>5. Ids(c) = a + 1 .. a + Len(c.wins)
  BY <1>2, <1>3, IdsAre
<1>6. ASSUME NEW u \in Windows, ~Blocking(u), Flag(W[u], k)
      PROVE  Good(W[u], k, m) /\ (W[u].bufc < PREALLOC => Unposted(W[u], k) = 0)
  <2>1. W[u] \in Members /\ WindowOK(W[u], Blocking(u), m)
    BY DEF DataOK
  <2>2. Blocking(u) = FALSE
    BY <1>6 DEF Blocking
  <2>3. Sound(W[u], k, m)
    BY <1>3, <1>6, <2>1, <2>2, DeferringOK
  <2>. QED BY <2>3 DEF Sound
<1>7. First(W[w], c, a)
  <2>1. Pending(W[w]) = Awaited(w)
    BY <1>3 DEF DataOK
  <2>2. Ids(c) \subseteq Awaited(w)
    <3>1. \A x \in Ids(c) : x \in Awaited(w)
      BY <1>1, <1>2, AwaitedIs
    <3>. QED BY <3>1
  <2>3. ASSUME NEW y \in Awaited(w) PROVE a + 1 <= y
    <3>1. PICK e \in Waiting : From(exprs[e].run) = w /\ y \in Ids(exprs[e].run)
      BY <2>3, AwaitedIs
    <3>2. CASE e = r
      BY <1>4, <1>5, <3>1, <3>2
    <3>3. CASE e # r
      <4>1. PICK d : d = exprs[e].run
        OBVIOUS
      <4>2. From(c) = flushing /\ (From(d) = flushing => \A x \in Ids(c), z \in Ids(d) : x < z)
        BY <1>1, <3>3, <4>1, RunTurn
      <4>3. \A x \in Ids(c) : x < y
        BY <1>2, <3>1, <4>1, <4>2
      <4>4. y \in Int
        BY <1>1, <3>1, <4>1, WaitingIds
      <4>5. a + 1 \in Ids(c)
        <5>1. Len(c.wins) \in {1, 2}
          BY DEF NumberedOK, CallOK
        <5>2. \A l \in {1, 2} : a + 1 \in a + 1 .. a + l
          BY <1>4
        <5>3. a + 1 \in a + 1 .. a + Len(c.wins)
          BY <5>1, <5>2
        <5>. QED BY <1>5, <5>3
      <4>. QED BY <1>4, <4>3, <4>4, <4>5
    <3>. QED BY <3>2, <3>3
  <2>. QED BY <1>5, <2>1, <2>2, <2>3 DEF First
<1>8. ASSUME s # None PROVE FirstPut(W[s], top)
  <2>1. ToPut(W[s]) = Coming(s)
    BY <1>3, <1>8 DEF DataOK
  <2>2. top \in Coming(s)
    BY <1>1, <1>2, <1>4, <1>8, AwaitedIs
  <2>3. ASSUME NEW y \in Coming(s) PROVE top <= y
    <3>1. PICK e \in Waiting : exprs[e].run.sink = s /\ y = exprs[e].run.sinkId
      BY <2>3, AwaitedIs
    <3>2. CASE e = r
      BY <1>4, <1>8, <3>1, <3>2
    <3>3. CASE e # r
      <4>1. PICK d : d = exprs[e].run
        OBVIOUS
      <4>2. c.sinkId < d.sinkId
        <5>1. c.sink # None /\ d.sink = c.sink => c.sinkId < d.sinkId
          BY <1>1, <3>3, <4>1, RunTurn
        <5>. QED BY <1>2, <1>8, <3>1, <4>1, <5>1
      <4>3. y \in Int /\ y = d.sinkId
        BY <1>1, <3>1, <4>1, WaitingIds
      <4>. QED BY <1>4, <1>8, <4>2, <4>3
    <3>. QED BY <3>2, <3>3
  <2>. QED BY <2>1, <2>2, <2>3 DEF FirstPut
<1>9. Good(View(TRUE, W[w]), k, m) /\ (W[w].bufc < PREALLOC => Unposted(W[w], k) = 0)
  BY <1>3, <1>6 DEF View
<1>10. s # None => Good(W[s], k, m) /\ (W[s].bufc < PREALLOC => Unposted(W[s], k) = 0)
  BY <1>3, <1>6
<1>. QED
  BY <1>2, <1>7, <1>8, <1>9, <1>10 DEF Evaluable

\* Its windows after it have what it read and put no more.
RunDone(V, c, m) ==
  /\ V \in [Windows -> Members]
  /\ \A u \in Windows : WindowOK(V[u], Blocking(u), m) /\ Grown(V[u], win[u])
  /\ \A u \in Windows : \A x :
       /\ x \in Pending(V[u]) <=> x \in Pending(win[u]) /\ ~(From(c) = u /\ x \in Ids(c))
       /\ x \in ToPut(V[u]) <=> x \in ToPut(win[u]) /\ ~(c.sink = u /\ x = c.sinkId)

LEMMA RunWindows ==
  ASSUME FuturesInv, DataOK, RunExpr, NEW r, r = Reached, NEW c, c = exprs[r].run,
         NEW a, NEW top, NumberedOK(c, a, top), NEW m \in Nat, m = n,
         NEW V, EvaluationDone(V, win, TRUE, c, a, m, top)
  PROVE  RunDone(V, c, m)
<1>1. QueueOK /\ r \in Waiting
  BY RunWaiting DEF DataOK
<1>2. PICK w, s, k : w = From(c) /\ s = c.sink /\ k = c.kind
  OBVIOUS
<1>3. /\ w \in Windows /\ ToSet(c.wins) = {w} /\ ~Blocking(w) /\ k \in Kinds /\ Flag(win[w], k)
      /\ s # None => s \in Windows /\ ~Blocking(s) /\ Flag(win[s], k)
  BY <1>1, <1>2, WaitingIs
<1>4. /\ a \in Nat /\ top \in Nat /\ (s # None => c.sinkId = top)
  <2>1. PICK z : z = a + Len(c.wins)
    OBVIOUS
  <2>. QED BY <1>2, <2>1, TopIs
<1>5. Ids(c) = a + 1 .. a + Len(c.wins)
  BY <1>2, <1>3, IdsAre
<1>6. /\ V \in [Windows -> Members]
      /\ ReadEnd(V[w], win[w], TRUE, c, a, m, top)
      /\ s \notin {None, w} => SinkEnd(V[s], win[s], k, m, top)
      /\ \A u \in Windows : u # w /\ u # s => V[u] = win[u]
  BY <1>2 DEF EvaluationDone
<1>7. ASSUME NEW u \in Windows, ~Blocking(u), Flag(win[u], k)
      PROVE  Only(win[u], k)
  <2>1. win[u] \in Members /\ WindowOK(win[u], Blocking(u), m)
    BY DEF DataOK
  <2>2. Blocking(u) = FALSE
    BY <1>7 DEF Blocking
  <2>. QED BY <1>3, <1>7, <2>1, <2>2, DeferringOK
<1>8. /\ Good(V[w], k, m) /\ Flag(V[w], k) /\ Only(V[w], k) /\ Grown(V[w], win[w])
      /\ Pending(V[w]) = Pending(win[w]) \ Ids(c)
      /\ s = w => ToPut(V[w]) = ToPut(win[w]) \ {top}
      /\ s # w => ToPut(V[w]) = ToPut(win[w])
      /\ V[w].bufc < PREALLOC => Unposted(V[w], k) = 0
  <2>1. Only(win[w], k)
    BY <1>3, <1>7
  <2>. QED BY <1>2, <1>3, <1>5, <1>6, <2>1 DEF ReadEnd, View
<1>9. ASSUME s \notin {None, w}
      PROVE  /\ Good(V[s], k, m) /\ Flag(V[s], k) /\ Only(V[s], k) /\ Grown(V[s], win[s])
             /\ Pending(V[s]) = Pending(win[s]) /\ ToPut(V[s]) = ToPut(win[s]) \ {top}
             /\ V[s].bufc < PREALLOC => Unposted(V[s], k) = 0
  <2>1. Only(win[s], k) /\ Flag(win[s], k)
    BY <1>3, <1>7, <1>9
  <2>. QED BY <1>6, <1>9, <2>1 DEF SinkEnd
<1>10. ASSUME NEW u \in Windows PROVE WindowOK(V[u], Blocking(u), m) /\ Grown(V[u], win[u])
  <2>1. CASE u = w
    <3>1. Sound(V[w], k, m) /\ V[w] \in Members
      BY <1>3, <1>6, <1>8 DEF Sound
    <3>2. WindowOK(V[w], FALSE, m)
      BY <1>3, <1>8, <3>1, DeferringOK
    <3>. QED BY <1>3, <1>8, <2>1, <3>2 DEF Blocking
  <2>2. CASE u = s /\ u # w
    <3>0. s \notin {None, w}
      BY <2>2, NoneAssumption
    <3>1. Sound(V[s], k, m) /\ V[s] \in Members
      BY <1>6, <1>9, <2>2, <3>0 DEF Sound
    <3>2. WindowOK(V[s], FALSE, m)
      BY <1>3, <1>9, <3>0, <3>1, DeferringOK
    <3>. QED BY <1>3, <1>9, <2>2, <3>0, <3>2 DEF Blocking
  <2>3. CASE u # s /\ u # w
    BY <1>6, <2>3 DEF DataOK, Grown
  <2>. QED BY <2>1, <2>2, <2>3
<1>11. ASSUME NEW u \in Windows, NEW x
       PROVE  /\ x \in Pending(V[u]) <=> x \in Pending(win[u]) /\ ~(w = u /\ x \in Ids(c))
              /\ x \in ToPut(V[u]) <=> x \in ToPut(win[u]) /\ ~(s = u /\ x = c.sinkId)
  <2>0. s = u => s # None
    BY NoneAssumption
  <2>1. CASE u = w
    BY <1>4, <1>8, <2>0, <2>1
  <2>2. CASE u = s /\ u # w
    BY <1>4, <1>9, <2>0, <2>2
  <2>3. CASE u # s /\ u # w
    BY <1>6, <2>3
  <2>. QED BY <2>1, <2>2, <2>3
<1>. QED
  BY <1>2, <1>6, <1>10, <1>11 DEF RunDone

LEMMA RunExprData ==
  ASSUME FuturesInv, DataOK, sane, RunExpr
  PROVE  DataOK'
<1>1. PICK r, W, m : r = Reached /\ W = win /\ m = n
  OBVIOUS
<1>2. PICK c : c = exprs[r].run
  OBVIOUS
<1>3. QueueOK /\ m \in Nat /\ W \in [Windows -> Members]
  BY <1>1, AccessAssumption DEF DataOK, FuturesInv, TypeOK
<1>4. /\ r \in Waiting /\ Waiting' = Waiting \ {r}
      /\ \A e \in Waiting' : exprs'[e] = exprs[e]
  BY <1>1, RunWaiting
<1>5. ToSet(c.wins) = {From(c)} /\ \E a, top \in 0 .. n : NumberedOK(c, a, top)
  BY <1>2, <1>3, <1>4, WaitingIs
<1>6. PICK a, top \in 0 .. n : NumberedOK(c, a, top)
  BY <1>5
<1>7. a \in Nat
  OBVIOUS
<1>8. \E o \in EvalOrders(c) :
        LET x == Evaluation(W, c, o) IN
        /\ win' = x.win /\ wild' = x.wild
        /\ last' = [expr |-> c, order |-> o, got |-> x.got, put |-> x.put]
  BY <1>1, <1>2 DEF RunExpr
<1>9. PICK o \in EvalOrders(c) :
        LET x == Evaluation(W, c, o) IN
        /\ win' = x.win /\ wild' = x.wild
        /\ last' = [expr |-> c, order |-> o, got |-> x.got, put |-> x.put]
  BY <1>8
<1>10. UNCHANGED <<comp, expressions, flushing, n>>
  BY DEF RunExpr, Unblocking
<1>11. Evaluable(W, TRUE, c, a, m, top)
  BY <1>1, <1>2, <1>3, <1>6, RunEvaluable
<1>12. PICK V, g : /\ Evaluation(W, c, o) = St(V, g, c.sinkId)
                   /\ EvaluationDone(V, W, TRUE, c, a, m, top) /\ DataGot(g, c, o, a)
  <2>1. TRUE \in BOOLEAN
    OBVIOUS
  <2>2. ToSet(c.wins) = {From(c)}
    BY <1>5
  <2>3. Evaluates(W, TRUE, c, a, m, top, o)
    BY <1>3, <1>6, <1>7, <1>11, <2>1, <2>2, EvaluatesWell
  <2>. QED BY <2>3 DEF Evaluates
<1>13. PICK z : z = Evaluation(W, c, o)
  OBVIOUS
<1>14. z.win = V /\ z.wild = "no" /\ z.got = g /\ z.put = c.sinkId
  BY <1>12, <1>13, StIs
<1>15. /\ win' = V /\ wild' = "no"
       /\ last' = [expr |-> c, order |-> o, got |-> g, put |-> c.sinkId]
  BY <1>9, <1>13, <1>14
<1>16. /\ V \in [Windows -> Members]
       /\ \A u \in Windows : WindowOK(V[u], Blocking(u), m) /\ Grown(V[u], win[u])
       /\ \A u \in Windows : \A x :
            /\ x \in Pending(V[u]) <=> x \in Pending(win[u]) /\ ~(From(c) = u /\ x \in Ids(c))
            /\ x \in ToPut(V[u]) <=> x \in ToPut(win[u]) /\ ~(c.sink = u /\ x = c.sinkId)
  <2>1. EvaluationDone(V, win, TRUE, c, a, m, top)
    BY <1>1, <1>12
  <2>2. RunDone(V, c, m)
    BY <1>1, <1>2, <1>3, <1>6, <2>1, RunWindows
  <2>. QED BY <2>2 DEF RunDone
<1>17. /\ \A e \in Waiting' : WaitingOK(e)'
       /\ \A e, f \in Waiting' : InTurn(e, f)'
  <2>1. ASSUME NEW e \in Waiting', NEW u \in {From(exprs[e].run), exprs[e].run.sink} \ {None}
        PROVE  Grown(win'[u], win[u])
    <3>1. From(exprs[e].run) \in Windows /\ (exprs[e].run.sink # None => exprs[e].run.sink \in Windows)
      BY <1>3, <1>4, WaitingIs
    <3>. QED BY <1>15, <1>16, <2>1, <3>1
  <2>2. \A e \in Waiting' : exprs'[e].run = exprs[e].run
    BY <1>4
  <2>3. UNCHANGED comp /\ n' \in Nat /\ n <= n' /\ Waiting' \subseteq Waiting
    BY <1>1, <1>3, <1>4, <1>10
  <2>. QED BY <1>3, <2>1, <2>2, <2>3, QueueKept
<1>18. flushing' # None => Undisturbed(flushing, flushing)'
  <2>1. PICK f : f = flushing
    OBVIOUS
  <2>2. f # None => Undisturbed(f, f)
    BY <1>3, <2>1 DEF QueueOK
  <2>3. f # None => \A e \in Waiting' : exprs'[e].run.sink = f => exprs'[e].run.wins[1] = f
    BY <1>4, <2>2, StillUndisturbed
  <2>4. flushing' = f
    BY <1>10, <2>1
  <2>. QED BY <2>3, <2>4 DEF Undisturbed
<1>19. InOrderMade'
  BY <1>3, <1>10 DEF QueueOK, InOrderMade
<1>20. QueueOK'
  BY <1>17, <1>18, <1>19 DEF QueueOK
<1>21. \A u \in Windows : WindowOK(win'[u], Blocking(u)', n')
  <2>. TAKE u \in Windows
  <2>1. Blocking(u)' = Blocking(u)
    BY <1>10 DEF Blocking
  <2>. QED BY <1>1, <1>10, <1>15, <1>16, <2>1
<1>22. ASSUME NEW e \in Waiting, e # r, NEW d, d = exprs[e].run
       PROVE  /\ From(d) = From(c) => \A x \in Ids(c) : x \notin Ids(d)
              /\ c.sink # None /\ d.sink = c.sink => c.sinkId # d.sinkId
  <2>1. /\ From(c) = flushing
        /\ From(d) = flushing => \A x \in Ids(c), y \in Ids(d) : x < y
        /\ c.sink # None /\ d.sink = c.sink => c.sinkId < d.sinkId
    BY <1>1, <1>2, <1>3, <1>22, RunTurn
  <2>2. (\A x \in Ids(c) : x \in Int) /\ c.sinkId \in Int
    BY <1>2, <1>3, <1>4, WaitingIds
  <2>. QED BY <2>1, <2>2
<1>23. \A u \in Windows : Pending(win'[u]) = Awaited(u)' /\ ToPut(win'[u]) = Coming(u)'
  <2>. TAKE u \in Windows
  <2>0. Pending(win[u]) = Awaited(u) /\ ToPut(win[u]) = Coming(u) /\ u # None
    BY NoneAssumption DEF DataOK
  <2>1. ASSUME NEW x PROVE x \in Pending(win'[u]) <=> x \in Awaited(u)'
    <3>1. x \in Pending(win'[u]) <=> x \in Awaited(u) /\ ~(From(c) = u /\ x \in Ids(c))
      BY <1>15, <1>16, <2>0
    <3>2. ASSUME x \in Awaited(u)' PROVE x \in Awaited(u) /\ ~(From(c) = u /\ x \in Ids(c))
      <4>1. PICK e \in Waiting' : From(exprs'[e].run) = u /\ x \in Ids(exprs'[e].run)
        BY <3>2, AwaitedIs
      <4>2. PICK d : d = exprs[e].run
        OBVIOUS
      <4>3. e \in Waiting /\ e # r /\ From(d) = u /\ x \in Ids(d)
        BY <1>4, <4>1, <4>2
      <4>4. x \in Awaited(u)
        BY <4>2, <4>3, AwaitedIs
      <4>. QED BY <1>22, <4>2, <4>3, <4>4
    <3>3. ASSUME x \in Awaited(u), ~(From(c) = u /\ x \in Ids(c)) PROVE x \in Awaited(u)'
      <4>1. PICK e \in Waiting : From(exprs[e].run) = u /\ x \in Ids(exprs[e].run)
        BY <3>3, AwaitedIs
      <4>2. e # r
        BY <1>2, <3>3, <4>1
      <4>3. e \in Waiting' /\ exprs'[e].run = exprs[e].run
        BY <1>4, <4>2
      <4>. QED BY <4>1, <4>3, AwaitedIs
    <3>. QED BY <3>1, <3>2, <3>3
  <2>2. ASSUME NEW x PROVE x \in ToPut(win'[u]) <=> x \in Coming(u)'
    <3>1. x \in ToPut(win'[u]) <=> x \in Coming(u) /\ ~(c.sink = u /\ x = c.sinkId)
      BY <1>15, <1>16, <2>0
    <3>2. ASSUME x \in Coming(u)' PROVE x \in Coming(u) /\ ~(c.sink = u /\ x = c.sinkId)
      <4>1. PICK e \in Waiting' : exprs'[e].run.sink = u /\ x = exprs'[e].run.sinkId
        BY <3>2, AwaitedIs
      <4>2. PICK d : d = exprs[e].run
        OBVIOUS
      <4>3. e \in Waiting /\ e # r /\ d.sink = u /\ x = d.sinkId
        BY <1>4, <4>1, <4>2
      <4>4. x \in Coming(u)
        BY <4>2, <4>3, AwaitedIs
      <4>. QED BY <1>22, <2>0, <4>2, <4>3, <4>4
    <3>3. ASSUME x \in Coming(u), ~(c.sink = u /\ x = c.sinkId) PROVE x \in Coming(u)'
      <4>1. PICK e \in Waiting : exprs[e].run.sink = u /\ x = exprs[e].run.sinkId
        BY <3>3, AwaitedIs
      <4>2. e # r
        BY <1>2, <3>3, <4>1
      <4>3. e \in Waiting' /\ exprs'[e].run = exprs[e].run
        BY <1>4, <4>2
      <4>. QED BY <4>1, <4>3, AwaitedIs
    <3>. QED BY <3>1, <3>2, <3>3
  <2>3. Pending(win'[u]) = Awaited(u)'
    BY <2>1
  <2>4. ToPut(win'[u]) = Coming(u)'
    BY <2>2
  <2>. QED BY <2>3, <2>4
<1>24. OwnData'
  <2>1. PICK x : x = last'
    OBVIOUS
  <2>2. x.expr = c /\ x.order = o /\ x.got = g /\ x.put = c.sinkId
    BY <1>15, <2>1
  <2>3. LastOK(x)
    BY <1>5, <1>6, <1>12, <2>2 DEF LastOK
  <2>4. LastOwn(last')
    BY <2>1, <2>3, LastOwnIs
  <2>. QED BY <2>4, OwnDataIs
<1>25. win' \in [Windows -> Members]
  BY <1>15, <1>16
<1>. QED
  BY <1>15, <1>20, <1>21, <1>23, <1>24, <1>25 DEF DataOK

-----------------------------------------------------------------------------
(***************************************************************************)
(* The data is right as long as no unsupported call was made.              *)
(***************************************************************************)
DataInv == FuturesInv /\ (sane => DataOK)

LEMMA InitData == Init => DataInv
<1>. SUFFICES ASSUME Init PROVE DataInv
  OBVIOUS
<1>1. FuturesInv
  BY InitFutures
<1>2. Waiting = {}
  BY DEF Init, Waiting
<1>3. \A w \in Windows : \E s \in Shapes : win[w] = New(s)
  BY DEF Init
<1>4. \A w \in Windows : /\ win[w] \in Members /\ WindowOK(win[w], Blocking(w), 0)
                         /\ Pending(win[w]) = {} /\ ToPut(win[w]) = {}
  <2>. TAKE w \in Windows
  <2>1. PICK s \in Shapes : win[w] = New(s)
    BY <1>3
  <2>2. 0 \in Nat
    OBVIOUS
  <2>. QED BY <2>1, <2>2, NewOK
<1>5. win \in [Windows -> Members]
  <2>1. win = [w \in Windows |-> win[w]]
    BY DEF Init
  <2>. QED BY <1>4, <2>1
<1>6. \A w \in Windows : Awaited(w) = {} /\ Coming(w) = {}
  <2>. TAKE w \in Windows
  <2>1. \A x : x \notin Awaited(w) /\ x \notin Coming(w)
    BY <1>2, AwaitedIs
  <2>. QED BY <2>1
<1>7. QueueOK
  <2>1. InOrderMade
    <3>1. DOMAIN <<>> = {}
      OBVIOUS
    <3>. QED BY <3>1 DEF Init, InOrderMade
  <2>2. flushing = None
    BY DEF Init
  <2>. QED BY <1>2, <2>1, <2>2 DEF QueueOK
<1>8. OwnData
  <2>1. LastOK(last)
    BY DEF Init, Nothing, LastOK
  <2>. QED BY <2>1, LastOwnIs, OwnDataIs
<1>9. wild = "no" /\ n = 0
  BY DEF Init
<1>10. DataOK
  BY <1>4, <1>5, <1>6, <1>7, <1>8, <1>9 DEF DataOK
<1>. QED
  BY <1>1, <1>10 DEF DataInv

LEMMA NextData == DataInv /\ [Next]_vars => DataInv'
<1>. SUFFICES ASSUME DataInv, [Next]_vars PROVE DataInv'
  OBVIOUS
<1>1. FuturesInv /\ FuturesInv'
  BY NextFutures DEF DataInv
<1>2. ASSUME sane' PROVE DataOK'
  <2>1. CASE Statements
    <3>1. PICK c : CallOK(c) /\ Statement(c) /\ NumberedOK(c, n, n')
      BY <1>1, <2>1, StatementsCall
    <3>2. sane /\ DataOK
      BY <1>2, <3>1 DEF Statement, DataInv
    <3>3. CASE AtOnce(c)
      BY <1>1, <1>2, <3>1, <3>2, <3>3, MadeData
    <3>4. CASE ~AtOnce(c)
      BY <1>1, <1>2, <3>1, <3>2, <3>4, LeftData
    <3>. QED BY <3>3, <3>4
  <2>2. CASE Unblock
    <3>1. sane /\ DataOK
      BY <1>2, <2>2 DEF Unblock, Unblocking, DataInv
    <3>. QED BY <1>1, <2>2, <3>1, UnblockData
  <2>3. CASE RunExpr
    <3>1. sane /\ DataOK
      BY <1>2, <2>3 DEF RunExpr, Unblocking, DataInv
    <3>. QED BY <1>1, <2>3, <3>1, RunExprData
  <2>4. CASE EndFlush
    <3>1. sane /\ DataOK
      BY <1>2, <2>4 DEF EndFlush, DataInv
    <3>. QED BY <1>1, <2>4, <3>1, EndFlushData
  <2>5. ASSUME NEW w \in Windows, Flush(w) PROVE DataOK'
    <3>1. sane /\ DataOK
      BY <1>2, <2>5 DEF Flush, DataInv
    <3>. QED BY <1>1, <1>2, <2>5, <3>1, FlushData
  <2>6. ASSUME NEW w \in Windows, WFree(w) \/ Destroy(w) PROVE DataOK'
    <3>1. sane /\ DataOK
      BY <1>2, <2>6 DEF WFree, Destroy, DataInv
    <3>. QED BY <1>1, <1>2, <2>6, <3>1, GivenUpData
  <2>7. CASE UNCHANGED vars
    <3>1. sane /\ DataOK
      BY <1>2, <2>7 DEF vars, DataInv
    <3>. QED BY <1>1, <2>7, <3>1, StutterData
  <2>. QED BY <2>1, <2>2, <2>3, <2>4, <2>5, <2>6, <2>7 DEF Next
<1>. QED
  BY <1>1, <1>2 DEF DataInv

LEMMA AlwaysData == Spec => []DataInv
BY InitData, NextData, PTL DEF Spec

\* What was evaluated last, at once or by a flush, used the data its own accesses
\* asked for and was put where its own statement said, whatever other expressions
\* waited for the same windows, were run, forgotten or freed in between: the records,
\* buffers and counters of a window serve its expressions in the order they were made.
THEOREM OwnDataAlways == Spec => []OwnData
<1>1. DataInv => OwnData
  BY DEF DataInv, DataOK, OwnData
<1>. QED
  BY <1>1, AlwaysData, PTL

\* No statement, flush, wfree() or destruction that the code supports reads a record or a
\* buffer past its end, ignores a get that was not made, or takes an identifier beyond the
\* manager's arrays.
THEOREM NeverLeavesMemory == Spec => []NeverUndefined
<1>1. DataInv => NeverUndefined
  BY DEF DataInv, DataOK, NeverUndefined
<1>. QED
  BY <1>1, AlwaysData, PTL
=============================================================================
