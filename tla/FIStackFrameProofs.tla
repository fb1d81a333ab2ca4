------------------------ MODULE FIStackFrameProofs ------------------------
(***************************************************************************)
(* Proofs about FIStackFrame, for every number of registers per class,     *)
(* every size of variables and every body of a function: the frame and the *)
(* operand stacks.                                                         *)
(***************************************************************************)
EXTENDS FIStackFrame, SequenceTheorems, TLAPS

(***************************************************************************)
(* The frame: its types and what its operations do to it.                  *)
(***************************************************************************)
Operand == [owner : Nat, loc : Int]
Stack   == [stack : Seq(Operand), first : Nat]
Frame   == [base : Nat, top : Nat, max : Nat, free : Seq(Nat), old : Seq(Nat),
            st : [Types -> Stack]]

Depth(f, t)  == Len(f.st[t].stack)
First(f, t)  == f.st[t].first
Loc(f, t, k) == f.st[t].stack[k].loc
Owner(f, t, k) == f.st[t].stack[k].owner

\* A slot between the variables and the top.
Inside(f, x) == x \in Nat /\ f.base <= x /\ x + 8 <= f.top /\ x % 8 = 0

Bounds(f) == f.base <= f.top /\ f.top <= f.max /\ f.top % 8 = 0

BelowSpilled(f) ==
    \A t \in Types :
        /\ First(f, t) <= Depth(f, t)
        /\ \A k \in 1 .. Depth(f, t) : Loc(f, t, k) # NoSpill <=> k <= First(f, t)

SlotsInside(f) ==
    /\ \A t \in Types : \A k \in 1 .. First(f, t) : Inside(f, Loc(f, t, k))
    /\ \A j \in 1 .. Len(f.free) : Inside(f, f.free[j])

SlotsApart(f) ==
    /\ \A t, u \in Types : \A k \in 1 .. First(f, t), l \in 1 .. First(f, u) :
          t # u \/ k # l => Loc(f, t, k) # Loc(f, u, l)
    /\ \A i, j \in 1 .. Len(f.free) : i # j => f.free[i] # f.free[j]
    /\ \A t \in Types : \A k \in 1 .. First(f, t), j \in 1 .. Len(f.free) :
          f.free[j] # Loc(f, t, k)

FrameOk(f) ==
    f \in Frame /\ Bounds(f) /\ BelowSpilled(f) /\ SlotsInside(f) /\ SlotsApart(f)

\* What is not spilled fits the registers.
Fits(f) == \A t \in Types : Depth(f, t) - First(f, t) <= Limit[t]

Good(f) == FrameOk(f) /\ Fits(f)

LEMMA UpAlignIs ==
    ASSUME NEW x \in Nat, NEW a \in Nat \ {0}
    PROVE  /\ UpAlign(x, a) \in Nat /\ x <= UpAlign(x, a)
           /\ UpAlign(x, a) % a = 0
           /\ \A m \in Nat : x <= m /\ m % a = 0 => UpAlign(x, a) <= m
<1> DEFINE q == (x + a - 1) \div a
<1>1. q \in Nat
  OBVIOUS
<1>2. q * a <= x + a - 1 /\ x + a - 1 < q * a + a
  OBVIOUS
<1>3. UpAlign(x, a) = q * a
  BY DEF UpAlign
<1> HIDE DEF q
<1>4. q * a \in Nat
  BY <1>1
<1>5. x <= q * a
  BY <1>2, <1>4
<1>6. (q * a) % a = 0
  BY <1>1
<1>7. ASSUME NEW m \in Nat, x <= m, m % a = 0 PROVE q * a <= m
  <2>1. PICK k \in Nat : m = k * a
    <3>1. m \div a \in Nat /\ m = (m \div a) * a
      BY <1>7
    <3>2. QED
      BY <3>1
  <2>2. CASE q <= k
    <3>1. PICK j \in Nat : k = q + j
      BY <1>1, <2>2
    <3>2. k * a = q * a + j * a /\ j * a \in Nat
      BY <1>1, <3>1
    <3>3. QED
      BY <1>4, <2>1, <3>2
  <2>3. CASE k < q
    <3>1. PICK j \in Nat : q = k + 1 + j
      BY <1>1, <2>3
    <3>2. q * a = k * a + a + j * a /\ j * a \in Nat
      BY <3>1
    <3>3. QED
      BY <1>2, <1>4, <1>7, <2>1, <3>2
  <2>4. QED
    BY <1>1, <2>2, <2>3
<1>8. QED
  BY <1>3, <1>4, <1>5, <1>6, <1>7

LEMMA IsSeq ==
    ASSUME NEW S, NEW n \in Nat, NEW q \in [1 .. n -> S]
    PROVE  q \in Seq(S) /\ Len(q) = n
<1>1. q \in Seq(S)
  BY SeqDef
<1>2. DOMAIN q = 1 .. n /\ DOMAIN q = 1 .. Len(q) /\ Len(q) \in Nat
  BY <1>1, LenProperties
<1>3. QED
  BY <1>1, <1>2

LEMMA StackType ==
    ASSUME NEW f \in Frame, NEW t \in Types
    PROVE  /\ f.st[t] \in Stack
           /\ f.st[t].stack \in Seq(Operand) /\ Depth(f, t) \in Nat
           /\ First(f, t) \in Nat
           /\ \A k \in 1 .. Depth(f, t) :
                 f.st[t].stack[k] \in Operand /\ Loc(f, t, k) \in Int
<1>1. f.st[t] \in Stack
  BY DEF Frame
<1>2. PICK s \in Seq(Operand) : s = f.st[t].stack
  BY <1>1 DEF Stack
<1>3. Len(s) \in Nat /\ \A k \in 1 .. Len(s) : s[k] \in Operand
  BY ElementOfSeq, LenProperties
<1>4. \A k \in 1 .. Len(s) : s[k].loc \in Int
  BY <1>3 DEF Operand
<1>5. QED
  BY <1>1, <1>2, <1>3, <1>4 DEF Stack, Depth, First, Loc

\* The free list and the frame's growth yield natural numbers.
LEMMA GetTempType ==
    ASSUME NEW f \in Frame, NEW k \in Nat \ {0}
    PROVE  /\ GetTemp(f, k) \in Nat
           /\ k <= Len(f.free) => GetTemp(f, k) = f.free[Len(f.free) - k + 1]
           /\ k > Len(f.free) => GetTemp(f, k) = f.top + 8 * (k - Len(f.free) - 1)
<1>1. PICK q \in Seq(Nat) : q = f.free
  BY DEF Frame
<1>2. PICK n \in Nat : n = Len(q)
  BY LenProperties
<1>3. PICK top \in Nat : top = f.top
  BY DEF Frame
<1>4. CASE k <= n
  <2>1. n - k + 1 \in 1 .. Len(q)
    BY <1>2, <1>4
  <2>2. q[n - k + 1] \in Nat
    BY <2>1, ElementOfSeq
  <2>3. QED
    BY <1>1, <1>2, <1>4, <2>2 DEF GetTemp
<1>5. CASE k > n
  BY <1>1, <1>2, <1>3, <1>5 DEF GetTemp
<1>6. QED
  BY <1>2, <1>4, <1>5

\* SpillUpTo() moves the n operands above the spilled ones of stack t to slots.
Spills(f, g, t, n) ==
    /\ g \in Frame /\ g.base = f.base /\ g.old = f.old
    /\ g.top = f.top + 8 * Larger(0, n - Len(f.free))
    /\ g.max = Larger(f.max, g.top)
    /\ Len(g.free) = Larger(0, Len(f.free) - n)
    /\ \A j \in 1 .. Len(g.free) : g.free[j] = f.free[j]
    /\ \A u \in Types \ {t} : g.st[u] = f.st[u]
    /\ Depth(g, t) = Depth(f, t) /\ First(g, t) = First(f, t) + n
    /\ \A k \in 1 .. Depth(f, t) :
          /\ Owner(g, t, k) = Owner(f, t, k)
          /\ Loc(g, t, k) = IF k > First(f, t) /\ k <= First(f, t) + n
                            THEN GetTemp(f, k - First(f, t)) ELSE Loc(f, t, k)

LEMMA SpillUpToSpills ==
    ASSUME NEW f \in Frame, NEW t \in Types, NEW bound \in Int
    PROVE  Spills(f, SpillUpTo(f, t, bound), t, Larger(0, bound - First(f, t)))
<1>1. PICK s \in Stack : s = f.st[t]
  BY StackType
<1>2. /\ s.stack \in Seq(Operand) /\ s.first \in Nat
      /\ s.stack = f.st[t].stack /\ s.first = First(f, t)
      /\ Len(s.stack) = Depth(f, t) /\ Len(s.stack) \in Nat
  BY <1>1, StackType DEF Stack, First, Depth
<1>3. PICK n \in Nat : n = Larger(0, bound - First(f, t))
  BY <1>2 DEF Larger
<1>4. PICK g : g = SpillUpTo(f, t, bound)
  OBVIOUS
<1>5. PICK stack : stack = [k \in 1 .. Len(s.stack) |->
                              IF k > s.first /\ k <= s.first + n
                              THEN [s.stack[k] EXCEPT !.loc = GetTemp(f, k - s.first)]
                              ELSE s.stack[k]]
  OBVIOUS
<1>6. PICK a : a = AfterGetTemp(f, n)
  OBVIOUS
<1>7. g = [a EXCEPT !.st[t] = [stack |-> stack, first |-> s.first + n]]
  BY <1>1, <1>2, <1>3, <1>4, <1>5, <1>6 DEF SpillUpTo
<1>8. ASSUME NEW k \in 1 .. Len(s.stack)
      PROVE  /\ stack[k] \in Operand /\ stack[k].owner = s.stack[k].owner
             /\ stack[k].loc = IF k > s.first /\ k <= s.first + n
                               THEN GetTemp(f, k - s.first) ELSE s.stack[k].loc
  <2>1. s.stack[k] \in Operand
    BY <1>2, ElementOfSeq
  <2>2. CASE k > s.first /\ k <= s.first + n
    <3>1. k - s.first \in Nat \ {0}
      BY <1>2, <2>2
    <3>2. GetTemp(f, k - s.first) \in Nat
      BY <3>1, GetTempType
    <3>3. stack[k] = [s.stack[k] EXCEPT !.loc = GetTemp(f, k - s.first)]
      BY <1>5, <2>2
    <3>4. QED
      BY <2>1, <2>2, <3>2, <3>3 DEF Operand
  <2>3. CASE ~(k > s.first /\ k <= s.first + n)
    BY <1>5, <2>1, <2>3
  <2>4. QED
    BY <2>2, <2>3
<1>9. stack \in Seq(Operand) /\ Len(stack) = Len(s.stack)
  <2>1. stack \in [1 .. Len(s.stack) -> Operand]
    <3>1. stack = [k \in 1 .. Len(s.stack) |-> stack[k]]
      BY <1>5
    <3>2. QED
      BY <1>8, <3>1
  <2>2. QED
    BY <1>2, <2>1, IsSeq
<1>10. PICK new \in Stack : new = [stack |-> stack, first |-> s.first + n]
  <2>1. s.first + n \in Nat
    BY <1>2
  <2>2. QED
    BY <1>9, <2>1 DEF Stack
<1>11. /\ f.base \in Nat /\ f.top \in Nat /\ f.max \in Nat /\ f.free \in Seq(Nat)
       /\ f.old \in Seq(Nat) /\ f.st \in [Types -> Stack]
  BY DEF Frame
<1>12. PICK top \in Nat : top = f.top + 8 * Larger(0, n - Len(f.free))
  <2>1. Len(f.free) \in Nat
    BY <1>11, LenProperties
  <2>2. QED
    BY <1>11, <2>1 DEF Larger
<1>13. PICK free \in Seq(Nat) :
          /\ free = SubSeq(f.free, 1, Larger(0, Len(f.free) - n))
          /\ Len(free) = Larger(0, Len(f.free) - n)
          /\ \A j \in 1 .. Len(free) : free[j] = f.free[j]
  <2>1. PICK q \in Seq(Nat) : q = f.free
    BY <1>11
  <2>2. PICK m \in Nat : m = Larger(0, Len(q) - n) /\ m <= Len(q)
    <3>1. PICK l \in Nat : l = Len(q)
      BY LenProperties
    <3>2. Larger(0, l - n) \in Nat /\ Larger(0, l - n) <= l
      BY DEF Larger
    <3>3. QED
      BY <3>1, <3>2
  <2>3. \A i \in 1 .. m : q[i] \in Nat
    BY <2>2, ElementOfSeq
  <2>4. PICK r : r = SubSeq(q, 1, m)
    OBVIOUS
  <2>5. r \in Seq(Nat) /\ Len(r) = m /\ \A j \in 1 .. m : r[j] = q[j]
    BY <2>2, <2>3, <2>4
  <2>6. QED
    BY <2>1, <2>2, <2>4, <2>5
<1>14. a = [f EXCEPT !.free = free, !.top = top, !.max = Larger(f.max, top)]
  BY <1>6, <1>11, <1>12, <1>13 DEF AfterGetTemp
<1>15. Larger(f.max, top) \in Nat
  BY <1>11, <1>12 DEF Larger
<1>16. /\ a \in Frame /\ a.base = f.base /\ a.old = f.old /\ a.top = top
       /\ a.max = Larger(f.max, top) /\ a.free = free /\ a.st = f.st
  BY <1>11, <1>14, <1>15 DEF Frame
<1>17. g = [a EXCEPT !.st[t] = new]
  BY <1>7, <1>10
<1>18. /\ g \in Frame /\ g.base = f.base /\ g.old = f.old /\ g.top = top
       /\ g.max = Larger(f.max, top) /\ g.free = free
       /\ g.st = [f.st EXCEPT ![t] = new]
  BY <1>16, <1>17 DEF Frame
<1>19. /\ \A u \in Types \ {t} : g.st[u] = f.st[u]
       /\ g.st[t] = new
  BY <1>11, <1>18
<1>20. /\ Depth(g, t) = Depth(f, t) /\ First(g, t) = First(f, t) + n
       /\ \A k \in 1 .. Depth(f, t) :
             /\ Owner(g, t, k) = Owner(f, t, k)
             /\ Loc(g, t, k) = IF k > First(f, t) /\ k <= First(f, t) + n
                               THEN GetTemp(f, k - First(f, t)) ELSE Loc(f, t, k)
  BY <1>1, <1>2, <1>8, <1>9, <1>10, <1>19 DEF Depth, First, Loc, Owner
<1>21. Spills(f, g, t, n)
  BY <1>12, <1>13, <1>18, <1>19, <1>20 DEF Spills
<1>22. QED
  BY <1>3, <1>4, <1>21

\* The slots that n successive GetTemp() calls return are in the frame, and
\* nobody else's.
LEMMA TempsApart ==
    ASSUME NEW f, FrameOk(f), NEW g, NEW t \in Types, NEW n \in Nat, Spills(f, g, t, n),
           NEW k \in 1 .. n
    PROVE  /\ Inside(g, GetTemp(f, k))
           /\ \A j \in 1 .. n : j # k => GetTemp(f, j) # GetTemp(f, k)
           /\ \A j \in 1 .. Len(g.free) : g.free[j] # GetTemp(f, k)
           /\ \A u \in Types : \A l \in 1 .. First(f, u) : Loc(f, u, l) # GetTemp(f, k)
<1>1. /\ f \in Frame /\ f.top \in Nat /\ f.base \in Nat /\ g \in Frame
      /\ f.base <= f.top /\ f.top % 8 = 0
  BY DEF FrameOk, Frame, Bounds, Spills
<1>2. PICK m \in Nat : m = Len(f.free)
  <2>1. f.free \in Seq(Nat)
    BY <1>1 DEF Frame
  <2>2. QED
    BY <2>1, LenProperties
<1>3. /\ \A j \in 1 .. n : j <= m => GetTemp(f, j) = f.free[m - j + 1]
      /\ \A j \in 1 .. n : j > m => GetTemp(f, j) = f.top + 8 * (j - m - 1)
      /\ \A j \in 1 .. n : GetTemp(f, j) \in Nat
  BY <1>1, <1>2, GetTempType
<1>4. \A j \in 1 .. m : Inside(f, f.free[j])
  BY <1>2 DEF FrameOk, SlotsInside
<1>5. \A i, j \in 1 .. m : i # j => f.free[i] # f.free[j]
  BY <1>2 DEF FrameOk, SlotsApart
<1>6. \A u \in Types : \A l \in 1 .. First(f, u) :
         Inside(f, Loc(f, u, l)) /\ \A j \in 1 .. m : f.free[j] # Loc(f, u, l)
  BY <1>2 DEF FrameOk, SlotsInside, SlotsApart
<1>7. /\ g.base = f.base /\ g.top \in Nat
      /\ n > m => g.top = f.top + 8 * (n - m)
      /\ n <= m => g.top = f.top
      /\ Len(g.free) = Larger(0, m - n)
      /\ \A j \in 1 .. Len(g.free) : g.free[j] = f.free[j]
  BY <1>1, <1>2 DEF Spills, Larger, Frame
<1>8. CASE k <= m
  <2>1. PICK i \in 1 .. m : i = m - k + 1 /\ GetTemp(f, k) = f.free[i]
    <3>1. m - k + 1 \in 1 .. m
      BY <1>8
    <3>2. QED
      BY <1>3, <1>8, <3>1
  <2>2. Inside(g, f.free[i])
    BY <1>1, <1>4, <1>7 DEF Inside
  <2>3. ASSUME NEW j \in 1 .. n, j # k PROVE GetTemp(f, j) # f.free[i]
    <3>1. CASE j <= m
      <4>1. m - j + 1 \in 1 .. m /\ m - j + 1 # i
        BY <2>1, <2>3, <3>1
      <4>2. QED
        BY <1>3, <1>5, <3>1, <4>1
    <3>2. CASE j > m
      <4>1. GetTemp(f, j) >= f.top
        BY <1>1, <1>3, <3>2
      <4>2. f.free[i] < f.top
        BY <1>1, <1>4 DEF Inside
      <4>3. f.free[i] \in Nat /\ GetTemp(f, j) \in Nat
        BY <1>3, <1>4 DEF Inside
      <4>4. QED
        BY <1>1, <4>1, <4>2, <4>3
    <3>3. QED
      BY <3>1, <3>2
  <2>4. ASSUME NEW j \in 1 .. Len(g.free) PROVE g.free[j] # f.free[i]
    <3>1. j \in 1 .. m /\ j <= m - n
      BY <1>7 DEF Larger
    <3>2. j # i
      BY <2>1, <3>1
    <3>3. QED
      BY <1>5, <1>7, <3>1, <3>2
  <2>5. QED
    BY <1>6, <2>1, <2>2, <2>3, <2>4
<1>9. CASE k > m
  <2>1. PICK x \in Nat : x = GetTemp(f, k) /\ x = f.top + 8 * (k - m - 1)
    BY <1>3, <1>9
  <2>2. Inside(g, x)
    <3>1. f.base <= x /\ x + 8 <= g.top
      BY <1>1, <1>7, <1>9, <2>1
    <3>2. x % 8 = 0
      BY <1>1, <1>9, <2>1
    <3>3. QED
      BY <1>7, <3>1, <3>2 DEF Inside
  <2>3. \A y : Inside(f, y) => y # x
    <3>1. x >= f.top
      BY <1>1, <1>9, <2>1
    <3>2. QED
      BY <1>1, <3>1 DEF Inside
  <2>4. ASSUME NEW j \in 1 .. n, j # k PROVE GetTemp(f, j) # x
    <3>1. CASE j <= m
      <4>1. m - j + 1 \in 1 .. m
        BY <3>1
      <4>2. QED
        BY <1>3, <1>4, <2>3, <3>1, <4>1
    <3>2. CASE j > m
      <4>1. GetTemp(f, j) = f.top + 8 * (j - m - 1)
        BY <1>3, <3>2
      <4>2. QED
        BY <1>1, <1>9, <2>1, <2>4, <3>2, <4>1
    <3>3. QED
      BY <3>1, <3>2
  <2>5. ASSUME NEW j \in 1 .. Len(g.free) PROVE g.free[j] # x
    <3>1. j \in 1 .. m
      BY <1>7 DEF Larger
    <3>2. QED
      BY <1>4, <1>7, <2>3, <3>1
  <2>6. QED
    BY <1>6, <2>1, <2>2, <2>3, <2>4, <2>5
<1>10. QED
  BY <1>2, <1>8, <1>9

LEMMA SpillOk ==
    ASSUME NEW f, FrameOk(f), NEW g, NEW t \in Types, NEW n \in Nat, Spills(f, g, t, n),
           First(f, t) + n <= Depth(f, t)
    PROVE  FrameOk(g)
<1>1. f \in Frame /\ g \in Frame
  BY DEF FrameOk, Spills
<1>2. \A u \in Types : First(f, u) \in Nat /\ Depth(f, u) \in Nat
                       /\ First(g, u) \in Nat /\ Depth(g, u) \in Nat
  BY <1>1, StackType
<1>3. \A u \in Types \ {t} :
         /\ First(g, u) = First(f, u) /\ Depth(g, u) = Depth(f, u)
         /\ \A k : Loc(g, u, k) = Loc(f, u, k)
  BY DEF Spills, First, Depth, Loc
<1>4. PICK b \in Nat : b = First(f, t)
  BY <1>2
<1>5. PICK d \in Nat : d = Depth(f, t)
  BY <1>2
<1>6. /\ Depth(g, t) = d /\ First(g, t) = b + n /\ b + n <= d
      /\ \A k \in 1 .. d : k > b /\ k <= b + n => Loc(g, t, k) = GetTemp(f, k - b)
      /\ \A k \in 1 .. d : ~(k > b /\ k <= b + n) => Loc(g, t, k) = Loc(f, t, k)
  BY <1>4, <1>5 DEF Spills
<1>7. \A k \in 1 .. n :
         /\ Inside(g, GetTemp(f, k))
         /\ \A j \in 1 .. n : j # k => GetTemp(f, j) # GetTemp(f, k)
         /\ \A j \in 1 .. Len(g.free) : g.free[j] # GetTemp(f, k)
         /\ \A u \in Types : \A l \in 1 .. First(f, u) : Loc(f, u, l) # GetTemp(f, k)
  BY TempsApart
<1>8. /\ f.top \in Nat /\ f.base \in Nat /\ f.max \in Nat
      /\ Len(f.free) \in Nat /\ g.top \in Nat
  <2>1. f.free \in Seq(Nat)
    BY <1>1 DEF Frame
  <2>2. QED
    BY <1>1, <2>1, LenProperties DEF Frame
<1>9. PICK e \in Nat : e = Larger(0, n - Len(f.free)) /\ g.top = f.top + 8 * e
  <2>1. PICK l \in Nat : l = Len(f.free)
    BY <1>8
  <2>2. Larger(0, n - l) \in Nat
    BY DEF Larger
  <2>3. QED
    BY <2>1, <2>2 DEF Spills
<1>10. Bounds(g)
  <2>1. g.base = f.base /\ g.max = Larger(f.max, g.top)
    BY DEF Spills
  <2>2. g.top % 8 = 0
    BY <1>8, <1>9 DEF FrameOk, Bounds
  <2>3. QED
    BY <1>8, <1>9, <2>1, <2>2 DEF FrameOk, Bounds, Larger
<1>11. \A x : Inside(f, x) => Inside(g, x)
  <2>1. g.base = f.base /\ f.top <= g.top
    BY <1>8, <1>9 DEF Spills
  <2>2. QED
    BY <1>8, <2>1 DEF Inside
<1>12. Len(g.free) <= Len(f.free) /\ \A j \in 1 .. Len(g.free) : g.free[j] = f.free[j]
  BY <1>8 DEF Spills, Larger
<1>13. \A x : Inside(g, x) => x # NoSpill
  BY DEF Inside, NoSpill
\* Every operand that is spilled now was before, or has one of the new slots.
<1>14. ASSUME NEW u \in Types, NEW k \in 1 .. First(g, u)
       PROVE  \/ k \in 1 .. First(f, u) /\ Loc(g, u, k) = Loc(f, u, k)
              \/ u = t /\ \E j \in 1 .. n : j = k - b /\ Loc(g, u, k) = GetTemp(f, j)
  <2>1. CASE u # t
    BY <1>3, <2>1
  <2>2. CASE u = t /\ k <= b
    BY <1>4, <1>6, <2>2
  <2>3. CASE u = t /\ k > b
    <3>1. k \in 1 .. d /\ k <= b + n /\ k - b \in 1 .. n
      BY <1>6, <2>3
    <3>2. QED
      BY <1>6, <2>3, <3>1
  <2>4. QED
    BY <1>4, <1>6, <2>1, <2>2, <2>3
<1>15. BelowSpilled(g)
  <2>1. ASSUME NEW k \in 1 .. d PROVE Loc(g, t, k) # NoSpill <=> k <= b + n
    <3>1. CASE k > b /\ k <= b + n
      <4>1. k - b \in 1 .. n
        BY <3>1
      <4>2. QED
        BY <1>6, <1>7, <1>13, <3>1, <4>1
    <3>2. CASE ~(k > b /\ k <= b + n)
      <4>1. Loc(f, t, k) # NoSpill <=> k <= b
        BY <1>4, <1>5 DEF FrameOk, BelowSpilled
      <4>2. QED
        BY <1>6, <3>2, <4>1
    <3>3. QED
      BY <3>1, <3>2
  <2>2. \A u \in Types \ {t} :
           /\ First(g, u) <= Depth(g, u)
           /\ \A k \in 1 .. Depth(g, u) : Loc(g, u, k) # NoSpill <=> k <= First(g, u)
    BY <1>3 DEF FrameOk, BelowSpilled
  <2>3. QED
    BY <1>6, <2>1, <2>2 DEF BelowSpilled
<1>16. SlotsInside(g)
  <2>1. \A u \in Types : \A k \in 1 .. First(g, u) : Inside(g, Loc(g, u, k))
    BY <1>7, <1>11, <1>14 DEF FrameOk, SlotsInside
  <2>2. \A j \in 1 .. Len(g.free) : j \in 1 .. Len(f.free)
    BY <1>8, <1>12
  <2>3. \A j \in 1 .. Len(g.free) : Inside(g, g.free[j])
    BY <1>11, <1>12, <2>2 DEF FrameOk, SlotsInside
  <2>4. QED
    BY <2>1, <2>3 DEF SlotsInside
<1>17. SlotsApart(g)
  <2>1. \A j \in 1 .. Len(g.free) : j \in 1 .. Len(f.free)
    BY <1>8, <1>12
  <2>2. \A i, j \in 1 .. Len(g.free) : i # j => g.free[i] # g.free[j]
    BY <1>12, <2>1 DEF FrameOk, SlotsApart
  <2>3. ASSUME NEW u \in Types, NEW k \in 1 .. First(g, u), NEW j \in 1 .. Len(g.free)
        PROVE  g.free[j] # Loc(g, u, k)
    BY <1>7, <1>12, <1>14, <2>1 DEF FrameOk, SlotsApart
  <2>4. ASSUME NEW u \in Types, NEW v \in Types,
               NEW k \in 1 .. First(g, u), NEW l \in 1 .. First(g, v), u # v \/ k # l
        PROVE  Loc(g, u, k) # Loc(g, v, l)
    <3>1. CASE /\ k \in 1 .. First(f, u) /\ Loc(g, u, k) = Loc(f, u, k)
               /\ l \in 1 .. First(f, v) /\ Loc(g, v, l) = Loc(f, v, l)
      BY <2>4, <3>1 DEF FrameOk, SlotsApart
    <3>2. CASE /\ k \in 1 .. First(f, u) /\ Loc(g, u, k) = Loc(f, u, k)
               /\ \E j \in 1 .. n : Loc(g, v, l) = GetTemp(f, j)
      BY <1>7, <3>2
    <3>3. CASE /\ l \in 1 .. First(f, v) /\ Loc(g, v, l) = Loc(f, v, l)
               /\ \E j \in 1 .. n : Loc(g, u, k) = GetTemp(f, j)
      BY <1>7, <3>3
    <3>4. CASE /\ u = t /\ \E j \in 1 .. n : j = k - b /\ Loc(g, u, k) = GetTemp(f, j)
               /\ v = t /\ \E j \in 1 .. n : j = l - b /\ Loc(g, v, l) = GetTemp(f, j)
      <4>1. PICK i \in 1 .. n : i = k - b /\ Loc(g, u, k) = GetTemp(f, i)
        BY <3>4
      <4>2. PICK j \in 1 .. n : j = l - b /\ Loc(g, v, l) = GetTemp(f, j)
        BY <3>4
      <4>3. i # j
        <5>1. First(g, u) \in Nat /\ First(g, v) \in Nat
          BY <1>2
        <5>2. QED
          BY <2>4, <3>4, <4>1, <4>2, <5>1
      <4>4. QED
        BY <1>7, <4>1, <4>2, <4>3
    <3>5. QED
      BY <1>14, <3>1, <3>2, <3>3, <3>4
  <2>5. QED
    BY <2>2, <2>3, <2>4 DEF SlotsApart
<1>18. QED
  BY <1>1, <1>10, <1>15, <1>16, <1>17 DEF FrameOk

(***************************************************************************)
(* The operations of the frame manager.                                    *)
(***************************************************************************)
\* g is f with other temporaries, its variables the same.
Keeps(f, g) == Good(g) /\ g.base = f.base /\ g.old = f.old

SameDepths(f, g) == \A u \in Types : Depth(g, u) = Depth(f, u)

\* g is f with one more operand, the owner's, on stack t that is not spilled.
Pushes(f, g, t, owner) ==
    /\ g \in Frame /\ g.base = f.base /\ g.old = f.old /\ g.top = f.top
    /\ g.max = f.max /\ g.free = f.free
    /\ \A u \in Types \ {t} : g.st[u] = f.st[u]
    /\ Depth(g, t) = Depth(f, t) + 1 /\ First(g, t) = First(f, t)
    /\ \A k \in 1 .. Depth(f, t) :
          Loc(g, t, k) = Loc(f, t, k) /\ Owner(g, t, k) = Owner(f, t, k)
    /\ Loc(g, t, Depth(f, t) + 1) = NoSpill /\ Owner(g, t, Depth(f, t) + 1) = owner

LEMMA PushesOk ==
    ASSUME NEW f, FrameOk(f), NEW g, NEW t \in Types, NEW owner,
           Pushes(f, g, t, owner)
    PROVE  FrameOk(g)
<1>1. f \in Frame /\ g \in Frame
  BY DEF FrameOk, Pushes
<1>2. \A u \in Types : First(f, u) \in Nat /\ Depth(f, u) \in Nat
                       /\ First(f, u) <= Depth(f, u)
  BY <1>1, StackType DEF FrameOk, BelowSpilled
<1>3. \A u \in Types \ {t} :
         /\ First(g, u) = First(f, u) /\ Depth(g, u) = Depth(f, u)
         /\ \A k : Loc(g, u, k) = Loc(f, u, k)
  BY DEF Pushes, First, Depth, Loc
<1>4. \A u \in Types : First(g, u) = First(f, u)
  BY <1>3 DEF Pushes
<1>5. \A u \in Types : \A k \in 1 .. First(f, u) : Loc(g, u, k) = Loc(f, u, k)
  <2>1. \A k \in 1 .. First(f, t) : k \in 1 .. Depth(f, t)
    BY <1>2
  <2>2. QED
    BY <1>3, <2>1 DEF Pushes
<1>6. Bounds(g) /\ \A x : Inside(f, x) => Inside(g, x)
  BY DEF FrameOk, Bounds, Pushes, Inside
<1>7. BelowSpilled(g)
  <2>1. PICK d \in Nat, b \in Nat : d = Depth(f, t) /\ b = First(f, t) /\ b <= d
    BY <1>2
  <2>2. /\ Depth(g, t) = d + 1 /\ First(g, t) = b
        /\ \A k \in 1 .. d : Loc(g, t, k) = Loc(f, t, k)
        /\ Loc(g, t, d + 1) = NoSpill
    BY <2>1 DEF Pushes
  <2>3. \A k \in 1 .. d : Loc(g, t, k) # NoSpill <=> k <= b
    BY <2>1, <2>2 DEF FrameOk, BelowSpilled
  <2>4. \A k \in 1 .. (d + 1) : Loc(g, t, k) # NoSpill <=> k <= b
    BY <2>1, <2>2, <2>3
  <2>5. \A u \in Types \ {t} :
           /\ First(g, u) <= Depth(g, u)
           /\ \A k \in 1 .. Depth(g, u) : Loc(g, u, k) # NoSpill <=> k <= First(g, u)
    BY <1>3 DEF FrameOk, BelowSpilled
  <2>6. b <= d + 1
    BY <2>1
  <2>7. QED
    BY <2>2, <2>4, <2>5, <2>6 DEF BelowSpilled
<1>8. SlotsInside(g)
  BY <1>4, <1>5, <1>6 DEF FrameOk, SlotsInside, Pushes
<1>9. SlotsApart(g)
  BY <1>4, <1>5 DEF FrameOk, SlotsApart, Pushes
<1>10. QED
  BY <1>1, <1>6, <1>7, <1>8, <1>9 DEF FrameOk

LEMMA AppendPushes ==
    ASSUME NEW f \in Frame, NEW t \in Types, NEW owner \in Nat
    PROVE  Pushes(f, [f EXCEPT !.st[t].stack =
                         Append(f.st[t].stack, [owner |-> owner, loc |-> NoSpill])],
                  t, owner)
<1>1. PICK s \in Seq(Operand) : s = f.st[t].stack
  BY StackType
<1>2. PICK o \in Operand : o = [owner |-> owner, loc |-> NoSpill]
  <2>1. NoSpill \in Int
    BY DEF NoSpill
  <2>2. [owner |-> owner, loc |-> NoSpill] \in Operand
    BY <2>1 DEF Operand
  <2>3. QED
    BY <2>2
<1>3. PICK q \in Seq(Operand) : q = Append(s, o)
  BY AppendProperties
<1>4. /\ Len(q) = Len(s) + 1 /\ \A k \in 1 .. Len(s) : q[k] = s[k]
      /\ q[Len(s) + 1] = o
  BY <1>3, AppendProperties
<1>5. PICK g : g = [f EXCEPT !.st[t].stack = q]
  OBVIOUS
<1>6. /\ f.st \in [Types -> Stack] /\ f.base \in Nat /\ f.top \in Nat /\ f.max \in Nat
      /\ f.free \in Seq(Nat) /\ f.old \in Seq(Nat)
  BY DEF Frame
<1>7. PICK new \in Stack : new = [f.st[t] EXCEPT !.stack = q]
  BY <1>6 DEF Stack
<1>8. new.stack = q /\ new.first = f.st[t].first
  BY <1>6, <1>7 DEF Stack
<1>9. g.st = [f.st EXCEPT ![t] = new]
  BY <1>5, <1>7 DEF Frame
<1>10. /\ g \in Frame /\ g.base = f.base /\ g.old = f.old /\ g.top = f.top
       /\ g.max = f.max /\ g.free = f.free
  <2>1. g = [f EXCEPT !.st = [f.st EXCEPT ![t] = new]]
    BY <1>5, <1>7
  <2>2. [f.st EXCEPT ![t] = new] \in [Types -> Stack]
    BY <1>6
  <2>3. QED
    BY <2>1, <2>2 DEF Frame
<1>11. g.st[t] = new /\ \A u \in Types \ {t} : g.st[u] = f.st[u]
  BY <1>6, <1>9
<1>12. /\ Depth(g, t) = Depth(f, t) + 1 /\ First(g, t) = First(f, t)
       /\ \A k \in 1 .. Depth(f, t) :
             Loc(g, t, k) = Loc(f, t, k) /\ Owner(g, t, k) = Owner(f, t, k)
       /\ Loc(g, t, Depth(f, t) + 1) = NoSpill /\ Owner(g, t, Depth(f, t) + 1) = owner
  <2>1. g.st[t].stack = q /\ g.st[t].first = f.st[t].first
    BY <1>8, <1>11
  <2>2. \A k \in 1 .. Len(s) : q[k].loc = s[k].loc /\ q[k].owner = s[k].owner
    BY <1>4
  <2>3. q[Len(s) + 1].loc = NoSpill /\ q[Len(s) + 1].owner = owner
    BY <1>2, <1>4
  <2>4. Depth(g, t) = Len(q) /\ Depth(f, t) = Len(s)
    BY <1>1, <2>1 DEF Depth
  <2>5. QED
    BY <1>1, <1>4, <2>1, <2>2, <2>3, <2>4 DEF First, Loc, Owner
<1>13. Pushes(f, g, t, owner)
  BY <1>10, <1>11, <1>12 DEF Pushes
<1>14. QED
  BY <1>1, <1>2, <1>3, <1>5, <1>13

\* Spilling up to a bound that leaves no more than the registers hold.
LEMMA SpillKeeps ==
    ASSUME NEW f, FrameOk(f), NEW t \in Types, NEW bound \in Int,
           bound <= Depth(f, t), Depth(f, t) - bound <= Limit[t],
           \A u \in Types \ {t} : Depth(f, u) - First(f, u) <= Limit[u]
    PROVE  /\ Keeps(f, SpillUpTo(f, t, bound))
           /\ SameDepths(f, SpillUpTo(f, t, bound))
<1>1. f \in Frame /\ First(f, t) \in Nat /\ Depth(f, t) \in Nat
      /\ First(f, t) <= Depth(f, t) /\ Limit[t] \in Nat
  BY StackType, FrameAssumption DEF FrameOk, BelowSpilled
<1>2. PICK n \in Nat : n = Larger(0, bound - First(f, t))
  BY <1>1 DEF Larger
<1>3. PICK g : g = SpillUpTo(f, t, bound)
  OBVIOUS
<1>4. Spills(f, g, t, n)
  BY <1>1, <1>2, <1>3, SpillUpToSpills
<1>5. First(f, t) + n <= Depth(f, t)
  BY <1>1, <1>2 DEF Larger
<1>6. FrameOk(g)
  BY <1>4, <1>5, SpillOk
<1>7. \A u \in Types \ {t} : First(g, u) = First(f, u) /\ Depth(g, u) = Depth(f, u)
  BY <1>4 DEF Spills, First, Depth
<1>8. Depth(g, t) = Depth(f, t) /\ Depth(g, t) - First(g, t) <= Limit[t]
  BY <1>1, <1>2, <1>4 DEF Spills, Larger
<1>9. Fits(g)
  BY <1>7, <1>8 DEF Fits
<1>10. QED
  BY <1>3, <1>4, <1>6, <1>7, <1>8, <1>9 DEF Keeps, Good, SameDepths, Spills

\* PushTemp() leaves at most as many operands in registers as there are.
LEMMA PushTempKeeps ==
    ASSUME NEW f, Good(f), NEW t \in Types, NEW owner \in Nat, NEW spill \in BOOLEAN
    PROVE  LET g == PushTemp(f, t, owner, spill)
           IN  /\ Keeps(f, g) /\ Depth(g, t) = Depth(f, t) + 1
               /\ \A u \in Types \ {t} : Depth(g, u) = Depth(f, u)
<1>1. f \in Frame /\ FrameOk(f) /\ Depth(f, t) \in Nat /\ First(f, t) \in Nat
      /\ Limit[t] \in Nat \ {0} /\ Depth(f, t) - First(f, t) <= Limit[t]
  BY StackType, FrameAssumption DEF Good, FrameOk, Fits
<1>2. PICK s : s = Append(f.st[t].stack, [owner |-> owner, loc |-> NoSpill])
  OBVIOUS
<1>3. PICK h : h = [f EXCEPT !.st[t].stack = s]
  OBVIOUS
<1>4. Pushes(f, h, t, owner)
  BY <1>1, <1>2, <1>3, AppendPushes
<1>5. FrameOk(h)
  BY <1>1, <1>4, PushesOk
<1>6. Len(s) = Depth(f, t) + 1
  BY <1>1, <1>2, StackType, AppendProperties DEF Depth
<1>7. PICK bound \in Int : bound = IF spill THEN Len(s) ELSE Len(s) - Limit[t]
  BY <1>1, <1>6
<1>8. PushTemp(f, t, owner, spill) = SpillUpTo(h, t, bound)
  BY <1>2, <1>3, <1>7 DEF PushTemp
<1>9. Depth(h, t) = Depth(f, t) + 1
      /\ \A u \in Types \ {t} : Depth(h, u) = Depth(f, u) /\ First(h, u) = First(f, u)
  BY <1>4 DEF Pushes, Depth, First
<1>10. bound <= Depth(h, t) /\ Depth(h, t) - bound <= Limit[t]
  BY <1>1, <1>6, <1>7, <1>9
<1>11. \A u \in Types \ {t} : Depth(h, u) - First(h, u) <= Limit[u]
  BY <1>9 DEF Good, Fits
<1>12. /\ Keeps(h, SpillUpTo(h, t, bound))
       /\ SameDepths(h, SpillUpTo(h, t, bound))
  BY <1>5, <1>10, <1>11, SpillKeeps
<1>13. h.base = f.base /\ h.old = f.old
  BY <1>4 DEF Pushes
<1>14. QED
  BY <1>8, <1>9, <1>12, <1>13 DEF Keeps, SameDepths

\* g is f without the uppermost operand of stack t, whose slot is free.
Pops(f, g, t) ==
    /\ g \in Frame /\ g.base = f.base /\ g.old = f.old /\ g.top = f.top
    /\ g.max = f.max
    /\ \A u \in Types \ {t} : g.st[u] = f.st[u]
    /\ Depth(g, t) = Depth(f, t) - 1
    /\ First(g, t) = IF First(f, t) = Depth(f, t) THEN First(f, t) - 1 ELSE First(f, t)
    /\ \A k \in 1 .. Depth(g, t) : g.st[t].stack[k] = f.st[t].stack[k]

\* PopTemp() takes the operand off and gives its slot back.
LEMMA PopTempPops ==
    ASSUME NEW f, Good(f), NEW t \in Types, Depth(f, t) > 0
    PROVE  Pops(f, PopTemp(f, t), t) /\ Good(PopTemp(f, t))
<1>1. /\ f \in Frame /\ FrameOk(f) /\ Fits(f) /\ Bounds(f) /\ BelowSpilled(f)
      /\ SlotsInside(f) /\ SlotsApart(f)
  BY DEF Good, FrameOk
<1>2. PICK s \in Seq(Operand) : s = f.st[t].stack
  BY <1>1, StackType
<1>3. PICK d \in Nat : d = Depth(f, t) /\ d = Len(s) /\ d > 0
  BY <1>1, <1>2, StackType DEF Depth
<1>4. PICK b \in Nat : b = First(f, t) /\ b <= d
  BY <1>1, <1>3, StackType DEF BelowSpilled
<1>5. PICK loc \in Int : loc = Loc(f, t, d)
  <2>1. d \in 1 .. Depth(f, t)
    BY <1>3
  <2>2. QED
    BY <1>1, <2>1, StackType
<1>6. loc # NoSpill <=> b = d
  <2>1. d \in 1 .. Depth(f, t)
    BY <1>3
  <2>2. loc # NoSpill <=> d <= b
    BY <1>1, <1>4, <1>5, <2>1 DEF BelowSpilled
  <2>3. QED
    BY <1>4, <2>2
<1>7. PICK q \in Seq(Operand) : /\ q = SubSeq(s, 1, d - 1) /\ Len(q) = d - 1
                                /\ \A k \in 1 .. (d - 1) : q[k] = s[k]
  <2>1. \A k \in 1 .. (d - 1) : s[k] \in Operand
    BY <1>3, ElementOfSeq
  <2>2. d - 1 \in Nat
    BY <1>3
  <2>3. SubSeq(s, 1, d - 1) \in Seq(Operand)
    BY <2>1, <2>2
  <2>4. Len(SubSeq(s, 1, d - 1)) = d - 1
    BY <2>1, <2>2
  <2>5. \A k \in 1 .. (d - 1) : SubSeq(s, 1, d - 1)[k] = s[k]
    BY <2>1, <2>2
  <2>6. QED
    BY <2>3, <2>4, <2>5
<1>8. PICK c \in Nat : c = IF b > d - 1 THEN b - 1 ELSE b
  BY <1>3, <1>4
<1>9. c <= d - 1 /\ c <= b /\ (b = d => c = d - 1) /\ (b # d => c = b)
  BY <1>3, <1>4, <1>8
<1>10. PICK free \in Seq(Nat) : free = IF loc = NoSpill THEN f.free ELSE Append(f.free, loc)
  <2>1. f.free \in Seq(Nat)
    BY <1>1 DEF Frame
  <2>2. CASE loc = NoSpill
    BY <2>1, <2>2
  <2>3. CASE loc # NoSpill
    <3>1. d \in 1 .. First(f, t)
      BY <1>3, <1>4, <1>6, <2>3
    <3>2. loc \in Nat
      BY <1>1, <1>5, <3>1 DEF SlotsInside, Inside
    <3>3. Append(f.free, loc) \in Seq(Nat)
      BY <2>1, <3>2
    <3>4. QED
      BY <2>3, <3>3
  <2>4. QED
    BY <2>2, <2>3
<1>11. PICK new \in Stack : new = [stack |-> q, first |-> c]
  BY <1>7, <1>8 DEF Stack
<1>12. PICK g : g = [f EXCEPT !.free = free, !.st = [f.st EXCEPT ![t] = new]]
  OBVIOUS
<1>13. g = PopTemp(f, t)
  <2>1. f.st[t] \in Stack /\ f.st \in [Types -> Stack]
    BY <1>1 DEF Frame
  <2>2. PICK old \in Stack : old = f.st[t] /\ old.stack = s /\ old.first = b
    BY <1>2, <1>4, <2>1 DEF First
  <2>10. [old EXCEPT !.stack = q, !.first = c] = new
    <3>1. old = [stack |-> s, first |-> b]
      BY <2>2 DEF Stack
    <3>2. PICK e : e = [old EXCEPT !.stack = q]
      OBVIOUS
    <3>3. e = [stack |-> q, first |-> b]
      BY <3>1, <3>2
    <3>4. [e EXCEPT !.first = c] = [stack |-> q, first |-> c]
      BY <3>3
    <3>5. QED
      BY <1>11, <3>2, <3>4
  <2>3. PICK h : h = IF loc = NoSpill THEN f ELSE FreeTemp(f, loc)
    OBVIOUS
  <2>4. h \in Frame /\ h = [f EXCEPT !.free = free]
    BY <1>1, <1>10, <2>3 DEF FreeTemp, Frame
  <2>5. h.st = f.st
    BY <1>1, <2>4 DEF Frame
  <2>6. PeekTopTemp(f, t) = loc /\ Len(f.st[t].stack) - 1 = d - 1
    BY <1>2, <1>3, <1>5 DEF PeekTopTemp, Loc
  <2>7. PopTemp(f, t) = [h EXCEPT !.st[t].stack = SubSeq(@, 1, d - 1),
                                  !.st[t].first = IF @ > d - 1 THEN @ - 1 ELSE @]
    BY <2>3, <2>6 DEF PopTemp
  <2>8. PopTemp(f, t) = [h EXCEPT !.st = [f.st EXCEPT ![t] = new]]
    <3>1. h.st[t].stack = s /\ h.st[t].first = b
      BY <2>2, <2>5
    <3>2. PopTemp(f, t) = [h EXCEPT !.st[t].stack = q, !.st[t].first = c]
      BY <1>7, <1>8, <2>2, <2>4, <2>5, <2>7, <3>1 DEF Frame, Stack
    <3>3. [h EXCEPT !.st[t].stack = q, !.st[t].first = c] =
             [h EXCEPT !.st = [h.st EXCEPT ![t] = [h.st[t] EXCEPT !.stack = q, !.first = c]]]
      BY <2>1, <2>4, <2>5 DEF Frame, Stack
    <3>4. [h.st[t] EXCEPT !.stack = q, !.first = c] = new
      BY <2>2, <2>10, <2>5
    <3>5. QED
      BY <2>5, <3>2, <3>3, <3>4
  <2>9. QED
    BY <1>12, <2>4, <2>8 DEF Frame
<1>14. f.st \in [Types -> Stack] /\ f.st[t] \in Stack
  BY <1>1 DEF Frame
<1>15. /\ g \in Frame /\ g.base = f.base /\ g.top = f.top /\ g.max = f.max
       /\ g.old = f.old /\ g.free = free /\ g.st = [f.st EXCEPT ![t] = new]
  <2>1. [f.st EXCEPT ![t] = new] \in [Types -> Stack]
    BY <1>14
  <2>2. QED
    BY <1>1, <1>12, <2>1 DEF Frame
<1>16. g.st[t] = new /\ \A u \in Types \ {t} : g.st[u] = f.st[u]
  BY <1>14, <1>15
<1>17. \A u \in Types \ {t} : Depth(g, u) = Depth(f, u) /\ First(g, u) = First(f, u)
                              /\ \A k : Loc(g, u, k) = Loc(f, u, k)
  BY <1>16 DEF Depth, First, Loc
<1>18. /\ Depth(g, t) = d - 1 /\ First(g, t) = c
       /\ \A k \in 1 .. (d - 1) : g.st[t].stack[k] = f.st[t].stack[k]
       /\ \A k \in 1 .. (d - 1) : Loc(g, t, k) = Loc(f, t, k)
  BY <1>2, <1>7, <1>11, <1>16 DEF Depth, First, Loc
<1>19. \A u \in Types : First(f, u) \in Nat /\ Depth(f, u) \in Nat
  BY <1>1, StackType
<1>20. \A u \in Types : \A k \in 1 .. First(g, u) :
          k \in 1 .. First(f, u) /\ Loc(g, u, k) = Loc(f, u, k)
  <2>1. ASSUME NEW k \in 1 .. c PROVE k \in 1 .. b /\ k \in 1 .. (d - 1)
    BY <1>3, <1>9
  <2>2. \A k \in 1 .. First(g, t) : k \in 1 .. First(f, t) /\ Loc(g, t, k) = Loc(f, t, k)
    BY <1>4, <1>18, <2>1
  <2>3. QED
    BY <1>17, <2>2
<1>21. Bounds(g) /\ \A x : Inside(f, x) <=> Inside(g, x)
  BY <1>1, <1>15 DEF Bounds, Inside
<1>22. BelowSpilled(g)
  <2>1. ASSUME NEW k \in 1 .. (d - 1) PROVE Loc(f, t, k) # NoSpill <=> k <= c
    <3>1. k \in 1 .. d
      BY <1>3
    <3>2. Loc(f, t, k) # NoSpill <=> k <= b
      BY <1>1, <1>3, <1>4, <3>1 DEF BelowSpilled
    <3>3. QED
      BY <1>3, <1>9, <3>2
  <2>2. \A u \in Types \ {t} :
           /\ First(g, u) <= Depth(g, u)
           /\ \A k \in 1 .. Depth(g, u) : Loc(g, u, k) # NoSpill <=> k <= First(g, u)
    BY <1>1, <1>17 DEF BelowSpilled
  <2>3. QED
    BY <1>9, <1>18, <2>1, <2>2 DEF BelowSpilled
<1>23. Fits(g)
  <2>1. d - b <= Limit[t] /\ Limit[t] \in Nat
    BY <1>1, <1>3, <1>4, FrameAssumption DEF Fits
  <2>2. d - 1 - c <= Limit[t]
    BY <1>3, <1>4, <1>9, <2>1
  <2>3. QED
    BY <1>1, <1>17, <1>18, <2>2 DEF Fits
<1>24. SlotsInside(g) /\ SlotsApart(g)
  <2>1. \A u \in Types : \A k \in 1 .. First(g, u) : Inside(g, Loc(g, u, k))
    BY <1>1, <1>20, <1>21 DEF SlotsInside
  <2>2. \A u, v \in Types : \A k \in 1 .. First(g, u), l \in 1 .. First(g, v) :
           u # v \/ k # l => Loc(g, u, k) # Loc(g, v, l)
    BY <1>1, <1>20 DEF SlotsApart
  <2>3. CASE loc = NoSpill
    <3>1. g.free = f.free
      BY <1>10, <1>15, <2>3
    <3>2. SlotsInside(g)
      BY <1>1, <1>21, <2>1, <3>1 DEF SlotsInside
    <3>3. \A u \in Types : \A k \in 1 .. First(g, u), j \in 1 .. Len(g.free) :
             g.free[j] # Loc(g, u, k)
      BY <1>1, <1>20, <3>1 DEF SlotsApart
    <3>4. \A i, j \in 1 .. Len(g.free) : i # j => g.free[i] # g.free[j]
      BY <1>1, <3>1 DEF SlotsApart
    <3>5. QED
      BY <2>2, <3>2, <3>3, <3>4 DEF SlotsApart
  <2>4. CASE loc # NoSpill
    <3>1. d \in 1 .. First(f, t) /\ b = d /\ c = d - 1
      BY <1>3, <1>4, <1>6, <1>9, <2>4
    <3>2. PICK m \in Nat : m = Len(f.free)
      <4>1. f.free \in Seq(Nat)
        BY <1>1 DEF Frame
      <4>2. QED
        BY <4>1, LenProperties
    <3>3. /\ Len(g.free) = m + 1 /\ \A j \in 1 .. m : g.free[j] = f.free[j]
          /\ g.free[m + 1] = loc
      <4>1. PICK r \in Seq(Nat) : r = f.free
        BY <1>1 DEF Frame
      <4>2. g.free = Append(r, loc)
        BY <1>10, <1>15, <2>4, <4>1
      <4>3. Len(r) = m
        BY <3>2, <4>1
      <4>4. PICK a : a = Append(r, loc)
        OBVIOUS
      <4>5. r \in Seq(Int) /\ loc \in Int
        BY <4>1
      <4>6. Len(a) = m + 1 /\ (\A j \in 1 .. m : a[j] = r[j]) /\ a[m + 1] = loc
        BY <4>3, <4>4, <4>5, AppendProperties
      <4>7. QED
        BY <4>1, <4>2, <4>4, <4>6
    <3>4. Inside(g, loc)
      BY <1>1, <1>5, <1>21, <3>1 DEF SlotsInside
    <3>5. \A j \in 1 .. m : Inside(g, f.free[j]) /\ f.free[j] # loc
      BY <1>1, <1>5, <1>21, <3>1, <3>2 DEF SlotsInside, SlotsApart
    <3>6. \A j \in 1 .. (m + 1) : j \in 1 .. m \/ j = m + 1
      OBVIOUS
    <3>7. \A j \in 1 .. Len(g.free) : Inside(g, g.free[j])
      BY <3>3, <3>4, <3>5, <3>6
    <3>8. \A i, j \in 1 .. Len(g.free) : i # j => g.free[i] # g.free[j]
      <4>1. \A i, j \in 1 .. m : i # j => f.free[i] # f.free[j]
        BY <1>1, <3>2 DEF SlotsApart
      <4>2. QED
        BY <3>3, <3>5, <3>6, <4>1
    <3>9. ASSUME NEW u \in Types, NEW k \in 1 .. First(g, u)
          PROVE  Loc(g, u, k) # loc /\ \A j \in 1 .. m : f.free[j] # Loc(g, u, k)
      <4>1. k \in 1 .. First(f, u) /\ Loc(g, u, k) = Loc(f, u, k)
        BY <1>20
      <4>2. u # t \/ k # d
        BY <1>3, <1>18, <3>1
      <4>3. Loc(f, u, k) # Loc(f, t, d)
        BY <1>1, <3>1, <4>1, <4>2 DEF SlotsApart
      <4>4. \A j \in 1 .. m : f.free[j] # Loc(f, u, k)
        BY <1>1, <3>2, <4>1 DEF SlotsApart
      <4>5. QED
        BY <1>5, <4>1, <4>3, <4>4
    <3>10. \A u \in Types : \A k \in 1 .. First(g, u), j \in 1 .. Len(g.free) :
              g.free[j] # Loc(g, u, k)
      BY <3>3, <3>6, <3>9
    <3>11. QED
      BY <2>1, <2>2, <3>7, <3>8, <3>10 DEF SlotsInside, SlotsApart
  <2>5. QED
    BY <2>3, <2>4
<1>25. Good(g)
  BY <1>15, <1>21, <1>22, <1>23, <1>24 DEF Good, FrameOk
<1>26. Pops(f, g, t)
  BY <1>3, <1>4, <1>9, <1>15, <1>16, <1>18 DEF Pops
<1>27. QED
  BY <1>13, <1>25, <1>26

LEMMA PopTempKeeps ==
    ASSUME NEW f, Good(f), NEW t \in Types, Depth(f, t) > 0
    PROVE  LET g == PopTemp(f, t)
           IN  /\ Keeps(f, g) /\ Depth(g, t) = Depth(f, t) - 1
               /\ \A u \in Types \ {t} : Depth(g, u) = Depth(f, u)
<1>1. PICK g : g = PopTemp(f, t)
  OBVIOUS
<1>2. Pops(f, g, t) /\ Good(g)
  BY <1>1, PopTempPops
<1>3. QED
  BY <1>1, <1>2 DEF Pops, Keeps, Depth

LEMMA ReserveTempKeeps ==
    ASSUME NEW f, Good(f), NEW t \in Types
    PROVE  Keeps(f, ReserveTemp(f, t)) /\ SameDepths(f, ReserveTemp(f, t))
<1>1. PICK g : g = PushTemp(f, t, 0, FALSE)
  OBVIOUS
<1>2. /\ Keeps(f, g) /\ Depth(g, t) = Depth(f, t) + 1
      /\ \A u \in Types \ {t} : Depth(g, u) = Depth(f, u)
  <2>1. 0 \in Nat /\ FALSE \in BOOLEAN
    OBVIOUS
  <2>2. QED
    BY <1>1, <2>1, PushTempKeeps, Zenon
<1>3. Depth(f, t) \in Nat
  BY StackType DEF Good, FrameOk
<1>4. PICK h : h = PopTemp(g, t)
  OBVIOUS
<1>5. /\ Keeps(g, h) /\ Depth(h, t) = Depth(g, t) - 1
      /\ \A u \in Types \ {t} : Depth(h, u) = Depth(g, u)
  <2>1. Good(g) /\ Depth(g, t) > 0
    BY <1>2, <1>3 DEF Keeps
  <2>2. QED
    BY <1>4, <2>1, PopTempKeeps
<1>6. ReserveTemp(f, t) = h
  BY <1>1, <1>4 DEF ReserveTemp
<1>7. Keeps(f, h)
  BY <1>2, <1>5 DEF Keeps
<1>8. SameDepths(f, h)
  BY <1>2, <1>3, <1>5 DEF SameDepths
<1>9. QED
  BY <1>6, <1>7, <1>8

LEMMA ForceSpillAllKeeps ==
    ASSUME NEW f, Good(f)
    PROVE  Keeps(f, ForceSpillAll(f)) /\ SameDepths(f, ForceSpillAll(f))
<1>1. ASSUME NEW h, Good(h), NEW t \in Types
      PROVE  /\ Keeps(h, SpillUpTo(h, t, Len(h.st[t].stack)))
             /\ SameDepths(h, SpillUpTo(h, t, Len(h.st[t].stack)))
  <2>1. PICK d \in Nat : d = Len(h.st[t].stack) /\ d = Depth(h, t)
    BY <1>1, StackType DEF Good, FrameOk, Depth
  <2>2. d - d <= Limit[t] /\ d <= d
    BY FrameAssumption
  <2>3. QED
    BY <1>1, <2>1, <2>2, SpillKeeps DEF Good, Fits
<1>2. PICK g : g = SpillUpTo(f, "i", Len(f.st["i"].stack))
  OBVIOUS
<1>3. Keeps(f, g) /\ SameDepths(f, g)
  BY <1>1, <1>2 DEF Types
<1>4. PICK h : h = SpillUpTo(g, "f", Len(g.st["f"].stack))
  OBVIOUS
<1>5. Keeps(g, h) /\ SameDepths(g, h)
  BY <1>1, <1>3, <1>4 DEF Types, Keeps
<1>6. ForceSpillAll(f) = h
  BY <1>2, <1>4 DEF ForceSpillAll
<1>7. QED
  BY <1>3, <1>5, <1>6 DEF Keeps, SameDepths

\* Without temporaries, only the bounds of the frame matter.
LEMMA EmptyGood ==
    ASSUME NEW g \in Frame, Bounds(g), g.free = <<>>, \A t \in Types : Depth(g, t) = 0,
           \A t \in Types : First(g, t) = 0
    PROVE  Good(g)
<1>1. 1 .. 0 = {} /\ Len(g.free) = 0
  BY EmptySeq
<1>2. BelowSpilled(g)
  BY <1>1 DEF BelowSpilled
<1>3. SlotsInside(g) /\ SlotsApart(g)
  BY <1>1 DEF SlotsInside, SlotsApart
<1>4. Fits(g)
  <2>1. \A t \in Types : Limit[t] \in Nat
    BY FrameAssumption
  <2>2. QED
    BY <2>1 DEF Fits
<1>5. QED
  BY <1>2, <1>3, <1>4 DEF Good, FrameOk

\* A variable goes behind the frame's variables, at a multiple of its size.
LEMMA GetLocalVarGood ==
    ASSUME NEW f, Good(f), \A t \in Types : Depth(f, t) = 0, NEW size \in Nat \ {0}
    PROVE  LET g == GetLocalVar(f, size, size)
           IN  /\ Good(g) /\ SameDepths(f, g) /\ g.old = Append(f.old, f.base)
               /\ f.base <= g.base - size /\ (g.base - size) % size = 0
               /\ g.base - size \in Nat
<1>1. /\ f \in Frame /\ BelowSpilled(f)
      /\ \A t \in Types : First(f, t) \in Nat /\ Depth(f, t) \in Nat
  BY StackType DEF Good, FrameOk
<1>2. /\ f.base \in Nat /\ f.top \in Nat /\ f.max \in Nat /\ f.old \in Seq(Nat)
      /\ f.st \in [Types -> Stack]
  BY <1>1 DEF Frame
<1>3. PICK x \in Nat : x = UpAlign(f.base, size) /\ f.base <= x /\ x % size = 0
  BY <1>2, UpAlignIs
<1>4. PICK base \in Nat : base = x + size
  BY <1>3
<1>5. PICK top \in Nat : top = UpAlign(base, 8) /\ base <= top /\ top % 8 = 0
  BY UpAlignIs
<1>6. PICK max \in Nat : max = Larger(f.max, top) /\ top <= max
  BY <1>2 DEF Larger
<1>7. PICK g : g = GetLocalVar(f, size, size)
  OBVIOUS
<1>8. g = [f EXCEPT !.old = Append(f.old, f.base), !.base = base, !.top = top,
                    !.free = <<>>, !.max = max]
  BY <1>2, <1>3, <1>4, <1>5, <1>6, <1>7 DEF GetLocalVar, Frame
<1>9. Append(f.old, f.base) \in Seq(Nat) /\ <<>> \in Seq(Nat)
  BY <1>2, AppendProperties, EmptySeq
<1>10. /\ g \in Frame /\ g.old = Append(f.old, f.base) /\ g.base = base /\ g.top = top
       /\ g.free = <<>> /\ g.max = max /\ g.st = f.st
  BY <1>1, <1>8, <1>9 DEF Frame
<1>11. \A t \in Types : Depth(g, t) = 0 /\ First(g, t) = 0
  <2>1. \A t \in Types : Depth(g, t) = Depth(f, t) /\ First(g, t) = First(f, t)
    BY <1>10 DEF Depth, First
  <2>2. \A t \in Types : First(f, t) <= 0
    BY <1>1 DEF BelowSpilled
  <2>3. QED
    BY <1>1, <2>1, <2>2
<1>12. Bounds(g)
  BY <1>5, <1>6, <1>10 DEF Bounds
<1>13. Good(g)
  BY <1>10, <1>11, <1>12, EmptyGood
<1>14. g.base - size = x
  BY <1>4, <1>10
<1>15. QED
  BY <1>3, <1>7, <1>10, <1>11, <1>13, <1>14 DEF SameDepths

\* The end of the innermost variable's scope restores the base before it.
LEMMA PopLocalVarGood ==
    ASSUME NEW f, Good(f), \A t \in Types : Depth(f, t) = 0,
           Len(f.old) > 0, f.old[Len(f.old)] <= f.base
    PROVE  LET g == PlannerPopLocalVar(f)
           IN  /\ Good(g) /\ SameDepths(f, g)
               /\ g.old = SubSeq(f.old, 1, Len(f.old) - 1)
               /\ g.base = f.old[Len(f.old)]
<1>1. /\ f \in Frame /\ BelowSpilled(f) /\ Bounds(f)
      /\ \A t \in Types : First(f, t) \in Nat /\ Depth(f, t) \in Nat
  BY StackType DEF Good, FrameOk
<1>2. /\ f.base \in Nat /\ f.top \in Nat /\ f.max \in Nat /\ f.old \in Seq(Nat)
      /\ f.st \in [Types -> Stack]
  BY <1>1 DEF Frame
<1>3. PICK n \in Nat : n = Len(f.old) /\ n > 0
  BY <1>2, LenProperties
<1>4. n \in 1 .. Len(f.old)
  BY <1>3
<1>5. PICK base \in Nat : base = f.old[n] /\ base <= f.base
  BY <1>2, <1>3, <1>4, ElementOfSeq
<1>6. PICK top \in Nat : /\ top = UpAlign(base, 8) /\ base <= top /\ top % 8 = 0
                         /\ \A m \in Nat : base <= m /\ m % 8 = 0 => top <= m
  <2>1. 8 \in Nat \ {0}
    OBVIOUS
  <2>2. /\ UpAlign(base, 8) \in Nat /\ base <= UpAlign(base, 8)
        /\ UpAlign(base, 8) % 8 = 0
        /\ \A m \in Nat : base <= m /\ m % 8 = 0 => UpAlign(base, 8) <= m
    BY <2>1, UpAlignIs, Zenon
  <2>3. QED
    BY <2>2, Zenon
<1>7. top <= f.top /\ top <= f.max
  <2>1. base <= f.top /\ f.top % 8 = 0
    BY <1>1, <1>2, <1>5 DEF Bounds
  <2>2. top <= f.top
    BY <1>2, <1>6, <2>1
  <2>3. QED
    BY <1>1, <1>2, <2>2 DEF Bounds
<1>8. PICK old \in Seq(Nat) : old = SubSeq(f.old, 1, n - 1)
  <2>1. \A k \in 1 .. (n - 1) : f.old[k] \in Nat
    BY <1>2, <1>3, ElementOfSeq
  <2>2. PICK q : q = f.old
    OBVIOUS
  <2>3. n - 1 \in Nat /\ \A k \in 1 .. (n - 1) : q[k] \in Nat
    BY <1>3, <2>1, <2>2
  <2>4. SubSeq(q, 1, n - 1) \in Seq(Nat)
    BY <2>3
  <2>5. QED
    BY <2>2, <2>4
<1>9. PICK g : g = PlannerPopLocalVar(f)
  OBVIOUS
<1>10. g = [f EXCEPT !.old = old, !.base = base, !.top = top, !.free = <<>>]
  <2>1. /\ SubSeq(f.old, 1, Len(f.old) - 1) = old /\ f.old[Len(f.old)] = base
        /\ UpAlign(base, 8) = top
    BY <1>3, <1>5, <1>6, <1>8
  <2>2. g = [f EXCEPT !.old = SubSeq(f.old, 1, Len(f.old) - 1),
                      !.base = f.old[Len(f.old)],
                      !.top = UpAlign(f.old[Len(f.old)], 8), !.free = <<>>]
    BY <1>1, <1>9 DEF PlannerPopLocalVar, Frame
  <2>3. QED
    BY <2>1, <2>2
<1>11. /\ g \in Frame /\ g.old = old /\ g.base = base /\ g.top = top
       /\ g.free = <<>> /\ g.max = f.max /\ g.st = f.st
  <2>1. <<>> \in Seq(Nat)
    BY EmptySeq
  <2>2. QED
    BY <1>1, <1>10, <2>1 DEF Frame
<1>12. \A t \in Types : Depth(g, t) = 0 /\ First(g, t) = 0
  <2>1. \A t \in Types : Depth(g, t) = Depth(f, t) /\ First(g, t) = First(f, t)
    BY <1>11 DEF Depth, First
  <2>2. \A t \in Types : First(f, t) <= 0
    BY <1>1 DEF BelowSpilled
  <2>3. QED
    BY <1>1, <2>1, <2>2
<1>13. Good(g)
  <2>1. Bounds(g)
    BY <1>6, <1>7, <1>11 DEF Bounds
  <2>2. QED
    BY <1>11, <1>12, <2>1, EmptyGood
<1>14. QED
  BY <1>3, <1>5, <1>8, <1>9, <1>11, <1>12, <1>13 DEF SameDepths

(***************************************************************************)
(* The walk: which nodes its pending calls will visit, and which operands  *)
(* they hold on the stacks.  The definitions take the nodes as an argument *)
(* so that a call can be compared before and after a visit.                *)
(***************************************************************************)
NodeOps      == {"none", "leaf", "part", "cast", "arith", "cmp", "call"}
SetupCalls   == {"setup", "setupLeft", "setupParam"}
PrepareCalls == {"prepare", "assign", "one", "left", "two", "param", "store"}

NodeRecord == [op : NodeOps, type : Types, args : Seq(Nat), spill : Nat]
TaskRecord == [call : SetupCalls \cup PrepareCalls, n : Nat, loc : Int, k : Int]

Args(ns, n) == ns[n].args

\* Operands are nodes, no node is twice the operand of one, and there are as
\* many as the operator takes.
NodesOk(ns) ==
    /\ ns \in Seq(NodeRecord)
    /\ \A n \in 1 .. Len(ns) :
        /\ \A k \in 1 .. Len(Args(ns, n)) : Args(ns, n)[k] \in 1 .. Len(ns)
        /\ \A j, k \in 1 .. Len(Args(ns, n)) : j # k => Args(ns, n)[j] # Args(ns, n)[k]
        /\ ns[n].op \in {"part", "cast"} => Len(Args(ns, n)) = 1
        /\ ns[n].op \in {"arith", "cmp"} => Len(Args(ns, n)) = 2

TypeIn(ns, n) == ns[Args(ns, n)[1]].type

\* The nodes that call x will visit, besides the operands of those.
Await(ns, x) ==
    CASE x.call = "setup"      -> {x.n}
      [] x.call = "setupLeft"  -> {Args(ns, x.n)[1]}
      [] x.call = "setupParam" -> {Args(ns, x.n)[j] : j \in x.k .. Len(Args(ns, x.n))}
      [] OTHER                 -> {}

Unseen(ns) == {m \in 1 .. Len(ns) : ns[m].op = "none"}

TaskOk(ns, p, x) ==
    /\ x \in TaskRecord
    /\ x.n \in 1 .. Len(ns)
    /\ x.call \in IF p = "setup" THEN SetupCalls ELSE PrepareCalls
    /\ x.call \in {"setupLeft", "left"} => ns[x.n].op \in {"arith", "cmp"}
    /\ x.call \in {"setupParam", "param", "store"} => ns[x.n].op = "call" /\ x.k > 0
    /\ Await(ns, x) \subseteq Unseen(ns)

\* No node is visited twice.
WorkOk(ns, p, w) ==
    /\ w \in Seq(TaskRecord)
    /\ \A i \in 1 .. Len(w) : TaskOk(ns, p, w[i])
    /\ \A i, j \in 1 .. Len(w) : i # j => Await(ns, w[i]) \cap Await(ns, w[j]) = {}

\* What call x holds on stack t: its left operand, or a callee's frame address.
Weight(ns, x, t) ==
    IF \/ x.call \in {"setupLeft", "left"} /\ TypeIn(ns, x.n) = t
       \/ x.call \in {"setupParam", "param", "store"} /\ t = "i"
    THEN 1 ELSE 0

\* h[i] is what the calls from the i-th on hold.
Heights(ns, w, t, h) ==
    /\ h \in [1 .. (Len(w) + 1) -> Nat]
    /\ h[Len(w) + 1] = 0
    /\ \A i \in 1 .. Len(w) : h[i] = h[i + 1] + Weight(ns, w[i], t)

Counts(ns, w, t, d) == \E h : Heights(ns, w, t, h) /\ h[1] = d

Statement == [root : Nat, size : Nat \ {0}]
Variable  == [root : Nat, size : Nat \ {0}, off : Nat]

\* Variable j lies between the bases before and behind it, at a multiple of
\* its size.
VariablesOk(old, base, ls) ==
    /\ ls \in Seq(Variable) /\ Len(old) = Len(ls)
    /\ \A j \in 1 .. Len(ls) :
        /\ ls[j].off % ls[j].size = 0
        /\ old[j] <= ls[j].off
        /\ ls[j].off + ls[j].size = IF j < Len(ls) THEN old[j + 1] ELSE base

WalkInvariant ==
    /\ NodesOk(nodes)
    /\ stmts \in Seq(Statement) /\ \A i \in 1 .. Len(stmts) : stmts[i].root \in 1 .. Len(nodes)
    /\ phase \in {"setup", "prepare", "done"} /\ at \in Nat
    /\ WorkOk(nodes, phase, work)
    /\ Good(fm)
    /\ \A t \in Types : Counts(nodes, work, t, Depth(fm, t))
    /\ VariablesOk(fm.old, fm.base, locals)

\* The nodes N are visited, ns becomes ns1: others keep their operators and
\* operands, and new nodes come behind the old ones.
Grown(ns, ns1, N) ==
    /\ ns1 \in Seq(NodeRecord) /\ Len(ns) <= Len(ns1)
    /\ \A m \in 1 .. Len(ns) :
        /\ ns1[m].type = ns[m].type
        /\ m \notin N => ns1[m].op = ns[m].op /\ ns1[m].args = ns[m].args

\* No call of w will visit a node of S.
Avoids(ns, w, S) == \A i \in 1 .. Len(w) : Await(ns, w[i]) \cap S = {}

LEMMA AwaitIs ==
    ASSUME NEW ns, NEW x
    PROVE  /\ x.call = "setup" => Await(ns, x) = {x.n}
           /\ x.call = "setupLeft" => Await(ns, x) = {Args(ns, x.n)[1]}
           /\ x.call = "setupParam" =>
                 Await(ns, x) = {Args(ns, x.n)[j] : j \in x.k .. Len(Args(ns, x.n))}
           /\ x.call \in PrepareCalls => Await(ns, x) = {}
  BY DEF Await, PrepareCalls

\* Visiting nodes a call does not wait for does not disturb it.
LEMMA TaskKept ==
    ASSUME NEW ns, NodesOk(ns), NEW ns1, NEW N, N \subseteq Unseen(ns), Grown(ns, ns1, N),
           NEW p, NEW x, TaskOk(ns, p, x), Await(ns, x) \cap N = {}
    PROVE  /\ TaskOk(ns1, p, x) /\ Await(ns1, x) = Await(ns, x)
           /\ \A t \in Types : Weight(ns1, x, t) = Weight(ns, x, t)
<1>1. x \in TaskRecord /\ x.n \in 1 .. Len(ns) /\ Await(ns, x) \subseteq Unseen(ns)
  BY DEF TaskOk
<1>2. x.call \in SetupCalls \cup PrepareCalls
  BY <1>1 DEF TaskRecord
<1>3. PICK l \in Nat : l = Len(ns)
  BY LenProperties DEF NodesOk
<1>4. PICK l1 \in Nat : l1 = Len(ns1) /\ l <= l1
  BY <1>3, LenProperties DEF Grown
<1>5. \A m \in 1 .. l : m \in 1 .. l1
  BY <1>3, <1>4
<1>6. \A m \in Unseen(ns) : m \notin N => m \in Unseen(ns1)
  BY <1>3, <1>4, <1>5 DEF Unseen, Grown
<1>7. x.call \in {"setupLeft", "left", "setupParam", "param", "store"} =>
        /\ x.n \notin N /\ ns1[x.n].op = ns[x.n].op
        /\ Args(ns1, x.n) = Args(ns, x.n)
  <2>1. x.call \in {"setupLeft", "left", "setupParam", "param", "store"} =>
           ns[x.n].op # "none"
    BY DEF TaskOk
  <2>2. ns[x.n].op # "none" => x.n \notin N
    BY DEF Unseen
  <2>3. QED
    BY <1>1, <2>1, <2>2 DEF Grown, Args
<1>8. Await(ns1, x) = Await(ns, x)
  <2>1. CASE x.call = "setup"
    BY <2>1, AwaitIs
  <2>2. CASE x.call = "setupLeft"
    BY <1>7, <2>2, AwaitIs
  <2>3. CASE x.call = "setupParam"
    <3>1. PICK a : a = Args(ns, x.n) /\ a = Args(ns1, x.n)
      BY <1>7, <2>3
    <3>2. PICK S : S = {a[j] : j \in x.k .. Len(a)}
      OBVIOUS
    <3>3. Await(ns, x) = S
      BY <2>3, <3>1, <3>2 DEF Await
    <3>4. Await(ns1, x) = S
      BY <2>3, <3>1, <3>2 DEF Await
    <3>5. QED
      BY <3>3, <3>4
  <2>4. CASE x.call \in PrepareCalls
    BY <2>4, AwaitIs
  <2>5. QED
    BY <1>2, <2>1, <2>2, <2>3, <2>4 DEF SetupCalls
<1>9. Await(ns1, x) \subseteq Unseen(ns1)
  BY <1>1, <1>6, <1>8
<1>10. TaskOk(ns1, p, x)
  <2>1. x.n \in 1 .. Len(ns1)
    BY <1>1, <1>3, <1>4, <1>5
  <2>2. QED
    BY <1>1, <1>7, <1>9, <2>1 DEF TaskOk
<1>11. ASSUME NEW t \in Types PROVE Weight(ns1, x, t) = Weight(ns, x, t)
  <2>1. CASE x.call \in {"setupLeft", "left"}
    <3>1. Len(Args(ns, x.n)) = 2 /\ Args(ns, x.n)[1] \in 1 .. Len(ns)
      <4>1. Len(Args(ns, x.n)) = 2
        BY <1>1, <2>1 DEF TaskOk, NodesOk
      <4>2. 1 \in 1 .. Len(Args(ns, x.n))
        BY <4>1
      <4>3. QED
        BY <1>1, <4>1, <4>2 DEF NodesOk
    <3>2. ns1[Args(ns, x.n)[1]].type = ns[Args(ns, x.n)[1]].type
      BY <3>1 DEF Grown
    <3>3. TypeIn(ns1, x.n) = TypeIn(ns, x.n)
      BY <1>7, <2>1, <3>2 DEF TypeIn
    <3>4. QED
      BY <3>3 DEF Weight
  <2>2. CASE x.call \notin {"setupLeft", "left"}
    BY <2>2 DEF Weight
  <2>3. QED
    BY <2>1, <2>2
<1>12. QED
  BY <1>8, <1>10, <1>11

LEMMA WeightType ==
    ASSUME NEW ns, NEW x, NEW t
    PROVE  Weight(ns, x, t) \in {0, 1}
  BY DEF Weight

\* The innermost call returns, having visited N.
LEMMA RestOk ==
    ASSUME NEW ns, NodesOk(ns), NEW p, NEW w, WorkOk(ns, p, w), w # <<>>,
           NEW ns1, NEW N, N \subseteq Await(ns, w[1]), Grown(ns, ns1, N)
    PROVE  /\ WorkOk(ns1, p, Tail(w)) /\ Avoids(ns1, Tail(w), Await(ns, w[1]))
           /\ \A m : (m \notin 1 .. Len(ns)) => Avoids(ns1, Tail(w), {m})
           /\ \A t \in Types : \A d : Counts(ns, w, t, d) =>
                 /\ d \in Nat /\ Weight(ns, w[1], t) <= d
                 /\ Counts(ns1, Tail(w), t, d - Weight(ns, w[1], t))
<1>1. PICK l \in Nat \ {0} : l = Len(w)
  BY EmptySeq DEF WorkOk
<1>2. PICK v \in Seq(TaskRecord) : /\ v = Tail(w) /\ Len(v) = l - 1
                                   /\ \A i \in 1 .. (l - 1) : v[i] = w[i + 1]
  <2>1. PICK v : v = Tail(w)
    OBVIOUS
  <2>2. v \in Seq(TaskRecord) /\ Len(v) = l - 1 /\ \A i \in 1 .. Len(v) : v[i] = w[i + 1]
    BY <1>1, <2>1, HeadTailProperties DEF WorkOk
  <2>3. \A i \in 1 .. (l - 1) : v[i] = w[i + 1]
    BY <2>2
  <2>4. QED
    BY <2>1, <2>2, <2>3
<1>3. \A i \in 1 .. (l - 1) : i + 1 \in 1 .. Len(w) /\ i + 1 # 1
  BY <1>1
<1>4. 1 \in 1 .. Len(w)
  BY <1>1
<1>5. TaskOk(ns, p, w[1]) /\ \A i \in 1 .. (l - 1) : TaskOk(ns, p, v[i])
  BY <1>2, <1>3, <1>4 DEF WorkOk
<1>6. \A i \in 1 .. (l - 1) : Await(ns, v[i]) \cap Await(ns, w[1]) = {}
  BY <1>2, <1>3, <1>4 DEF WorkOk
<1>7. N \subseteq Unseen(ns)
  BY <1>5 DEF TaskOk
<1>8. \A i \in 1 .. (l - 1) :
         /\ TaskOk(ns1, p, v[i]) /\ Await(ns1, v[i]) = Await(ns, v[i])
         /\ \A t \in Types : Weight(ns1, v[i], t) = Weight(ns, v[i], t)
  <2>1. ASSUME NEW i \in 1 .. (l - 1)
        PROVE  TaskOk(ns, p, v[i]) /\ Await(ns, v[i]) \cap N = {}
    BY <1>5, <1>6
  <2>2. QED
    BY <1>7, <2>1, TaskKept
<1>9. WorkOk(ns1, p, v)
  <2>1. \A i, j \in 1 .. (l - 1) : i # j => Await(ns, v[i]) \cap Await(ns, v[j]) = {}
    <3>1. ASSUME NEW i \in 1 .. (l - 1), NEW j \in 1 .. (l - 1), i # j
          PROVE  Await(ns, v[i]) \cap Await(ns, v[j]) = {}
      <4>1. i + 1 # j + 1 /\ i + 1 \in 1 .. Len(w) /\ j + 1 \in 1 .. Len(w)
        BY <1>3, <3>1
      <4>2. QED
        BY <1>2, <4>1 DEF WorkOk
    <3>2. QED
      BY <3>1
  <2>2. QED
    BY <1>2, <1>8, <2>1 DEF WorkOk
<1>10. Avoids(ns1, v, Await(ns, w[1]))
  BY <1>2, <1>6, <1>8 DEF Avoids
<1>11. ASSUME NEW m, m \notin 1 .. Len(ns) PROVE Avoids(ns1, v, {m})
  <2>1. \A i \in 1 .. (l - 1) : Await(ns, v[i]) \subseteq 1 .. Len(ns)
    BY <1>5 DEF TaskOk, Unseen
  <2>2. QED
    BY <1>2, <1>8, <1>11, <2>1 DEF Avoids
<1>12. ASSUME NEW t \in Types, NEW d, Counts(ns, w, t, d)
       PROVE  /\ d \in Nat /\ Weight(ns, w[1], t) <= d
              /\ Counts(ns1, v, t, d - Weight(ns, w[1], t))
  <2>1. PICK h \in [1 .. (l + 1) -> Nat] :
           /\ h[l + 1] = 0 /\ h[1] = d
           /\ \A i \in 1 .. l : h[i] = h[i + 1] + Weight(ns, w[i], t)
    BY <1>1, <1>12 DEF Counts, Heights
  <2>2. PICK h1 : h1 = [i \in 1 .. l |-> h[i + 1]]
    OBVIOUS
  <2>3. h1 \in [1 .. l -> Nat] /\ \A i \in 1 .. l : h1[i] = h[i + 1]
    <3>1. \A i \in 1 .. l : i + 1 \in 1 .. (l + 1)
      OBVIOUS
    <3>2. QED
      BY <2>2, <3>1
  <2>4. \A i \in 1 .. (l - 1) : h1[i] = h1[i + 1] + Weight(ns1, v[i], t)
    <3>1. ASSUME NEW i \in 1 .. (l - 1)
          PROVE  h1[i] = h1[i + 1] + Weight(ns1, v[i], t)
      <4>1. i \in 1 .. l /\ i + 1 \in 1 .. l
        OBVIOUS
      <4>2. h1[i] = h[i + 1] /\ h1[i + 1] = h[i + 1 + 1]
        BY <2>3, <4>1
      <4>3. h[i + 1] = h[i + 1 + 1] + Weight(ns, w[i + 1], t)
        BY <2>1, <4>1
      <4>4. Weight(ns, w[i + 1], t) = Weight(ns1, v[i], t)
        BY <1>2, <1>8
      <4>5. QED
        BY <4>2, <4>3, <4>4
    <3>2. QED
      BY <3>1
  <2>5. h1[l] = 0
    BY <2>1, <2>3
  <2>6. Heights(ns1, v, t, h1)
    <3>1. l = Len(v) + 1
      BY <1>2
    <3>2. QED
      BY <1>2, <2>3, <2>4, <2>5, <3>1 DEF Heights
  <2>7. PICK c \in {0, 1} : c = Weight(ns, w[1], t)
    BY WeightType
  <2>8. d = h1[1] + c /\ h1[1] \in Nat
    <3>1. 1 \in 1 .. l
      OBVIOUS
    <3>2. d = h[2] + c /\ h1[1] = h[2]
      BY <2>1, <2>3, <2>7, <3>1
    <3>3. QED
      BY <2>3, <3>1, <3>2
  <2>9. d \in Nat /\ c <= d /\ h1[1] = d - c
    BY <2>8
  <2>10. QED
    BY <2>6, <2>7, <2>9 DEF Counts
<1>13. QED
  BY <1>2, <1>9, <1>10, <1>11, <1>12

\* The innermost call makes another one.
LEMMA CallOk ==
    ASSUME NEW ns, NEW p, NEW w, WorkOk(ns, p, w), NEW x, TaskOk(ns, p, x),
           Avoids(ns, w, Await(ns, x))
    PROVE  /\ WorkOk(ns, p, <<x>> \o w)
           /\ \A S : Avoids(ns, w, S) /\ Await(ns, x) \cap S = {}
                        => Avoids(ns, <<x>> \o w, S)
           /\ \A t, d : Counts(ns, w, t, d) => Counts(ns, <<x>> \o w, t, d + Weight(ns, x, t))
<1>1. w \in Seq(TaskRecord) /\ x \in TaskRecord
  BY DEF WorkOk, TaskOk
<1>2. PICK l \in Nat : l = Len(w)
  BY <1>1, LenProperties
<1>3. PICK v \in Seq(TaskRecord) :
         /\ v = <<x>> \o w /\ Len(v) = l + 1 /\ v[1] = x
         /\ \A i \in 2 .. (l + 1) : v[i] = w[i - 1]
  <2>1. <<x>> \in Seq(TaskRecord) /\ Len(<<x>>) = 1 /\ <<x>>[1] = x
    BY <1>1
  <2>2. PICK s \in Seq(TaskRecord) : s = <<x>> /\ Len(s) = 1 /\ s[1] = x
    BY <2>1
  <2>3. PICK v : v = s \o w
    OBVIOUS
  <2>4. /\ v \in Seq(TaskRecord) /\ Len(v) = 1 + l
        /\ \A i \in 1 .. (1 + l) : v[i] = IF i <= 1 THEN s[i] ELSE w[i - 1]
    BY <1>1, <1>2, <2>2, <2>3, ConcatProperties
  <2>5. v[1] = x /\ \A i \in 2 .. (l + 1) : v[i] = w[i - 1]
    BY <2>2, <2>4
  <2>6. Len(v) = l + 1 /\ v = <<x>> \o w
    BY <2>2, <2>3, <2>4
  <2>7. QED
    BY <2>4, <2>5, <2>6
<1>4. \A i \in 1 .. (l + 1) : i = 1 \/ (i \in 2 .. (l + 1) /\ i - 1 \in 1 .. l)
  OBVIOUS
<1>5. \A i \in 1 .. (l + 1) : TaskOk(ns, p, v[i])
  BY <1>2, <1>3, <1>4 DEF WorkOk
<1>6. \A i, j \in 1 .. (l + 1) : i # j => Await(ns, v[i]) \cap Await(ns, v[j]) = {}
  <2>1. \A i \in 1 .. l : Await(ns, w[i]) \cap Await(ns, x) = {}
    BY <1>2 DEF Avoids
  <2>2. ASSUME NEW i \in 2 .. (l + 1), NEW j \in 2 .. (l + 1), i # j
        PROVE  Await(ns, v[i]) \cap Await(ns, v[j]) = {}
    <3>1. i - 1 # j - 1 /\ i - 1 \in 1 .. Len(w) /\ j - 1 \in 1 .. Len(w)
      BY <1>2, <2>2
    <3>2. QED
      BY <1>3, <3>1 DEF WorkOk
  <2>3. QED
    BY <1>3, <1>4, <2>1, <2>2
<1>7. WorkOk(ns, p, v)
  BY <1>3, <1>5, <1>6 DEF WorkOk
<1>8. ASSUME NEW S, Avoids(ns, w, S), Await(ns, x) \cap S = {} PROVE Avoids(ns, v, S)
  BY <1>2, <1>3, <1>4, <1>8 DEF Avoids
<1>9. ASSUME NEW t, NEW d, Counts(ns, w, t, d)
      PROVE  Counts(ns, v, t, d + Weight(ns, x, t))
  <2>1. PICK h \in [1 .. (l + 1) -> Nat] :
           /\ h[l + 1] = 0 /\ h[1] = d
           /\ \A i \in 1 .. l : h[i] = h[i + 1] + Weight(ns, w[i], t)
    BY <1>2, <1>9 DEF Counts, Heights
  <2>2. PICK c \in {0, 1} : c = Weight(ns, x, t)
    BY WeightType
  <2>3. PICK h1 : h1 = [i \in 1 .. (l + 2) |-> IF i = 1 THEN d + c ELSE h[i - 1]]
    OBVIOUS
  <2>4. \A i \in 2 .. (l + 2) : i \in 1 .. (l + 2) /\ i # 1 /\ i - 1 \in 1 .. (l + 1)
    OBVIOUS
  <2>5. 1 \in 1 .. (l + 1) /\ 1 \in 1 .. (l + 2) /\ d \in Nat /\ d + c \in Nat
    BY <2>1
  <2>6. \A i \in 1 .. (l + 2) : i = 1 \/ i \in 2 .. (l + 2)
    OBVIOUS
  <2>7. h1[1] = d + c /\ \A i \in 2 .. (l + 2) : h1[i] = h[i - 1]
    BY <2>3, <2>4, <2>5
  <2>8. h1 \in [1 .. (l + 2) -> Nat]
    <3>1. \A i \in 1 .. (l + 2) : h1[i] \in Nat
      BY <2>4, <2>5, <2>6, <2>7
    <3>2. QED
      BY <2>3, <3>1
  <2>9. \A i \in 1 .. (l + 1) : h1[i] = h1[i + 1] + Weight(ns, v[i], t)
    <3>1. h1[1] = h1[2] + Weight(ns, v[1], t)
      <4>1. h1[2] = h[1]
        <5>1. 2 \in 2 .. (l + 2)
          OBVIOUS
        <5>2. QED
          BY <2>7, <5>1
      <4>2. QED
        BY <1>3, <2>1, <2>2, <2>7, <4>1
    <3>2. ASSUME NEW i \in 2 .. (l + 1)
          PROVE  h1[i] = h1[i + 1] + Weight(ns, v[i], t)
      <4>1. i - 1 \in 1 .. l /\ i \in 2 .. (l + 2) /\ i + 1 \in 2 .. (l + 2)
            /\ (i - 1) + 1 = i /\ (i + 1) - 1 = i
        OBVIOUS
      <4>2. h1[i] = h[i - 1] /\ h1[i + 1] = h[i]
        BY <2>7, <4>1
      <4>3. h[i - 1] = h[i] + Weight(ns, w[i - 1], t)
        BY <2>1, <4>1
      <4>4. QED
        BY <1>3, <4>2, <4>3
    <3>3. QED
      BY <1>4, <3>1, <3>2
  <2>10. h1[l + 2] = 0
    <3>1. l + 2 \in 2 .. (l + 2) /\ (l + 2) - 1 = l + 1
      OBVIOUS
    <3>2. QED
      BY <2>1, <2>7, <3>1
  <2>11. Heights(ns, v, t, h1)
    <3>1. Len(v) + 1 = l + 2
      BY <1>3
    <3>2. QED
      BY <1>3, <2>8, <2>9, <2>10, <3>1 DEF Heights
  <2>12. QED
    BY <2>2, <2>7, <2>11 DEF Counts
<1>10. QED
  BY <1>3, <1>7, <1>8, <1>9

LEMMA TwoCalls ==
    ASSUME NEW S, NEW a \in S, NEW b \in S, NEW w \in Seq(S)
    PROVE  <<a, b>> \o w = <<a>> \o (<<b>> \o w)
<1>1. <<a, b>> \in Seq(S) /\ <<a>> \in Seq(S) /\ <<b>> \in Seq(S)
  OBVIOUS
<1>2. <<a, b>> = <<a>> \o <<b>>
  <2>1. PICK q : q = <<a>> \o <<b>>
    OBVIOUS
  <2>2. PICK r : r = <<a, b>>
    OBVIOUS
  <2>3. r \in Seq(S) /\ Len(r) = 2 /\ r[1] = a /\ r[2] = b
    BY <2>2
  <2>4. q \in Seq(S) /\ Len(q) = 2 /\ q[1] = a /\ q[2] = b
    BY <2>1
  <2>5. \A i \in 1 .. 2 : q[i] = r[i]
    <3>1. 1 .. 2 = {1, 2}
      OBVIOUS
    <3>2. QED
      BY <2>3, <2>4, <3>1
  <2>6. q = r
    BY <2>3, <2>4, <2>5, SeqEqual
  <2>7. QED
    BY <2>1, <2>2, <2>6
<1>3. (<<a>> \o <<b>>) \o w = <<a>> \o (<<b>> \o w)
  BY <1>1, ConcatAssociative
<1>4. QED
  BY <1>2, <1>3

LEMMA TaskIs ==
    ASSUME NEW call \in SetupCalls \cup PrepareCalls, NEW n \in Nat, NEW loc \in Int, NEW k \in Int
    PROVE  LET x == Task(call, n, loc, k)
           IN  x \in TaskRecord /\ x.call = call /\ x.n = n /\ x.loc = loc /\ x.k = k
  BY DEF Task, TaskRecord

\* A node that is changed keeps its place.
LEMMA NodeChanged ==
    ASSUME NEW ns \in Seq(NodeRecord), NEW n \in 1 .. Len(ns), NEW r \in NodeRecord
    PROVE  LET ns1 == [ns EXCEPT ![n] = r]
           IN  /\ ns1 \in Seq(NodeRecord) /\ Len(ns1) = Len(ns) /\ ns1[n] = r
               /\ \A m \in 1 .. Len(ns) : m # n => ns1[m] = ns[m]
<1>1. ns \in [1 .. Len(ns) -> NodeRecord] /\ Len(ns) \in Nat
  BY LenProperties
<1>2. PICK q : q = [ns EXCEPT ![n] = r]
  OBVIOUS
<1>3. q \in [1 .. Len(ns) -> NodeRecord]
  BY <1>1, <1>2
<1>4. q \in Seq(NodeRecord) /\ Len(q) = Len(ns)
  BY <1>1, <1>3, IsSeq
<1>5. QED
  BY <1>1, <1>2, <1>4

\* The first pass leaves v in node n.
Recorded(ns, ns1, n, v) == ns1 = [ns EXCEPT ![n].spill = v]

\* Nothing that the walk looks at changes in a node whose spill is recorded.
LEMMA SpillRecorded ==
    ASSUME NEW ns, NodesOk(ns), NEW n \in 1 .. Len(ns), NEW v \in Nat,
           NEW ns1, Recorded(ns, ns1, n, v)
    PROVE  /\ NodesOk(ns1) /\ Grown(ns, ns1, {}) /\ Len(ns1) = Len(ns)
           /\ ns1[n].spill = v
           /\ \A m \in 1 .. Len(ns) : m # n => ns1[m].spill = ns[m].spill
<1>1. ns \in Seq(NodeRecord) /\ Len(ns) \in Nat /\ ns \in [1 .. Len(ns) -> NodeRecord]
  BY LenProperties DEF NodesOk
<1>2. ns[n] \in NodeRecord
  BY <1>1
<1>3. PICK r \in NodeRecord : r = [ns[n] EXCEPT !.spill = v] /\ r.op = ns[n].op
                              /\ r.type = ns[n].type /\ r.args = ns[n].args
                              /\ r.spill = v
  <2>1. PICK r : r = [ns[n] EXCEPT !.spill = v]
    OBVIOUS
  <2>2. /\ r \in NodeRecord /\ r.op = ns[n].op /\ r.type = ns[n].type
        /\ r.args = ns[n].args /\ r.spill = v
    BY <1>2, <2>1 DEF NodeRecord
  <2>3. QED
    BY <2>1, <2>2
<1>4. PICK q : q = ns1 /\ q = [ns EXCEPT ![n].spill = v]
  BY DEF Recorded
<1>5. q = [ns EXCEPT ![n] = r]
  BY <1>1, <1>3, <1>4
<1>6. /\ q \in Seq(NodeRecord) /\ Len(q) = Len(ns) /\ q[n] = r
      /\ \A m \in 1 .. Len(ns) : m # n => q[m] = ns[m]
  BY <1>1, <1>5, NodeChanged
<1>7. \A m \in 1 .. Len(ns) : /\ q[m].op = ns[m].op /\ q[m].type = ns[m].type
                              /\ q[m].args = ns[m].args
  BY <1>3, <1>6
<1>8. Grown(ns, q, {})
  BY <1>1, <1>6, <1>7 DEF Grown
<1>9. NodesOk(q)
  <2>1. \A m \in 1 .. Len(ns) : Args(q, m) = Args(ns, m)
    BY <1>7 DEF Args
  <2>2. QED
    BY <1>6, <1>7, <2>1 DEF NodesOk
<1>10. q[n].spill = v /\ \A m \in 1 .. Len(ns) : m # n => q[m].spill = ns[m].spill
  BY <1>3, <1>6
<1>11. QED
  BY <1>4, <1>6, <1>7, <1>8, <1>9, <1>10 DEF Args

LEMMA NodeRecorded ==
    ASSUME NodesOk(nodes), Node \in 1 .. Len(nodes), NEW v \in Nat,
           nodes' = [nodes EXCEPT ![Node].spill = v]
    PROVE  /\ NodesOk(nodes') /\ Grown(nodes, nodes', {}) /\ Len(nodes') = Len(nodes)
           /\ nodes'[Node].spill = v
           /\ \A m \in 1 .. Len(nodes) : m # Node => nodes'[m].spill = nodes[m].spill
<1>1. Recorded(nodes, nodes', Node, v)
  BY DEF Recorded
<1>2. QED
  BY <1>1, SpillRecorded

\* The visit of a node appends its operands, which nobody has visited.
LEMMA GrowOk ==
    ASSUME NodesOk(nodes), NEW n \in 1 .. Len(nodes), NEW op \in NodeOps,
           NEW types \in Seq(Types), Grow(n, op, types),
           op \in {"part", "cast"} => Len(types) = 1,
           op \in {"arith", "cmp"} => Len(types) = 2
    PROVE  /\ NodesOk(nodes') /\ Grown(nodes, nodes', {n})
           /\ Len(nodes) \in Nat /\ Len(types) \in Nat
           /\ Len(nodes') = Len(nodes) + Len(types)
           /\ nodes'[n].op = op /\ Len(Args(nodes', n)) = Len(types)
           /\ \A m \in 1 .. Len(nodes) : nodes'[m].spill = nodes[m].spill
           /\ \A k \in 1 .. Len(types) :
                 /\ Args(nodes', n)[k] = Len(nodes) + k
                 /\ Len(nodes) + k \in Unseen(nodes')
                 /\ nodes'[Len(nodes) + k].type = types[k]
                 /\ nodes'[Len(nodes) + k].spill = 0
<1>1. PICK ns \in Seq(NodeRecord) : ns = nodes
  BY DEF NodesOk
<1>2. PICK l \in Nat : l = Len(ns) /\ n \in 1 .. l /\ l = Len(nodes)
  BY <1>1, LenProperties
<1>3. PICK m \in Nat : m = Len(types)
  BY LenProperties
<1>4. ns[n] \in NodeRecord
  BY <1>2, ElementOfSeq
<1>5. PICK a \in Seq(Nat) : /\ a = [k \in 1 .. m |-> l + k] /\ Len(a) = m
                            /\ \A k \in 1 .. m : a[k] = l + k
  <2>1. [k \in 1 .. m |-> l + k] \in [1 .. m -> Nat]
    OBVIOUS
  <2>2. PICK a : a = [k \in 1 .. m |-> l + k]
    OBVIOUS
  <2>3. a \in Seq(Nat) /\ Len(a) = m
    BY <2>1, <2>2, IsSeq
  <2>4. QED
    BY <2>2, <2>3
<1>6. PICK r \in NodeRecord : /\ r = [ns[n] EXCEPT !.op = op, !.args = a]
                              /\ r.op = op /\ r.type = ns[n].type /\ r.args = a
                              /\ r.spill = ns[n].spill
  <2>1. PICK o \in NodeRecord : o = ns[n]
    BY <1>4
  <2>2. PICK r : r = [o EXCEPT !.op = op, !.args = a]
    OBVIOUS
  <2>3. /\ r \in NodeRecord /\ r.op = op /\ r.type = o.type /\ r.args = a
        /\ r.spill = o.spill
    BY <2>2 DEF NodeRecord
  <2>4. QED
    BY <2>1, <2>2, <2>3
<1>7. PICK q : q = [ns EXCEPT ![n] = r]
  OBVIOUS
<1>8. /\ q \in Seq(NodeRecord) /\ Len(q) = l /\ q[n] = r
      /\ \A k \in 1 .. l : k # n => q[k] = ns[k]
  <2>1. n \in 1 .. Len(ns)
    BY <1>2
  <2>2. QED
    <3>1. /\ q \in Seq(NodeRecord) /\ Len(q) = Len(ns) /\ q[n] = r
          /\ \A k \in 1 .. Len(ns) : k # n => q[k] = ns[k]
      BY <1>7, <2>1, NodeChanged
    <3>2. QED
      BY <1>2, <3>1
<1>9. PICK e \in Seq(NodeRecord) : /\ e = [k \in 1 .. m |-> Fresh(types[k])] /\ Len(e) = m
                                   /\ \A k \in 1 .. m : e[k] = Fresh(types[k])
  <2>1. \A k \in 1 .. m : types[k] \in Types
    BY <1>3, ElementOfSeq
  <2>2. <<>> \in Seq(Nat)
    BY EmptySeq
  <2>3. \A t \in Types : Fresh(t) \in NodeRecord
    BY <2>2 DEF Fresh, NodeRecord, NodeOps
  <2>4. PICK e : e = [k \in 1 .. m |-> Fresh(types[k])]
    OBVIOUS
  <2>5. e \in [1 .. m -> NodeRecord]
    BY <2>1, <2>3, <2>4
  <2>6. e \in Seq(NodeRecord) /\ Len(e) = m
    BY <2>5, IsSeq
  <2>7. QED
    BY <2>4, <2>6
<1>10. nodes' = q \o e
  <2>1. nodes' = [ns EXCEPT ![n].op = op, ![n].args = a] \o e
    BY <1>1, <1>2, <1>3, <1>5, <1>9 DEF Grow
  <2>2. ns \in [1 .. l -> NodeRecord]
    BY <1>2, LenProperties
  <2>3. [ns EXCEPT ![n].op = op, ![n].args = a] = q
    BY <1>2, <1>4, <1>6, <1>7, <2>2 DEF NodeRecord
  <2>4. QED
    BY <2>1, <2>3
<1>11. PICK z : z = nodes'
  OBVIOUS
<1>12. /\ z \in Seq(NodeRecord) /\ Len(z) = l + m
       /\ \A k \in 1 .. l : z[k] = q[k]
       /\ \A k \in 1 .. m : z[l + k] = Fresh(types[k])
  <2>1. /\ z \in Seq(NodeRecord) /\ Len(z) = l + m
        /\ \A k \in 1 .. (l + m) : z[k] = IF k <= l THEN q[k] ELSE e[k - l]
    <3>1. PICK a1 \in Seq(NodeRecord) : a1 = q /\ Len(a1) = l
      BY <1>8
    <3>2. PICK e1 \in Seq(NodeRecord) : e1 = e /\ Len(e1) = m
      BY <1>9
    <3>3. z = a1 \o e1
      BY <1>10, <1>11, <3>1, <3>2
    <3>4. /\ z \in Seq(NodeRecord) /\ Len(z) = Len(a1) + Len(e1)
          /\ \A k \in 1 .. Len(a1) + Len(e1) :
                z[k] = IF k <= Len(a1) THEN a1[k] ELSE e1[k - Len(a1)]
      BY <3>3, ConcatProperties
    <3>5. QED
      BY <3>1, <3>2, <3>4
  <2>2. \A k \in 1 .. l : k \in 1 .. (l + m) /\ k <= l
    OBVIOUS
  <2>3. \A k \in 1 .. m : l + k \in 1 .. (l + m) /\ ~(l + k <= l) /\ (l + k) - l = k
    OBVIOUS
  <2>4. QED
    BY <1>9, <2>1, <2>2, <2>3
<1>13. /\ z[n] = r
       /\ \A k \in 1 .. l : k # n => z[k] = ns[k]
  BY <1>2, <1>8, <1>12
<1>14. Grown(ns, z, {n})
  <2>1. \A k \in 1 .. l : z[k].type = ns[k].type
    BY <1>6, <1>13
  <2>2. Len(ns) <= Len(z)
    BY <1>2, <1>12
  <2>3. QED
    BY <1>2, <1>12, <1>13, <2>1, <2>2 DEF Grown
<1>15. \A k \in 1 .. m : /\ z[l + k].op = "none" /\ z[l + k].type = types[k]
                         /\ z[l + k].args = <<>> /\ z[l + k].spill = 0
  <2>1. \A t : /\ Fresh(t).op = "none" /\ Fresh(t).type = t /\ Fresh(t).args = <<>>
              /\ Fresh(t).spill = 0
    BY DEF Fresh
  <2>2. QED
    BY <1>12, <2>1
<1>16. \A k \in 1 .. m : l + k \in Unseen(z)
  <2>1. \A k \in 1 .. m : l + k \in 1 .. (l + m)
    OBVIOUS
  <2>2. QED
    BY <1>12, <1>15, <2>1 DEF Unseen
<1>17. NodesOk(z)
  <2>1. \A k \in 1 .. (l + m) : k \in 1 .. l \/ \E j \in 1 .. m : k = l + j
    <3>1. ASSUME NEW k \in 1 .. (l + m), k \notin 1 .. l PROVE \E j \in 1 .. m : k = l + j
      <4>1. k - l \in 1 .. m /\ k = l + (k - l)
        BY <3>1
      <4>2. QED
        BY <4>1
    <3>2. QED
      BY <3>1
  <2> DEFINE Ok(k) == /\ \A j \in 1 .. Len(Args(z, k)) : Args(z, k)[j] \in 1 .. (l + m)
                      /\ \A i, j \in 1 .. Len(Args(z, k)) : i # j => Args(z, k)[i] # Args(z, k)[j]
                      /\ z[k].op \in {"part", "cast"} => Len(Args(z, k)) = 1
                      /\ z[k].op \in {"arith", "cmp"} => Len(Args(z, k)) = 2
  <2>2. ASSUME NEW k \in 1 .. l, k # n PROVE Ok(k)
    <3>1. z[k] = ns[k] /\ Args(z, k) = Args(ns, k)
      BY <1>13, <2>2 DEF Args
    <3>2. \A j \in 1 .. l : j \in 1 .. (l + m)
      OBVIOUS
    <3>3. \A j \in 1 .. Len(Args(ns, k)) : Args(ns, k)[j] \in 1 .. l
      BY <1>1, <1>2, <2>2 DEF NodesOk
    <3>4. /\ \A i, j \in 1 .. Len(Args(ns, k)) : i # j => Args(ns, k)[i] # Args(ns, k)[j]
          /\ ns[k].op \in {"part", "cast"} => Len(Args(ns, k)) = 1
          /\ ns[k].op \in {"arith", "cmp"} => Len(Args(ns, k)) = 2
      BY <1>1, <1>2, <2>2 DEF NodesOk
    <3>5. QED
      BY <3>1, <3>2, <3>3, <3>4
  <2>3. Ok(n)
    <3>1. Args(z, n) = a /\ z[n].op = op
      BY <1>6, <1>13 DEF Args
    <3>2. \A k \in 1 .. m : a[k] \in 1 .. (l + m)
      BY <1>5
    <3>3. \A i, j \in 1 .. m : i # j => a[i] # a[j]
      BY <1>5
    <3>4. QED
      BY <1>3, <1>5, <3>1, <3>2, <3>3
  <2>4. ASSUME NEW k \in 1 .. m PROVE Ok(l + k)
    <3>1. Len(Args(z, l + k)) = 0 /\ z[l + k].op = "none"
      BY <1>15, EmptySeq DEF Args
    <3>2. 1 .. 0 = {}
      OBVIOUS
    <3>3. QED
      BY <3>1, <3>2
  <2> HIDE DEF Ok
  <2>5. \A k \in 1 .. (l + m) : Ok(k)
    BY <2>1, <2>2, <2>3, <2>4
  <2> USE DEF Ok
  <2>6. QED
    BY <1>12, <2>5 DEF NodesOk
<1>18. Len(Args(z, n)) = m /\ z[n].op = op /\ \A k \in 1 .. m : Args(z, n)[k] = l + k
  BY <1>5, <1>6, <1>13 DEF Args
<1>19. \A k \in 1 .. l : z[k].spill = ns[k].spill
  BY <1>6, <1>13
<1>20. QED
  BY <1>1, <1>2, <1>3, <1>11, <1>12, <1>14, <1>15, <1>16, <1>17, <1>18, <1>19

LEMMA AvoidsMore ==
    ASSUME NEW ns, NEW w, NEW S
    PROVE  /\ (\A m \in S : Avoids(ns, w, {m})) => Avoids(ns, w, S)
           /\ \A T \in SUBSET S : Avoids(ns, w, S) => Avoids(ns, w, T)
  BY DEF Avoids

LEMMA NowDoing ==
    ASSUME WalkInvariant, NEW c, Doing(c)
    PROVE  /\ work # <<>> /\ work[1].call = c /\ TaskOk(nodes, phase, work[1])
           /\ Len(nodes) \in Nat /\ Node \in 1 .. Len(nodes) /\ Node \in Nat
           /\ work[1].loc \in Int /\ work[1].k \in Int /\ Rest \in Seq(TaskRecord)
           /\ c \in SetupCalls => phase = "setup"
           /\ c \in PrepareCalls => phase # "setup"
           /\ nodes[Node].type \in Types
<1>1. work # <<>> /\ work[1].call = c /\ work \in Seq(TaskRecord)
  BY DEF Doing, WalkInvariant, WorkOk
<1>2. Len(work) \in Nat \ {0}
  BY <1>1, EmptySeq
<1>3. 1 \in 1 .. Len(work)
  BY <1>2
<1>4. TaskOk(nodes, phase, work[1])
  BY <1>3 DEF WalkInvariant, WorkOk
<1>5. Len(nodes) \in Nat /\ nodes \in Seq(NodeRecord)
  BY LenProperties DEF WalkInvariant, NodesOk
<1>6. work[1] \in TaskRecord /\ Node \in 1 .. Len(nodes)
  BY <1>4 DEF TaskOk, Node
<1>7. Node \in Nat /\ work[1].loc \in Int /\ work[1].k \in Int
  BY <1>6 DEF TaskRecord, Node
<1>8. Rest \in Seq(TaskRecord)
  BY <1>1, HeadTailProperties DEF Rest
<1>9. work[1].call \in IF phase = "setup" THEN SetupCalls ELSE PrepareCalls
  BY <1>4 DEF TaskOk
<1>10. SetupCalls \cap PrepareCalls = {}
  BY DEF SetupCalls, PrepareCalls
<1>11. nodes[Node] \in NodeRecord
  BY <1>5, <1>6, ElementOfSeq
<1>12. nodes[Node].type \in Types
  BY <1>11 DEF NodeRecord
<1>13. QED
  BY <1>1, <1>4, <1>5, <1>6, <1>7, <1>8, <1>9, <1>10, <1>12

\* A step of the walk leaves the statements and the variables alone.
LEMMA StepOk ==
    ASSUME WalkInvariant, NodesOk(nodes'), Len(nodes) <= Len(nodes'), Keeps(fm, fm'),
           stmts' = stmts, phase' = phase, at' = at, locals' = locals,
           WorkOk(nodes', phase, work'),
           \A t \in Types : Counts(nodes', work', t, Depth(fm', t))
    PROVE  WalkInvariant'
<1>1. Good(fm') /\ fm'.old = fm.old /\ fm'.base = fm.base
  BY DEF Keeps
<1>2. VariablesOk(fm'.old, fm'.base, locals')
  BY <1>1 DEF WalkInvariant
<1>3. Len(nodes) \in Nat /\ Len(nodes') \in Nat
  BY LenProperties DEF WalkInvariant, NodesOk
<1>4. \A i \in 1 .. Len(stmts') : stmts'[i].root \in 1 .. Len(nodes')
  <2>1. \A m \in 1 .. Len(nodes) : m \in 1 .. Len(nodes')
    BY <1>3
  <2>2. QED
    BY <2>1 DEF WalkInvariant
<1>5. stmts' \in Seq(Statement) /\ phase' \in {"setup", "prepare", "done"} /\ at' \in Nat
  BY DEF WalkInvariant
<1>6. WorkOk(nodes', phase', work')
  OBVIOUS
<1>7. QED
  BY <1>1, <1>2, <1>4, <1>5, <1>6 DEF WalkInvariant

\* The state of the walk when the innermost call has returned.
LEMMA Returned ==
    ASSUME WalkInvariant, work # <<>>, NEW ns1, NEW N, N \subseteq Await(nodes, work[1]),
           Grown(nodes, ns1, N)
    PROVE  /\ WorkOk(ns1, phase, Rest) /\ Avoids(ns1, Rest, Await(nodes, work[1]))
           /\ \A m : (m \notin 1 .. Len(nodes)) => Avoids(ns1, Rest, {m})
           /\ \A t \in Types :
                 /\ Depth(fm, t) \in Nat /\ Weight(nodes, work[1], t) <= Depth(fm, t)
                 /\ Counts(ns1, Rest, t, Depth(fm, t) - Weight(nodes, work[1], t))
<1>1. /\ NodesOk(nodes) /\ WorkOk(nodes, phase, work)
      /\ \A t \in Types : Counts(nodes, work, t, Depth(fm, t))
  BY DEF WalkInvariant
<1>2. QED
  BY <1>1, RestOk DEF Rest

LEMMA KeepsItself ==
    ASSUME WalkInvariant
    PROVE  Keeps(fm, fm)
  BY DEF WalkInvariant, Keeps

\* The calls that hold nothing on the stacks.
LEMMA Weightless ==
    ASSUME NEW ns, NEW x, x.call \notin {"setupLeft", "left", "setupParam", "param", "store"}
    PROVE  \A t : Weight(ns, x, t) = 0
  BY DEF Weight

\* A call that visits node m next: nobody else does, so it can be made.
LEMMA VisitOk ==
    ASSUME NEW ns, NEW w, WorkOk(ns, "setup", w), NEW m \in Unseen(ns), Avoids(ns, w, {m}),
           Len(ns) \in Nat
    PROVE  LET x == Task("setup", m, NoSpill, 0)
           IN  /\ WorkOk(ns, "setup", <<x>> \o w)
               /\ \A t, d : d \in Nat /\ Counts(ns, w, t, d) => Counts(ns, <<x>> \o w, t, d)
<1>1. PICK x : x = Task("setup", m, NoSpill, 0)
  OBVIOUS
<1>2. m \in 1 .. Len(ns) /\ m \in Nat
  BY DEF Unseen
<1>3. x \in TaskRecord /\ x.call = "setup" /\ x.n = m
  <2>1. "setup" \in SetupCalls \cup PrepareCalls /\ NoSpill \in Int /\ 0 \in Int
    BY DEF SetupCalls, NoSpill
  <2>2. QED
    BY <1>1, <1>2, <2>1, TaskIs
<1>4. Await(ns, x) = {m}
  BY <1>3, AwaitIs
<1>5. TaskOk(ns, "setup", x)
  BY <1>2, <1>3, <1>4 DEF TaskOk, SetupCalls
<1>6. \A t : Weight(ns, x, t) = 0
  BY <1>3, Weightless
<1>7. \A t, d : Counts(ns, w, t, d) => Counts(ns, <<x>> \o w, t, d + Weight(ns, x, t))
  BY <1>4, <1>5, CallOk
<1>8. \A t, d : d \in Nat /\ Counts(ns, w, t, d) => Counts(ns, <<x>> \o w, t, d)
  <2>1. ASSUME NEW t, NEW d \in Nat, Counts(ns, w, t, d) PROVE Counts(ns, <<x>> \o w, t, d)
    <3>1. d + Weight(ns, x, t) = d
      BY <1>6
    <3>2. QED
      BY <1>7, <2>1, <3>1
  <2>2. QED
    BY <2>1
<1>9. WorkOk(ns, "setup", <<x>> \o w)
  BY <1>4, <1>5, CallOk
<1>10. QED
  BY <1>1, <1>8, <1>9

LEMMA SetupLeafOk ==
    ASSUME WalkInvariant, SetupLeaf
    PROVE  WalkInvariant'
<1>1. /\ work # <<>> /\ work[1].call = "setup" /\ TaskOk(nodes, phase, work[1])
      /\ Node \in 1 .. Len(nodes)
  BY NowDoing DEF SetupLeaf
<1>2. Grow(Node, "leaf", <<>>) /\ work' = Rest
      /\ UNCHANGED <<fm, stmts, phase, at, locals, code>>
  BY DEF SetupLeaf
<1>3. PICK types \in Seq(Types) : types = <<>> /\ Len(types) = 0
  BY EmptySeq
<1>4. NodesOk(nodes') /\ Grown(nodes, nodes', {Node})
  <2>1. NodesOk(nodes) /\ "leaf" \in NodeOps /\ "leaf" \notin {"part", "cast", "arith", "cmp"}
    BY DEF WalkInvariant, NodeOps
  <2>2. QED
    BY <1>1, <1>2, <1>3, <2>1, GrowOk
<1>5. Await(nodes, work[1]) = {Node}
  BY <1>1, AwaitIs DEF Node
<1>6. /\ WorkOk(nodes', phase, Rest)
      /\ \A t \in Types :
            /\ Depth(fm, t) \in Nat /\ Weight(nodes, work[1], t) <= Depth(fm, t)
            /\ Counts(nodes', Rest, t, Depth(fm, t) - Weight(nodes, work[1], t))
  BY <1>1, <1>4, <1>5, Returned
<1>7. \A t : Weight(nodes, work[1], t) = 0
  BY <1>1, Weightless
<1>8. \A t \in Types : Counts(nodes', Rest, t, Depth(fm, t))
  <2>1. \A t \in Types : Depth(fm, t) - Weight(nodes, work[1], t) = Depth(fm, t)
    BY <1>6, <1>7
  <2>2. QED
    BY <1>6, <2>1
<1>9. Keeps(fm, fm') /\ \A t \in Types : Depth(fm', t) = Depth(fm, t)
  BY <1>2, KeepsItself
<1>10. Len(nodes) <= Len(nodes')
  BY <1>4 DEF Grown
<1>11. QED
  BY <1>2, <1>4, <1>6, <1>8, <1>9, <1>10, StepOk

LEMMA SetupOneOperandOk ==
    ASSUME WalkInvariant, SetupOneOperand
    PROVE  WalkInvariant'
<1>1. /\ work # <<>> /\ work[1].call = "setup" /\ TaskOk(nodes, phase, work[1])
      /\ Node \in 1 .. Len(nodes) /\ phase = "setup" /\ nodes[Node].type \in Types
  BY NowDoing DEF SetupOneOperand, SetupCalls
<1>2. PICK op \in {"part", "cast"}, t0 \in Types :
         /\ Grow(Node, op, <<t0>>)
         /\ fm' = ReserveTemp(fm, t0)
         /\ work' = <<Task("setup", Len(nodes) + 1, NoSpill, 0)>> \o Rest
         /\ UNCHANGED <<stmts, phase, at, locals, code>>
  BY <1>1 DEF SetupOneOperand, Types
<1>3. PICK types \in Seq(Types) : types = <<t0>> /\ Len(types) = 1
  <2>1. <<t0>> \in Seq(Types) /\ Len(<<t0>>) = 1
    OBVIOUS
  <2>2. QED
    BY <2>1
<1>4. /\ NodesOk(nodes') /\ Grown(nodes, nodes', {Node}) /\ Len(nodes) \in Nat
      /\ Len(nodes') = Len(nodes) + 1 /\ Len(nodes) + 1 \in Unseen(nodes')
  <2>1. NodesOk(nodes) /\ op \in NodeOps /\ op \notin {"arith", "cmp"}
    BY DEF WalkInvariant, NodeOps
  <2>2. 1 \in 1 .. Len(types)
    BY <1>3
  <2>3. QED
    BY <1>1, <1>2, <1>3, <2>1, <2>2, GrowOk
<1>5. Await(nodes, work[1]) = {Node}
  BY <1>1, AwaitIs DEF Node
<1>6. /\ WorkOk(nodes', phase, Rest)
      /\ \A m : (m \notin 1 .. Len(nodes)) => Avoids(nodes', Rest, {m})
      /\ \A t \in Types :
            /\ Depth(fm, t) \in Nat /\ Weight(nodes, work[1], t) <= Depth(fm, t)
            /\ Counts(nodes', Rest, t, Depth(fm, t) - Weight(nodes, work[1], t))
  BY <1>1, <1>4, <1>5, Returned
<1>7. \A t : Weight(nodes, work[1], t) = 0
  BY <1>1, Weightless
<1>8. \A t \in Types : Counts(nodes', Rest, t, Depth(fm, t))
  <2>1. \A t \in Types : Depth(fm, t) - Weight(nodes, work[1], t) = Depth(fm, t)
    BY <1>6, <1>7
  <2>2. QED
    BY <1>6, <2>1
<1>9. Keeps(fm, fm') /\ \A t \in Types : Depth(fm', t) = Depth(fm, t)
  <2>1. Good(fm)
    BY DEF WalkInvariant
  <2>2. QED
    BY <1>2, <2>1, ReserveTempKeeps DEF SameDepths
<1>10. Len(nodes) <= Len(nodes') /\ Len(nodes') \in Nat /\ Len(nodes) + 1 \notin 1 .. Len(nodes)
  BY <1>4
<1>11. Avoids(nodes', Rest, {Len(nodes) + 1})
  BY <1>6, <1>10
<1>12. /\ WorkOk(nodes', "setup", work')
       /\ \A t, d : d \in Nat /\ Counts(nodes', Rest, t, d) => Counts(nodes', work', t, d)
  BY <1>1, <1>2, <1>4, <1>6, <1>10, <1>11, VisitOk
<1>13. \A t \in Types : Counts(nodes', work', t, Depth(fm', t))
  BY <1>6, <1>8, <1>9, <1>12
<1>14. QED
  BY <1>1, <1>2, <1>4, <1>9, <1>10, <1>12, <1>13, StepOk

LEMMA SetupTwoOperandsOk ==
    ASSUME WalkInvariant, SetupTwoOperands
    PROVE  WalkInvariant'
<1>1. /\ work # <<>> /\ work[1].call = "setup" /\ TaskOk(nodes, phase, work[1])
      /\ Node \in 1 .. Len(nodes) /\ phase = "setup" /\ Node \in Nat
  BY NowDoing DEF SetupTwoOperands, SetupCalls
<1>2. PICK op \in {"arith", "cmp"}, t0 \in Types :
         /\ Grow(Node, op, <<t0, t0>>)
         /\ fm' = ReserveTemp(PushTemp(fm, t0, Node, FALSE), t0)
         /\ work' = <<Task("setup", Len(nodes) + 2, NoSpill, 0),
                      Task("setupLeft", Node, NoSpill, 0)>> \o Rest
         /\ UNCHANGED <<stmts, phase, at, locals, code>>
  BY DEF SetupTwoOperands
<1>3. PICK types \in Seq(Types) : types = <<t0, t0>> /\ Len(types) = 2 /\ types[1] = t0
  <2>1. <<t0, t0>> \in Seq(Types) /\ Len(<<t0, t0>>) = 2 /\ <<t0, t0>>[1] = t0
    OBVIOUS
  <2>2. QED
    BY <2>1
<1>4. /\ NodesOk(nodes') /\ Grown(nodes, nodes', {Node}) /\ Len(nodes) \in Nat
      /\ Len(nodes') = Len(nodes) + 2 /\ nodes'[Node].op = op
      /\ Len(nodes) + 1 \in Unseen(nodes') /\ Len(nodes) + 2 \in Unseen(nodes')
      /\ Args(nodes', Node)[1] = Len(nodes) + 1
      /\ nodes'[Len(nodes) + 1].type = t0
  <2>1. NodesOk(nodes) /\ op \in NodeOps /\ op \notin {"part", "cast"}
    BY DEF WalkInvariant, NodeOps
  <2>2. 1 \in 1 .. Len(types) /\ 2 \in 1 .. Len(types)
    BY <1>3
  <2>3. Grow(Node, op, types)
    BY <1>2, <1>3
  <2>4. /\ NodesOk(nodes') /\ Grown(nodes, nodes', {Node})
        /\ Len(nodes) \in Nat /\ Len(types) \in Nat
        /\ Len(nodes') = Len(nodes) + Len(types)
        /\ nodes'[Node].op = op /\ Len(Args(nodes', Node)) = Len(types)
        /\ \A k \in 1 .. Len(types) :
              /\ Args(nodes', Node)[k] = Len(nodes) + k
              /\ Len(nodes) + k \in Unseen(nodes')
              /\ nodes'[Len(nodes) + k].type = types[k]
    <3>1. /\ op \in {"part", "cast"} => Len(types) = 1
          /\ op \in {"arith", "cmp"} => Len(types) = 2
      BY <1>3, <2>1
    <3>2. Node \in 1 .. Len(nodes) /\ NodesOk(nodes) /\ op \in NodeOps
      BY <1>1, <2>1
    <3>3. QED
      BY <2>3, <3>1, <3>2, GrowOk
  <2>5. /\ Args(nodes', Node)[1] = Len(nodes) + 1 /\ Len(nodes) + 1 \in Unseen(nodes')
        /\ nodes'[Len(nodes) + 1].type = types[1]
    BY <2>2, <2>4, Zenon
  <2>6. Len(nodes) + 2 \in Unseen(nodes')
    BY <2>2, <2>4, Zenon
  <2>7. QED
    BY <1>3, <2>4, <2>5, <2>6
<1>5. Await(nodes, work[1]) = {Node}
  BY <1>1, AwaitIs DEF Node
<1>6. /\ WorkOk(nodes', phase, Rest)
      /\ \A m : (m \notin 1 .. Len(nodes)) => Avoids(nodes', Rest, {m})
      /\ \A t \in Types :
            /\ Depth(fm, t) \in Nat /\ Weight(nodes, work[1], t) <= Depth(fm, t)
            /\ Counts(nodes', Rest, t, Depth(fm, t) - Weight(nodes, work[1], t))
  BY <1>1, <1>4, <1>5, Returned
<1>7. \A t : Weight(nodes, work[1], t) = 0
  BY <1>1, Weightless
<1>8. \A t \in Types : Counts(nodes', Rest, t, Depth(fm, t))
  <2>1. \A t \in Types : Depth(fm, t) - Weight(nodes, work[1], t) = Depth(fm, t)
    BY <1>6, <1>7
  <2>2. QED
    BY <1>6, <2>1
<1>9. /\ Keeps(fm, fm') /\ Depth(fm', t0) = Depth(fm, t0) + 1
      /\ \A t \in Types \ {t0} : Depth(fm', t) = Depth(fm, t)
  <2>1. Good(fm) /\ FALSE \in BOOLEAN
    BY DEF WalkInvariant
  <2>2. PICK g : g = PushTemp(fm, t0, Node, FALSE)
    OBVIOUS
  <2>3. /\ Keeps(fm, g) /\ Depth(g, t0) = Depth(fm, t0) + 1
        /\ \A t \in Types \ {t0} : Depth(g, t) = Depth(fm, t)
    BY <1>1, <2>1, <2>2, PushTempKeeps, Zenon
  <2>4. Keeps(g, fm') /\ SameDepths(g, fm')
    BY <1>2, <2>2, <2>3, ReserveTempKeeps DEF Keeps
  <2>5. QED
    BY <2>3, <2>4 DEF SameDepths, Keeps
<1>10. Len(nodes) <= Len(nodes') /\ Len(nodes') \in Nat /\ Len(nodes) + 1 \notin 1 .. Len(nodes)
       /\ Len(nodes) + 2 \notin 1 .. Len(nodes)
  BY <1>4
<1>11. Avoids(nodes', Rest, {Len(nodes) + 1}) /\ Avoids(nodes', Rest, {Len(nodes) + 2})
  BY <1>6, <1>10
<1>12. PICK b : b = Task("setupLeft", Node, NoSpill, 0)
  OBVIOUS
<1>13. b \in TaskRecord /\ b.call = "setupLeft" /\ b.n = Node
  <2>1. "setupLeft" \in SetupCalls \cup PrepareCalls /\ NoSpill \in Int /\ 0 \in Int
    BY DEF SetupCalls, NoSpill
  <2>2. QED
    BY <1>1, <1>12, <2>1, TaskIs
<1>14. Await(nodes', b) = {Len(nodes) + 1}
  BY <1>4, <1>13, AwaitIs
<1>15. TaskOk(nodes', "setup", b)
  <2>1. Node \in 1 .. Len(nodes')
    BY <1>1, <1>4
  <2>2. QED
    BY <1>4, <1>13, <1>14, <2>1 DEF TaskOk, SetupCalls
<1>16. Weight(nodes', b, t0) = 1 /\ \A t \in Types \ {t0} : Weight(nodes', b, t) = 0
  <2>1. TypeIn(nodes', Node) = t0
    BY <1>4 DEF TypeIn
  <2>2. QED
    BY <1>13, <2>1 DEF Weight
<1>17. PICK v : v = <<b>> \o Rest
  OBVIOUS
<1>18. /\ WorkOk(nodes', "setup", v) /\ Avoids(nodes', v, {Len(nodes) + 2})
       /\ \A t, d : Counts(nodes', Rest, t, d) => Counts(nodes', v, t, d + Weight(nodes', b, t))
  <2>1. {Len(nodes) + 1} \cap {Len(nodes) + 2} = {}
    BY <1>4
  <2>2. QED
    BY <1>1, <1>6, <1>11, <1>14, <1>15, <1>17, <2>1, CallOk
<1>19. \A t \in Types : Depth(fm', t) \in Nat /\ Counts(nodes', v, t, Depth(fm', t))
  <2>1. \A t \in Types : Depth(fm', t) = Depth(fm, t) + Weight(nodes', b, t)
                         /\ Depth(fm', t) \in Nat
    BY <1>6, <1>9, <1>16
  <2>2. QED
    BY <1>8, <1>18, <2>1
<1>20. work' = <<Task("setup", Len(nodes) + 2, NoSpill, 0)>> \o v
  <2>1. PICK a \in TaskRecord : a = Task("setup", Len(nodes) + 2, NoSpill, 0)
    <3>1. "setup" \in SetupCalls \cup PrepareCalls /\ NoSpill \in Int /\ 0 \in Int
      BY DEF SetupCalls, NoSpill
    <3>2. Len(nodes) + 2 \in Nat
      BY <1>4
    <3>3. QED
      BY <3>1, <3>2, TaskIs
  <2>2. Rest \in Seq(TaskRecord)
    BY NowDoing DEF SetupTwoOperands
  <2>3. <<a, b>> \o Rest = <<a>> \o (<<b>> \o Rest)
    <3>1. a \in TaskRecord /\ b \in TaskRecord
      BY <1>13, <2>1
    <3>2. QED
      BY <2>2, <3>1, TwoCalls
  <2>4. QED
    BY <1>2, <1>12, <1>17, <2>1, <2>3, Zenon
<1>21. /\ WorkOk(nodes', "setup", work')
       /\ \A t, d : d \in Nat /\ Counts(nodes', v, t, d) => Counts(nodes', work', t, d)
  BY <1>4, <1>10, <1>18, <1>20, VisitOk
<1>22. \A t \in Types : Counts(nodes', work', t, Depth(fm', t))
  BY <1>19, <1>21
<1>23. QED
  BY <1>1, <1>2, <1>4, <1>9, <1>10, <1>21, <1>22, StepOk

LEMMA SetupLeftOk ==
    ASSUME WalkInvariant, SetupLeft
    PROVE  WalkInvariant'
<1>1. /\ work # <<>> /\ work[1].call = "setupLeft" /\ TaskOk(nodes, phase, work[1])
      /\ Node \in 1 .. Len(nodes) /\ phase = "setup" /\ Len(nodes) \in Nat
  BY NowDoing DEF SetupLeft, SetupCalls
<1>2. PICK t0 : t0 = OperandType(Node)
  OBVIOUS
<1>3. PICK v \in {0, 1} : nodes' = [nodes EXCEPT ![Node].spill = v]
  BY DEF SetupLeft
<1>4. /\ fm' = PopTemp(fm, t0)
      /\ work' = <<Task("setup", Args(nodes, Node)[1], NoSpill, 0)>> \o Rest
      /\ UNCHANGED <<stmts, phase, at, locals, code>>
  BY <1>2 DEF SetupLeft, Args
<1>5. /\ NodesOk(nodes') /\ Grown(nodes, nodes', {}) /\ Len(nodes') = Len(nodes)
      /\ \A m \in 1 .. Len(nodes) : nodes'[m].op = nodes[m].op
  <2>1. NodesOk(nodes) /\ v \in Nat
    BY DEF WalkInvariant
  <2>2. NodesOk(nodes') /\ Grown(nodes, nodes', {}) /\ Len(nodes') = Len(nodes)
    <3>1. Node \in 1 .. Len(nodes)
      BY <1>1
    <3>2. QED
      BY <1>3, <2>1, <3>1, NodeRecorded
  <2>3. QED
    BY <2>2 DEF Grown
<1>6. PICK m : m = Args(nodes, Node)[1]
  OBVIOUS
<1>7. Await(nodes, work[1]) = {m}
  BY <1>1, <1>6, AwaitIs DEF Node
<1>8. m \in Unseen(nodes) /\ m \in Unseen(nodes')
  <2>1. m \in Unseen(nodes)
    BY <1>1, <1>7 DEF TaskOk
  <2>2. QED
    BY <1>5, <2>1 DEF Unseen
<1>9. t0 = TypeIn(nodes, Node) /\ t0 \in Types
  <2>1. t0 = nodes[m].type
    BY <1>2, <1>6 DEF OperandType, Args
  <2>2. nodes[m] \in NodeRecord
    BY <1>8, ElementOfSeq DEF Unseen, WalkInvariant, NodesOk
  <2>3. QED
    BY <1>6, <2>1, <2>2 DEF TypeIn, NodeRecord
<1>10. Weight(nodes, work[1], t0) = 1 /\ \A t \in Types \ {t0} : Weight(nodes, work[1], t) = 0
  BY <1>1, <1>9 DEF Weight, Node
<1>11. /\ WorkOk(nodes', phase, Rest) /\ Avoids(nodes', Rest, {m})
       /\ \A t \in Types :
            /\ Depth(fm, t) \in Nat /\ Weight(nodes, work[1], t) <= Depth(fm, t)
            /\ Counts(nodes', Rest, t, Depth(fm, t) - Weight(nodes, work[1], t))
  <2>1. {} \subseteq Await(nodes, work[1])
    OBVIOUS
  <2>2. QED
    BY <1>1, <1>5, <1>7, <2>1, Returned
<1>12. /\ Keeps(fm, fm') /\ Depth(fm', t0) = Depth(fm, t0) - 1
       /\ \A t \in Types \ {t0} : Depth(fm', t) = Depth(fm, t)
  <2>1. Good(fm) /\ Depth(fm, t0) > 0
    BY <1>9, <1>10, <1>11 DEF WalkInvariant
  <2>2. QED
    BY <1>4, <1>9, <2>1, PopTempKeeps
<1>13. \A t \in Types : Depth(fm', t) \in Nat /\ Counts(nodes', Rest, t, Depth(fm', t))
  <2>1. \A t \in Types : /\ Depth(fm', t) = Depth(fm, t) - Weight(nodes, work[1], t)
                         /\ Depth(fm', t) \in Nat
    <3>1. Depth(fm', t0) = Depth(fm, t0) - Weight(nodes, work[1], t0) /\ Depth(fm', t0) \in Nat
      BY <1>9, <1>10, <1>11, <1>12
    <3>2. \A t \in Types \ {t0} : /\ Depth(fm', t) = Depth(fm, t) - Weight(nodes, work[1], t)
                                  /\ Depth(fm', t) \in Nat
      BY <1>10, <1>11, <1>12
    <3>3. QED
      BY <3>1, <3>2
  <2>2. QED
    BY <1>11, <2>1
<1>14. /\ WorkOk(nodes', "setup", work')
       /\ \A t, d : d \in Nat /\ Counts(nodes', Rest, t, d) => Counts(nodes', work', t, d)
  BY <1>1, <1>4, <1>5, <1>6, <1>8, <1>11, VisitOk
<1>15. \A t \in Types : Counts(nodes', work', t, Depth(fm', t))
  BY <1>13, <1>14
<1>16. Len(nodes) <= Len(nodes')
  BY <1>1, <1>5
<1>17. QED
  BY <1>1, <1>4, <1>5, <1>12, <1>14, <1>15, <1>16, StepOk

\* A call spills the temporaries and keeps the callee's frame address in one.
LEMMA CallPushes ==
    ASSUME NEW f, Good(f), NEW owner \in Nat
    PROVE  LET g == PushTemp(ForceSpillAll(f), "i", owner, FALSE)
           IN  /\ Keeps(f, g) /\ Depth(g, "i") = Depth(f, "i") + 1
               /\ \A t \in Types \ {"i"} : Depth(g, t) = Depth(f, t)
<1>1. PICK h : h = ForceSpillAll(f)
  OBVIOUS
<1>2. Keeps(f, h) /\ SameDepths(f, h)
  BY <1>1, ForceSpillAllKeeps
<1>3. PICK g : g = PushTemp(h, "i", owner, FALSE)
  OBVIOUS
<1>4. /\ Keeps(h, g) /\ Depth(g, "i") = Depth(h, "i") + 1
      /\ \A t \in Types \ {"i"} : Depth(g, t) = Depth(h, t)
  <2>1. Good(h) /\ "i" \in Types /\ FALSE \in BOOLEAN
    BY <1>2 DEF Keeps, Types
  <2>2. QED
    BY <1>3, <2>1, PushTempKeeps, Zenon
<1>5. Keeps(f, g)
  BY <1>2, <1>4 DEF Keeps
<1>6. "i" \in Types
  BY DEF Types
<1>7. QED
  BY <1>1, <1>2, <1>3, <1>4, <1>5, <1>6 DEF SameDepths

LEMMA SetupCallOk ==
    ASSUME WalkInvariant, SetupCall
    PROVE  WalkInvariant'
<1>1. /\ work # <<>> /\ work[1].call = "setup" /\ TaskOk(nodes, phase, work[1])
      /\ Node \in 1 .. Len(nodes) /\ phase = "setup" /\ Node \in Nat
  BY NowDoing DEF SetupCall, SetupCalls
<1>2. /\ fm' = PushTemp(ForceSpillAll(fm), "i", Node, FALSE)
      /\ work' = <<Task("setupParam", Node, NoSpill, 1)>> \o Rest
      /\ UNCHANGED <<stmts, phase, at, locals, code>>
  BY DEF SetupCall
<1>3. PICK types \in Seq(Types) : Grow(Node, "call", types)
  <2>1. PICK n \in 0 .. MaxParams : \E types \in [1 .. n -> Types] : Grow(Node, "call", types)
    BY DEF SetupCall
  <2>2. n \in Nat
    BY FrameAssumption
  <2>3. PICK types \in [1 .. n -> Types] : Grow(Node, "call", types)
    BY <2>1
  <2>4. types \in Seq(Types)
    BY <2>2, IsSeq
  <2>5. QED
    BY <2>3, <2>4
<1>4. /\ NodesOk(nodes') /\ Grown(nodes, nodes', {Node})
      /\ Len(nodes) \in Nat /\ Len(types) \in Nat
      /\ Len(nodes') = Len(nodes) + Len(types)
      /\ nodes'[Node].op = "call" /\ Len(Args(nodes', Node)) = Len(types)
      /\ \A m \in 1 .. Len(nodes) : nodes'[m].spill = nodes[m].spill
      /\ \A k \in 1 .. Len(types) :
            /\ Args(nodes', Node)[k] = Len(nodes) + k
            /\ Len(nodes) + k \in Unseen(nodes')
            /\ nodes'[Len(nodes) + k].type = types[k]
            /\ nodes'[Len(nodes) + k].spill = 0
  <2>1. NodesOk(nodes) /\ "call" \in NodeOps
    BY DEF WalkInvariant, NodeOps
  <2>2. "call" \notin {"part", "cast"} /\ "call" \notin {"arith", "cmp"}
    OBVIOUS
  <2>3. QED
    BY <1>1, <1>3, <2>1, <2>2, GrowOk
<1>5. Await(nodes, work[1]) = {Node}
  BY <1>1, AwaitIs DEF Node
<1>6. /\ WorkOk(nodes', phase, Rest)
      /\ \A m : (m \notin 1 .. Len(nodes)) => Avoids(nodes', Rest, {m})
      /\ \A t \in Types :
            /\ Depth(fm, t) \in Nat /\ Weight(nodes, work[1], t) <= Depth(fm, t)
            /\ Counts(nodes', Rest, t, Depth(fm, t) - Weight(nodes, work[1], t))
  BY <1>1, <1>4, <1>5, Returned
<1>7. \A t : Weight(nodes, work[1], t) = 0
  BY <1>1, Weightless
<1>8. \A t \in Types : Counts(nodes', Rest, t, Depth(fm, t))
  <2>1. \A t \in Types : Depth(fm, t) - Weight(nodes, work[1], t) = Depth(fm, t)
    BY <1>6, <1>7
  <2>2. QED
    BY <1>6, <2>1
<1>9. /\ Keeps(fm, fm') /\ Depth(fm', "i") = Depth(fm, "i") + 1
      /\ \A t \in Types \ {"i"} : Depth(fm', t) = Depth(fm, t)
  BY <1>1, <1>2, CallPushes DEF WalkInvariant
<1>10. PICK b : b = Task("setupParam", Node, NoSpill, 1)
  OBVIOUS
<1>11. b \in TaskRecord /\ b.call = "setupParam" /\ b.n = Node /\ b.k = 1
  <2>1. "setupParam" \in SetupCalls \cup PrepareCalls /\ NoSpill \in Int /\ 1 \in Int
    BY DEF SetupCalls, NoSpill
  <2>2. QED
    BY <1>1, <1>10, <2>1, TaskIs
<1>12. \A m \in Await(nodes', b) : m \in Unseen(nodes') /\ m \notin 1 .. Len(nodes)
  <2>1. ASSUME NEW m \in Await(nodes', b)
        PROVE  m \in Unseen(nodes') /\ m \notin 1 .. Len(nodes)
    <3>1. PICK k \in 1 .. Len(types) : m = Args(nodes', Node)[k]
      BY <1>4, <1>11, <2>1 DEF Await
    <3>2. m = Len(nodes) + k /\ m \in Unseen(nodes')
      BY <1>4, <3>1
    <3>3. QED
      BY <1>4, <3>2
  <2>2. QED
    BY <2>1
<1>13. Avoids(nodes', Rest, Await(nodes', b))
  BY <1>6, <1>12, AvoidsMore
<1>14. TaskOk(nodes', "setup", b)
  <2>1. Node \in 1 .. Len(nodes')
    BY <1>1, <1>4
  <2>2. Await(nodes', b) \subseteq Unseen(nodes')
    BY <1>12
  <2>3. QED
    BY <1>4, <1>11, <2>1, <2>2 DEF TaskOk, SetupCalls
<1>15. Weight(nodes', b, "i") = 1 /\ \A t \in Types \ {"i"} : Weight(nodes', b, t) = 0
  BY <1>11 DEF Weight
<1>16. /\ WorkOk(nodes', "setup", work')
       /\ \A t, d : Counts(nodes', Rest, t, d) => Counts(nodes', work', t, d + Weight(nodes', b, t))
  BY <1>1, <1>2, <1>6, <1>10, <1>13, <1>14, CallOk
<1>17. \A t \in Types : Counts(nodes', work', t, Depth(fm', t))
  <2>1. \A t \in Types : Depth(fm', t) = Depth(fm, t) + Weight(nodes', b, t)
    BY <1>6, <1>9, <1>15
  <2>2. QED
    BY <1>8, <1>16, <2>1
<1>18. Len(nodes) <= Len(nodes')
  BY <1>4
<1>19. QED
  BY <1>1, <1>2, <1>4, <1>9, <1>16, <1>17, <1>18, StepOk

LEMMA SetupParamOk ==
    ASSUME WalkInvariant, SetupParam
    PROVE  WalkInvariant'
<1>1. /\ work # <<>> /\ work[1].call = "setupParam" /\ TaskOk(nodes, phase, work[1])
      /\ Node \in 1 .. Len(nodes) /\ phase = "setup" /\ Len(nodes) \in Nat /\ Node \in Nat
      /\ work[1].k \in Int /\ Rest \in Seq(TaskRecord)
  BY NowDoing DEF SetupParam, SetupCalls
<1>2. PICK k \in Nat \ {0} : k = work[1].k
  BY <1>1 DEF TaskOk
<1>3. UNCHANGED <<stmts, phase, at, locals, code>>
  BY DEF SetupParam
<1>4. PICK moved \in BOOLEAN :
         nodes' = IF moved THEN [nodes EXCEPT ![Node].spill = k - 1] ELSE nodes
  <2>1. PICK moved : /\ moved = (k > 1 /\ nodes[Node].spill = 0 /\ PeekTopTemp(fm, "i") # NoSpill)
                     /\ nodes' = IF moved THEN [nodes EXCEPT ![Node].spill = k - 1] ELSE nodes
    BY <1>2 DEF SetupParam
  <2>2. moved \in BOOLEAN
    BY <2>1
  <2>3. QED
    BY <2>1, <2>2
<1>5. /\ NodesOk(nodes') /\ Grown(nodes, nodes', {}) /\ Len(nodes') = Len(nodes)
      /\ Args(nodes', Node) = Args(nodes, Node) /\ nodes'[Node].op = nodes[Node].op
  <2>1. NodesOk(nodes) /\ k - 1 \in Nat
    BY DEF WalkInvariant
  <2>2. CASE moved
    <3>1. PICK v \in Nat : v = k - 1
      BY <2>1
    <3>2. nodes' = [nodes EXCEPT ![Node].spill = v]
      BY <1>4, <2>2, <3>1
    <3>3. Node \in 1 .. Len(nodes) /\ NodesOk(nodes) /\ v \in Nat
      BY <1>1, <2>1, <3>1
    <3>4. NodesOk(nodes') /\ Grown(nodes, nodes', {}) /\ Len(nodes') = Len(nodes)
      BY <3>2, <3>3, NodeRecorded
    <3>5. QED
      BY <3>3, <3>4 DEF Grown, Args
  <2>3. CASE ~moved
    <3>1. nodes' = nodes
      BY <1>4, <2>3
    <3>2. Grown(nodes, nodes, {})
      BY <1>1, <2>1 DEF Grown, NodesOk
    <3>3. QED
      BY <2>1, <3>1, <3>2
  <2>4. QED
    BY <2>2, <2>3
<1>6. \A m \in 1 .. Len(nodes) : nodes'[m].op = nodes[m].op
  BY <1>5 DEF Grown
<1>7. PICK args : args = Args(nodes, Node)
  OBVIOUS
<1>8. PICK l \in Nat : l = Len(args)
  <2>1. nodes[Node] \in NodeRecord
    BY <1>1, ElementOfSeq DEF WalkInvariant, NodesOk
  <2>2. args \in Seq(Nat)
    BY <1>7, <2>1 DEF Args, NodeRecord
  <2>3. QED
    BY <2>2, LenProperties
<1>9. Await(nodes, work[1]) = {args[j] : j \in k .. l}
  BY <1>1, <1>2, <1>7, <1>8 DEF Await, Node
<1>10. \A i, j \in 1 .. l : i # j => args[i] # args[j]
  BY <1>1, <1>7, <1>8 DEF WalkInvariant, NodesOk
<1>11. Weight(nodes, work[1], "i") = 1 /\ \A t \in Types \ {"i"} : Weight(nodes, work[1], t) = 0
  BY <1>1 DEF Weight
<1>12. /\ WorkOk(nodes', phase, Rest) /\ Avoids(nodes', Rest, Await(nodes, work[1]))
       /\ \A t \in Types :
            /\ Depth(fm, t) \in Nat /\ Weight(nodes, work[1], t) <= Depth(fm, t)
            /\ Counts(nodes', Rest, t, Depth(fm, t) - Weight(nodes, work[1], t))
  <2>1. {} \subseteq Await(nodes, work[1])
    OBVIOUS
  <2>2. QED
    BY <1>1, <1>5, <2>1, Returned
<1>13. "i" \in Types /\ Depth(fm, "i") > 0 /\ Good(fm)
  BY <1>11, <1>12 DEF Types, WalkInvariant
<1>14. Len(nodes) <= Len(nodes')
  BY <1>1, <1>5
<1>15. CASE k > l
  <2>1. fm' = PopTemp(fm, "i") /\ work' = Rest
    BY <1>2, <1>7, <1>8, <1>15 DEF SetupParam, Args
  <2>2. /\ Keeps(fm, fm') /\ Depth(fm', "i") = Depth(fm, "i") - 1
        /\ \A t \in Types \ {"i"} : Depth(fm', t) = Depth(fm, t)
    BY <1>13, <2>1, PopTempKeeps
  <2>3. \A t \in Types : Depth(fm', t) = Depth(fm, t) - Weight(nodes, work[1], t)
    BY <1>11, <1>12, <2>2
  <2>4. \A t \in Types : Counts(nodes', work', t, Depth(fm', t))
    BY <1>12, <2>1, <2>3
  <2>5. QED
    BY <1>3, <1>5, <1>12, <1>14, <2>1, <2>2, <2>4, StepOk
<1>16. CASE k <= l
  <2>1. PICK m : m = args[k]
    OBVIOUS
  <2>2. /\ fm' = ReserveTemp(fm, nodes[m].type)
        /\ work' = <<Task("setup", m, NoSpill, 0),
                     Task("setupParam", Node, NoSpill, k + 1)>> \o Rest
    BY <1>2, <1>7, <1>8, <1>16, <2>1 DEF SetupParam, Args
  <2>3. m \in Await(nodes, work[1])
    BY <1>9, <1>16, <2>1
  <2>4. m \in Unseen(nodes) /\ m \in Unseen(nodes')
    <3>1. m \in Unseen(nodes)
      BY <1>1, <2>3 DEF TaskOk
    <3>2. QED
      BY <1>5, <1>6, <3>1 DEF Unseen
  <2>5. nodes[m].type \in Types
    <3>1. nodes[m] \in NodeRecord
      BY <2>4, ElementOfSeq DEF Unseen, WalkInvariant, NodesOk
    <3>2. QED
      BY <3>1 DEF NodeRecord
  <2>6. Keeps(fm, fm') /\ \A t \in Types : Depth(fm', t) = Depth(fm, t)
    BY <1>13, <2>2, <2>5, ReserveTempKeeps DEF SameDepths
  <2>7. PICK b : b = Task("setupParam", Node, NoSpill, k + 1)
    OBVIOUS
  <2>8. b \in TaskRecord /\ b.call = "setupParam" /\ b.n = Node /\ b.k = k + 1
    <3>1. "setupParam" \in SetupCalls \cup PrepareCalls /\ NoSpill \in Int /\ k + 1 \in Int
      BY DEF SetupCalls, NoSpill
    <3>2. QED
      BY <1>1, <2>7, <3>1, TaskIs
  <2>9. Await(nodes', b) = {args[j] : j \in (k + 1) .. l}
    BY <1>5, <1>7, <1>8, <2>8 DEF Await
  <2>10. Await(nodes', b) \subseteq Await(nodes, work[1])
    <3>1. \A j \in (k + 1) .. l : j \in k .. l
      OBVIOUS
    <3>2. QED
      BY <1>9, <2>9, <3>1
  <2>11. m \notin Await(nodes', b)
    <3>1. \A j \in (k + 1) .. l : j \in 1 .. l /\ k \in 1 .. l /\ j # k
      OBVIOUS
    <3>2. QED
      BY <1>10, <2>1, <2>9, <3>1
  <2>12. Avoids(nodes', Rest, Await(nodes', b)) /\ Avoids(nodes', Rest, {m})
    BY <1>12, <2>3, <2>10, AvoidsMore
  <2>13. TaskOk(nodes', "setup", b)
    <3>1. Await(nodes, work[1]) \subseteq Unseen(nodes) /\ nodes[Node].op = "call"
      BY <1>1 DEF TaskOk, Node
    <3>2. Unseen(nodes) \subseteq Unseen(nodes')
      BY <1>5, <1>6 DEF Unseen
    <3>3. Await(nodes', b) \subseteq Unseen(nodes') /\ Node \in 1 .. Len(nodes')
      BY <1>1, <1>5, <2>10, <3>1, <3>2
    <3>4. k + 1 > 0
      OBVIOUS
    <3>5. QED
      BY <1>5, <2>8, <3>1, <3>3, <3>4 DEF TaskOk, SetupCalls
  <2>14. PICK v : v = <<b>> \o Rest
    OBVIOUS
  <2>15. /\ WorkOk(nodes', "setup", v) /\ Avoids(nodes', v, {m})
         /\ \A t, d : Counts(nodes', Rest, t, d) => Counts(nodes', v, t, d + Weight(nodes', b, t))
    <3>1. Await(nodes', b) \cap {m} = {}
      BY <2>11
    <3>2. QED
      BY <1>1, <1>12, <2>12, <2>13, <2>14, <3>1, CallOk
  <2>16. \A t \in Types : Depth(fm', t) \in Nat /\ Counts(nodes', v, t, Depth(fm', t))
    <3>1. Weight(nodes', b, "i") = 1 /\ \A t \in Types \ {"i"} : Weight(nodes', b, t) = 0
      BY <2>8 DEF Weight
    <3>2. \A t \in Types : Weight(nodes', b, t) = Weight(nodes, work[1], t)
                           /\ Weight(nodes, work[1], t) \in {0, 1}
      BY <1>11, <3>1
    <3>3. \A t \in Types :
             (Depth(fm, t) - Weight(nodes, work[1], t)) + Weight(nodes', b, t) = Depth(fm', t)
      BY <1>12, <2>6, <3>2
    <3>4. ASSUME NEW t \in Types PROVE Counts(nodes', v, t, Depth(fm', t))
      <4>1. Counts(nodes', v, t, (Depth(fm, t) - Weight(nodes, work[1], t)) + Weight(nodes', b, t))
        BY <1>12, <2>15
      <4>2. QED
        BY <3>3, <4>1
    <3>5. QED
      BY <1>12, <2>6, <3>4
  <2>17. work' = <<Task("setup", m, NoSpill, 0)>> \o v
    <3>1. PICK a \in TaskRecord : a = Task("setup", m, NoSpill, 0)
      <4>1. "setup" \in SetupCalls \cup PrepareCalls /\ NoSpill \in Int /\ 0 \in Int
        BY DEF SetupCalls, NoSpill
      <4>2. m \in Nat
        BY <2>4 DEF Unseen
      <4>3. QED
        BY <4>1, <4>2, TaskIs
    <3>2. <<a, b>> \o Rest = <<a>> \o (<<b>> \o Rest)
      <4>1. a \in TaskRecord /\ b \in TaskRecord /\ Rest \in Seq(TaskRecord)
        BY <1>1, <2>8, <3>1
      <4>2. QED
        BY <4>1, TwoCalls
    <3>3. QED
      BY <2>2, <2>7, <2>14, <3>1, <3>2, Zenon
  <2>18. /\ WorkOk(nodes', "setup", work')
         /\ \A t, d : d \in Nat /\ Counts(nodes', v, t, d) => Counts(nodes', work', t, d)
    BY <1>1, <1>5, <2>4, <2>15, <2>17, VisitOk
  <2>19. \A t \in Types : Counts(nodes', work', t, Depth(fm', t))
    BY <2>16, <2>18
  <2>20. QED
    BY <1>1, <1>3, <1>5, <1>14, <2>6, <2>18, <2>19, StepOk
<1>17. QED
  BY <1>15, <1>16

LEMMA NoWork ==
    ASSUME NEW ns, NEW p
    PROVE  /\ WorkOk(ns, p, <<>>) /\ \A S : Avoids(ns, <<>>, S)
           /\ \A t : Counts(ns, <<>>, t, 0)
           /\ \A t, d : Counts(ns, <<>>, t, d) => d = 0
<1>1. <<>> \in Seq(TaskRecord) /\ Len(<<>>) = 0 /\ 1 .. 0 = {}
  BY EmptySeq
<1>2. WorkOk(ns, p, <<>>)
  BY <1>1 DEF WorkOk
<1>3. \A S : Avoids(ns, <<>>, S)
  BY <1>1 DEF Avoids
<1>4. \A t : Counts(ns, <<>>, t, 0)
  <2>1. PICK h : h = [i \in 1 .. 1 |-> 0]
    OBVIOUS
  <2>2. h \in [1 .. 1 -> Nat] /\ h[1] = 0
    BY <2>1
  <2>3. PICK w : w = <<>> /\ Len(w) = 0
    BY <1>1
  <2>4. \A t : Heights(ns, w, t, h)
    BY <1>1, <2>2, <2>3 DEF Heights
  <2>5. QED
    BY <2>2, <2>3, <2>4 DEF Counts
<1>5. \A t, d : Counts(ns, <<>>, t, d) => d = 0
  BY <1>1 DEF Counts, Heights
<1>6. QED
  BY <1>2, <1>3, <1>4, <1>5

\* Between statements the operand stacks are empty.
LEMMA IdleIsEmpty ==
    ASSUME WalkInvariant, work = <<>>
    PROVE  \A t \in Types : Depth(fm, t) = 0
  BY NoWork DEF WalkInvariant

LEMMA OneCall ==
    ASSUME NEW x \in TaskRecord
    PROVE  <<x>> \o <<>> = <<x>>
<1>1. <<x>> \in Seq(TaskRecord)
  OBVIOUS
<1>2. QED
  BY <1>1, ConcatEmptySeq

LEMMA SetupStatementOk ==
    ASSUME WalkInvariant, SetupStatement
    PROVE  WalkInvariant'
<1>1. phase = "setup" /\ work = <<>> /\ UNCHANGED <<phase, at, locals, code>>
  BY DEF SetupStatement
<1>2. PICK t0 \in Types, size \in Nat \ {0} :
         /\ nodes' = Append(nodes, Fresh(t0))
         /\ stmts' = Append(stmts, [root |-> Len(nodes) + 1, size |-> size])
         /\ fm' = ReserveTemp(fm, t0)
         /\ work' = <<Task("setup", Len(nodes) + 1, NoSpill, 0)>>
  <2>1. \A t \in Types : \A size \in Sizes[t] : size \in Nat \ {0}
    BY FrameAssumption
  <2>2. QED
    BY <2>1 DEF SetupStatement
<1>3. size \in Nat \ {0}
  OBVIOUS
<1>4. PICK l \in Nat : l = Len(nodes)
  BY LenProperties DEF WalkInvariant, NodesOk
<1>5. /\ nodes' \in Seq(NodeRecord) /\ Len(nodes') = l + 1
      /\ \A m \in 1 .. l : nodes'[m] = nodes[m]
      /\ nodes'[l + 1] = Fresh(t0)
  <2>1. PICK ns \in Seq(NodeRecord) : ns = nodes
    BY DEF WalkInvariant, NodesOk
  <2>2. <<>> \in Seq(Nat)
    BY EmptySeq
  <2>3. Fresh(t0) \in NodeRecord
    BY <2>2 DEF Fresh, NodeRecord, NodeOps
  <2>4. PICK r \in NodeRecord : r = Fresh(t0)
    BY <2>3
  <2>5. PICK z : z = Append(ns, r)
    OBVIOUS
  <2>6. /\ z \in Seq(NodeRecord) /\ Len(z) = l + 1 /\ z[l + 1] = r
        /\ \A m \in 1 .. l : z[m] = ns[m]
    BY <1>4, <2>1, <2>5, AppendProperties
  <2>7. QED
    BY <1>2, <2>1, <2>4, <2>5, <2>6
<1>6. nodes'[l + 1].op = "none" /\ Len(Args(nodes', l + 1)) = 0
  <2>1. Fresh(t0).op = "none" /\ Fresh(t0).args = <<>>
    BY DEF Fresh
  <2>2. QED
    BY <1>5, <2>1, EmptySeq DEF Args
<1>7. NodesOk(nodes')
  <2>1. \A m \in 1 .. (l + 1) : m \in 1 .. l \/ m = l + 1
    OBVIOUS
  <2> DEFINE Ok(k) == /\ \A j \in 1 .. Len(Args(nodes', k)) : Args(nodes', k)[j] \in 1 .. (l + 1)
                      /\ \A i, j \in 1 .. Len(Args(nodes', k)) :
                            i # j => Args(nodes', k)[i] # Args(nodes', k)[j]
                      /\ nodes'[k].op \in {"part", "cast"} => Len(Args(nodes', k)) = 1
                      /\ nodes'[k].op \in {"arith", "cmp"} => Len(Args(nodes', k)) = 2
  <2>2. ASSUME NEW k \in 1 .. l PROVE Ok(k)
    <3>1. nodes'[k] = nodes[k] /\ Args(nodes', k) = Args(nodes, k)
      BY <1>5 DEF Args
    <3>2. \A j \in 1 .. l : j \in 1 .. (l + 1)
      OBVIOUS
    <3>3. \A j \in 1 .. Len(Args(nodes, k)) : Args(nodes, k)[j] \in 1 .. l
      BY <1>4 DEF NodesOk, WalkInvariant
    <3>4. /\ \A i, j \in 1 .. Len(Args(nodes, k)) :
                i # j => Args(nodes, k)[i] # Args(nodes, k)[j]
          /\ nodes[k].op \in {"part", "cast"} => Len(Args(nodes, k)) = 1
          /\ nodes[k].op \in {"arith", "cmp"} => Len(Args(nodes, k)) = 2
      BY <1>4 DEF NodesOk, WalkInvariant
    <3>5. QED
      BY <3>1, <3>2, <3>3, <3>4
  <2>3. Ok(l + 1)
    <3>1. 1 .. 0 = {}
      OBVIOUS
    <3>2. QED
      BY <1>6, <3>1
  <2> HIDE DEF Ok
  <2>4. \A k \in 1 .. (l + 1) : Ok(k)
    BY <2>1, <2>2, <2>3
  <2> USE DEF Ok
  <2>5. QED
    BY <1>5, <2>4 DEF NodesOk
<1>8. l + 1 \in Unseen(nodes')
  BY <1>5, <1>6 DEF Unseen
<1>9. Keeps(fm, fm') /\ \A t \in Types : Depth(fm', t) = 0
  <2>1. Good(fm)
    BY DEF WalkInvariant
  <2>2. Keeps(fm, fm') /\ SameDepths(fm, fm')
    BY <1>2, <2>1, ReserveTempKeeps
  <2>3. QED
    BY <1>1, <2>2, IdleIsEmpty DEF SameDepths
<1>10. /\ WorkOk(nodes', "setup", work')
       /\ \A t \in Types : Counts(nodes', work', t, Depth(fm', t))
  <2>1. /\ WorkOk(nodes', "setup", <<>>) /\ Avoids(nodes', <<>>, {l + 1})
        /\ \A t : Counts(nodes', <<>>, t, 0)
    BY NoWork
  <2>2. PICK x \in TaskRecord : x = Task("setup", l + 1, NoSpill, 0)
    <3>1. "setup" \in SetupCalls \cup PrepareCalls /\ NoSpill \in Int /\ 0 \in Int
      BY DEF SetupCalls, NoSpill
    <3>2. l + 1 \in Nat
      OBVIOUS
    <3>3. QED
      BY <3>1, <3>2, TaskIs
  <2>3. work' = <<x>> \o <<>>
    BY <1>2, <1>4, <2>2, OneCall
  <2>4. Len(nodes') \in Nat
    BY <1>5
  <2>5. /\ WorkOk(nodes', "setup", work')
        /\ \A t, d : d \in Nat /\ Counts(nodes', <<>>, t, d) => Counts(nodes', work', t, d)
    BY <1>8, <2>1, <2>2, <2>3, <2>4, VisitOk
  <2>6. 0 \in Nat
    OBVIOUS
  <2>7. QED
    BY <1>9, <2>1, <2>5, <2>6
<1>11. stmts' \in Seq(Statement) /\ \A i \in 1 .. Len(stmts') : stmts'[i].root \in 1 .. Len(nodes')
  <2>1. PICK ss \in Seq(Statement) : ss = stmts
    BY DEF WalkInvariant
  <2>2. PICK s \in Statement : s = [root |-> l + 1, size |-> size] /\ s.root = l + 1
    <3>1. PICK s : s = [root |-> l + 1, size |-> size]
      OBVIOUS
    <3>2. s \in Statement /\ s.root = l + 1
      BY <1>3, <3>1 DEF Statement
    <3>3. QED
      BY <3>1, <3>2
  <2>3. PICK n \in Nat : n = Len(ss)
    BY LenProperties
  <2>4. PICK z : z = Append(ss, s)
    OBVIOUS
  <2>5. /\ z \in Seq(Statement) /\ Len(z) = n + 1 /\ z[n + 1] = s
        /\ \A i \in 1 .. n : z[i] = ss[i]
    BY <2>3, <2>4, AppendProperties
  <2>6. \A i \in 1 .. (n + 1) : i \in 1 .. n \/ i = n + 1
    OBVIOUS
  <2>7. \A i \in 1 .. n : ss[i].root \in 1 .. (l + 1)
    <3>1. \A i \in 1 .. n : ss[i].root \in 1 .. l
      BY <1>4, <2>1, <2>3 DEF WalkInvariant
    <3>2. \A j \in 1 .. l : j \in 1 .. (l + 1)
      OBVIOUS
    <3>3. QED
      BY <3>1, <3>2
  <2>8. l + 1 \in 1 .. (l + 1)
    OBVIOUS
  <2>9. \A i \in 1 .. (n + 1) : z[i].root \in 1 .. (l + 1)
    BY <2>2, <2>5, <2>6, <2>7, <2>8
  <2>10. z = stmts'
    BY <1>2, <1>4, <2>1, <2>2, <2>4
  <2>11. QED
    BY <1>5, <2>5, <2>9, <2>10
<1>12. VariablesOk(fm'.old, fm'.base, locals')
  BY <1>1, <1>9 DEF WalkInvariant, Keeps
<1>13. phase' = "setup" /\ at' \in Nat /\ Good(fm')
  BY <1>1, <1>9 DEF WalkInvariant, Keeps
<1>14. QED
  BY <1>7, <1>10, <1>11, <1>12, <1>13 DEF WalkInvariant

\* A call of the second walk returns: it visited nothing.
LEMMA PrepareReturns ==
    ASSUME WalkInvariant, NEW c \in PrepareCalls, Doing(c)
    PROVE  /\ WorkOk(nodes, phase, Rest)
           /\ \A t \in Types :
                 /\ Depth(fm, t) \in Nat /\ Weight(nodes, work[1], t) <= Depth(fm, t)
                 /\ Counts(nodes, Rest, t, Depth(fm, t) - Weight(nodes, work[1], t))
<1>1. work # <<>>
  BY NowDoing
<1>2. Grown(nodes, nodes, {})
  <2>1. nodes \in Seq(NodeRecord) /\ Len(nodes) \in Nat
    BY LenProperties DEF WalkInvariant, NodesOk
  <2>2. QED
    BY <2>1 DEF Grown
<1>3. {} \subseteq Await(nodes, work[1])
  OBVIOUS
<1>4. QED
  BY <1>1, <1>2, <1>3, Returned

\* A call of the second walk makes another.
LEMMA PrepareCallMade ==
    ASSUME NEW w, phase # "setup", WorkOk(nodes, phase, w), Len(nodes) \in Nat,
           NEW call \in PrepareCalls, NEW n \in 1 .. Len(nodes), NEW loc \in Int, NEW k \in Int,
           call = "left" => nodes[n].op \in {"arith", "cmp"},
           call \in {"param", "store"} => nodes[n].op = "call" /\ k > 0
    PROVE  LET x == Task(call, n, loc, k)
           IN  /\ x \in TaskRecord /\ x.call = call /\ x.n = n
               /\ WorkOk(nodes, phase, <<x>> \o w)
               /\ \A t, d : Counts(nodes, w, t, d)
                               => Counts(nodes, <<x>> \o w, t, d + Weight(nodes, x, t))
<1>1. PICK x : x = Task(call, n, loc, k)
  OBVIOUS
<1>2. n \in Nat
  OBVIOUS
<1>3. x \in TaskRecord /\ x.call = call /\ x.n = n /\ x.k = k
  BY <1>1, <1>2, TaskIs
<1>4. Await(nodes, x) = {}
  BY <1>3, AwaitIs
<1>5. "setupLeft" # call /\ "setupParam" # call
  BY DEF PrepareCalls
<1>6. TaskOk(nodes, phase, x)
  BY <1>3, <1>4, <1>5 DEF TaskOk
<1>7. Avoids(nodes, w, Await(nodes, x))
  BY <1>4 DEF Avoids
<1>8. /\ WorkOk(nodes, phase, <<x>> \o w)
      /\ \A t, d : Counts(nodes, w, t, d) => Counts(nodes, <<x>> \o w, t, d + Weight(nodes, x, t))
  BY <1>6, <1>7, CallOk
<1>9. QED
  BY <1>1, <1>3, <1>8

\* A call that leaves the frame alone is done.
LEMMA PlainReturnOk ==
    ASSUME WalkInvariant, NEW c \in {"prepare", "assign", "one", "two"}, Doing(c),
           work' = Rest, UNCHANGED <<fm, nodes, stmts, phase, at, locals>>
    PROVE  WalkInvariant'
<1>1. c \in PrepareCalls /\ c \notin {"setupLeft", "left", "setupParam", "param", "store"}
  BY DEF PrepareCalls
<1>2. /\ WorkOk(nodes, phase, Rest)
      /\ \A t \in Types :
            /\ Depth(fm, t) \in Nat /\ Weight(nodes, work[1], t) <= Depth(fm, t)
            /\ Counts(nodes, Rest, t, Depth(fm, t) - Weight(nodes, work[1], t))
  BY <1>1, PrepareReturns
<1>3. work[1].call = c /\ Len(nodes) \in Nat
  BY NowDoing
<1>4. \A t : Weight(nodes, work[1], t) = 0
  BY <1>1, <1>3, Weightless
<1>5. \A t \in Types : Counts(nodes, Rest, t, Depth(fm, t))
  <2>1. \A t \in Types : Depth(fm, t) - Weight(nodes, work[1], t) = Depth(fm, t)
    BY <1>2, <1>4
  <2>2. QED
    BY <1>2, <2>1
<1>6. /\ Keeps(fm, fm') /\ NodesOk(nodes') /\ Len(nodes) <= Len(nodes')
      /\ WorkOk(nodes', phase, work')
      /\ \A t \in Types : Counts(nodes', work', t, Depth(fm', t))
  BY <1>2, <1>3, <1>5, KeepsItself DEF WalkInvariant
<1>7. QED
  BY <1>6, StepOk

\* A step of the second walk leaves the nodes alone, too.
LEMMA PrepareStepOk ==
    ASSUME WalkInvariant, UNCHANGED <<nodes, stmts, phase, at, locals>>, Keeps(fm, fm'),
           WorkOk(nodes, phase, work'),
           \A t \in Types : Counts(nodes, work', t, Depth(fm', t))
    PROVE  WalkInvariant'
<1>1. /\ nodes' = nodes /\ stmts' = stmts /\ phase' = phase /\ at' = at
      /\ locals' = locals
  OBVIOUS
<1>2. NodesOk(nodes') /\ Len(nodes) \in Nat
  BY <1>1, LenProperties DEF WalkInvariant, NodesOk
<1>3. Len(nodes) <= Len(nodes')
  BY <1>1, <1>2
<1>4. /\ WorkOk(nodes', phase, work')
      /\ \A t \in Types : Counts(nodes', work', t, Depth(fm', t))
  BY <1>1
<1>5. QED
  BY <1>1, <1>2, <1>3, <1>4, StepOk

\* A call that holds nothing on the stacks.
LEMMA PlainCallMade ==
    ASSUME NEW w, phase # "setup", WorkOk(nodes, phase, w), Len(nodes) \in Nat,
           NEW call \in {"prepare", "assign", "one", "two"},
           NEW n \in 1 .. Len(nodes), NEW loc \in Int, NEW k \in Int
    PROVE  LET x == Task(call, n, loc, k)
           IN  /\ x \in TaskRecord /\ WorkOk(nodes, phase, <<x>> \o w)
               /\ \A t, d : d \in Nat /\ Counts(nodes, w, t, d) => Counts(nodes, <<x>> \o w, t, d)
<1>1. PICK x : x = Task(call, n, loc, k)
  OBVIOUS
<1>2. /\ call \in PrepareCalls /\ call \notin {"setupLeft", "left", "setupParam", "param", "store"}
  BY DEF PrepareCalls
<1>3. /\ x \in TaskRecord /\ x.call = call
      /\ WorkOk(nodes, phase, <<x>> \o w)
      /\ \A t, d : Counts(nodes, w, t, d) => Counts(nodes, <<x>> \o w, t, d + Weight(nodes, x, t))
  BY <1>1, <1>2, PrepareCallMade
<1>4. \A t : Weight(nodes, x, t) = 0
  BY <1>2, <1>3, Weightless
<1>5. ASSUME NEW t, NEW d \in Nat, Counts(nodes, w, t, d) PROVE Counts(nodes, <<x>> \o w, t, d)
  <2>1. d + Weight(nodes, x, t) = d
    BY <1>4
  <2>2. QED
    BY <1>3, <1>5, <2>1
<1>6. QED
  BY <1>1, <1>3, <1>5

LEMMA ArgOk ==
    ASSUME NodesOk(nodes), NEW n \in 1 .. Len(nodes), NEW j \in 1 .. Len(Args(nodes, n))
    PROVE  Args(nodes, n)[j] \in 1 .. Len(nodes) /\ nodes[Args(nodes, n)[j]].type \in Types
<1>1. Args(nodes, n)[j] \in 1 .. Len(nodes)
  BY DEF NodesOk
<1>2. nodes[Args(nodes, n)[j]] \in NodeRecord
  BY <1>1, ElementOfSeq DEF NodesOk
<1>3. QED
  BY <1>1, <1>2 DEF NodeRecord

LEMMA SidesOk ==
    ASSUME NodesOk(nodes), NEW n \in 1 .. Len(nodes), nodes[n].op \in {"arith", "cmp"}
    PROVE  /\ nodes[n].args[1] \in 1 .. Len(nodes) /\ nodes[n].args[2] \in 1 .. Len(nodes)
           /\ OperandType(n) = TypeIn(nodes, n) /\ OperandType(n) \in Types
<1>1. Len(Args(nodes, n)) = 2
  BY DEF NodesOk
<1>2. 1 \in 1 .. Len(Args(nodes, n)) /\ 2 \in 1 .. Len(Args(nodes, n))
  BY <1>1
<1>3. /\ Args(nodes, n)[1] \in 1 .. Len(nodes) /\ nodes[Args(nodes, n)[1]].type \in Types
      /\ Args(nodes, n)[2] \in 1 .. Len(nodes)
  BY <1>2, ArgOk
<1>4. QED
  BY <1>3 DEF Args, OperandType, TypeIn

LEMMA PrepareOneOperandOk ==
    ASSUME WalkInvariant, PrepareOneOperand
    PROVE  WalkInvariant'
<1>1. /\ work # <<>> /\ work[1].call = "prepare" /\ Node \in 1 .. Len(nodes)
      /\ phase # "setup" /\ Len(nodes) \in Nat /\ work[1].loc \in Int
      /\ Rest \in Seq(TaskRecord) /\ Doing("prepare") /\ NodesOk(nodes)
  BY NowDoing DEF PrepareOneOperand, PrepareCalls, WalkInvariant
<1>2. PICK m : m = Args(nodes, Node)[1]
  OBVIOUS
<1>3. /\ work' = <<Task("prepare", m, NoSpill, 0), Task("one", Node, work[1].loc, 0)>> \o Rest
      /\ UNCHANGED <<fm, nodes, stmts, phase, at, locals, code>>
      /\ nodes[Node].op \in {"part", "cast"}
  BY <1>2 DEF PrepareOneOperand, Args
<1>4. m \in 1 .. Len(nodes)
  <2>1. Len(Args(nodes, Node)) = 1
    BY <1>1, <1>3 DEF NodesOk
  <2>2. 1 \in 1 .. Len(Args(nodes, Node))
    BY <2>1
  <2>3. QED
    BY <1>1, <1>2, <2>2, ArgOk
<1>5. /\ WorkOk(nodes, phase, Rest)
      /\ \A t \in Types :
            /\ Depth(fm, t) \in Nat /\ Weight(nodes, work[1], t) <= Depth(fm, t)
            /\ Counts(nodes, Rest, t, Depth(fm, t) - Weight(nodes, work[1], t))
  BY <1>1, PrepareReturns DEF PrepareCalls
<1>6. \A t : Weight(nodes, work[1], t) = 0
  BY <1>1, Weightless
<1>7. \A t \in Types : Counts(nodes, Rest, t, Depth(fm, t))
  <2>1. \A t \in Types : Depth(fm, t) - Weight(nodes, work[1], t) = Depth(fm, t)
    BY <1>5, <1>6
  <2>2. QED
    BY <1>5, <2>1
<1>8. PICK b : b = Task("one", Node, work[1].loc, 0)
  OBVIOUS
<1>9. PICK v : v = <<b>> \o Rest
  OBVIOUS
<1>10. /\ b \in TaskRecord /\ WorkOk(nodes, phase, v)
       /\ \A t, d : d \in Nat /\ Counts(nodes, Rest, t, d) => Counts(nodes, v, t, d)
  <2>1. 0 \in Int /\ "one" \in {"prepare", "assign", "one", "two"}
    OBVIOUS
  <2>2. QED
    BY <1>1, <1>5, <1>8, <1>9, <2>1, PlainCallMade
<1>11. PICK a : a = Task("prepare", m, NoSpill, 0)
  OBVIOUS
<1>12. /\ a \in TaskRecord /\ WorkOk(nodes, phase, <<a>> \o v)
       /\ \A t, d : d \in Nat /\ Counts(nodes, v, t, d) => Counts(nodes, <<a>> \o v, t, d)
  <2>1. 0 \in Int /\ "prepare" \in {"prepare", "assign", "one", "two"} /\ NoSpill \in Int
    BY DEF NoSpill
  <2>2. QED
    BY <1>1, <1>4, <1>10, <1>11, <2>1, PlainCallMade
<1>13. work' = <<a>> \o v
  <2>1. a \in TaskRecord /\ b \in TaskRecord /\ Rest \in Seq(TaskRecord)
    BY <1>1, <1>10, <1>12
  <2>2. <<a, b>> \o Rest = <<a>> \o (<<b>> \o Rest)
    BY <2>1, TwoCalls
  <2>3. QED
    BY <1>3, <1>8, <1>9, <1>11, <2>2, Zenon
<1>14. \A t \in Types : Counts(nodes, work', t, Depth(fm, t))
  BY <1>5, <1>7, <1>10, <1>12, <1>13
<1>15. Keeps(fm, fm') /\ \A t \in Types : Depth(fm', t) = Depth(fm, t)
  BY <1>3, KeepsItself
<1>16. WorkOk(nodes, phase, work')
  BY <1>12, <1>13
<1>17. QED
  BY <1>3, <1>14, <1>15, <1>16, PrepareStepOk

LEMMA PrepareTwoOperandsOk ==
    ASSUME WalkInvariant, PrepareTwoOperands
    PROVE  WalkInvariant'
<1>1. /\ work # <<>> /\ work[1].call = "prepare" /\ Node \in 1 .. Len(nodes)
      /\ phase # "setup" /\ Len(nodes) \in Nat /\ work[1].loc \in Int /\ Node \in Nat
      /\ Rest \in Seq(TaskRecord) /\ Doing("prepare") /\ NodesOk(nodes)
  BY NowDoing DEF PrepareTwoOperands, PrepareCalls, WalkInvariant
<1>2. PICK m : m = nodes[Node].args[2]
  OBVIOUS
<1>3. PICK t0 : t0 = OperandType(Node)
  OBVIOUS
<1>4. /\ work' = <<Task("prepare", m, NoSpill, 0), Task("left", Node, work[1].loc, 0)>> \o Rest
      /\ fm' = PushTemp(fm, t0, Node, nodes[Node].spill = 1)
      /\ UNCHANGED <<nodes, stmts, phase, at, locals, code>>
      /\ nodes[Node].op \in {"arith", "cmp"}
  BY <1>2, <1>3 DEF PrepareTwoOperands
<1>5. m \in 1 .. Len(nodes) /\ t0 = TypeIn(nodes, Node) /\ t0 \in Types
  BY <1>1, <1>2, <1>3, <1>4, SidesOk
<1>6. /\ WorkOk(nodes, phase, Rest)
      /\ \A t \in Types :
            /\ Depth(fm, t) \in Nat /\ Weight(nodes, work[1], t) <= Depth(fm, t)
            /\ Counts(nodes, Rest, t, Depth(fm, t) - Weight(nodes, work[1], t))
  BY <1>1, PrepareReturns DEF PrepareCalls
<1>7. \A t : Weight(nodes, work[1], t) = 0
  BY <1>1, Weightless
<1>8. \A t \in Types : Counts(nodes, Rest, t, Depth(fm, t))
  <2>1. \A t \in Types : Depth(fm, t) - Weight(nodes, work[1], t) = Depth(fm, t)
    BY <1>6, <1>7
  <2>2. QED
    BY <1>6, <2>1
<1>9. PICK b : b = Task("left", Node, work[1].loc, 0)
  OBVIOUS
<1>10. PICK v : v = <<b>> \o Rest
  OBVIOUS
<1>11. /\ b \in TaskRecord /\ b.call = "left" /\ b.n = Node /\ WorkOk(nodes, phase, v)
       /\ \A t, d : Counts(nodes, Rest, t, d) => Counts(nodes, v, t, d + Weight(nodes, b, t))
  <2>1. 0 \in Int /\ "left" \in PrepareCalls
    BY DEF PrepareCalls
  <2>2. /\ "left" = "left" => nodes[Node].op \in {"arith", "cmp"}
        /\ "left" \in {"param", "store"} => nodes[Node].op = "call" /\ 0 > 0
    BY <1>4
  <2>3. /\ phase # "setup" /\ WorkOk(nodes, phase, Rest) /\ Len(nodes) \in Nat
        /\ Node \in 1 .. Len(nodes) /\ work[1].loc \in Int
    BY <1>1, <1>6
  <2>4. LET x == Task("left", Node, work[1].loc, 0)
        IN  /\ x \in TaskRecord /\ x.call = "left" /\ x.n = Node
            /\ WorkOk(nodes, phase, <<x>> \o Rest)
            /\ \A t, d : Counts(nodes, Rest, t, d)
                            => Counts(nodes, <<x>> \o Rest, t, d + Weight(nodes, x, t))
    BY <2>1, <2>2, <2>3, PrepareCallMade, Zenon
  <2>5. QED
    BY <1>9, <1>10, <2>4
<1>12. Weight(nodes, b, t0) = 1 /\ \A t \in Types \ {t0} : Weight(nodes, b, t) = 0
  BY <1>5, <1>11 DEF Weight
<1>13. /\ Keeps(fm, fm') /\ Depth(fm', t0) = Depth(fm, t0) + 1
       /\ \A t \in Types \ {t0} : Depth(fm', t) = Depth(fm, t)
  <2>1. Good(fm)
    BY DEF WalkInvariant
  <2>2. PICK spill \in BOOLEAN : spill = (nodes[Node].spill = 1)
    OBVIOUS
  <2>3. fm' = PushTemp(fm, t0, Node, spill)
    BY <1>4, <2>2
  <2>4. QED
    BY <1>1, <1>5, <2>1, <2>3, PushTempKeeps
<1>14. \A t \in Types : Depth(fm', t) \in Nat /\ Counts(nodes, v, t, Depth(fm', t))
  <2>1. \A t \in Types : Depth(fm', t) = Depth(fm, t) + Weight(nodes, b, t) /\ Depth(fm', t) \in Nat
    BY <1>6, <1>12, <1>13
  <2>2. QED
    BY <1>8, <1>11, <2>1
<1>15. PICK a : a = Task("prepare", m, NoSpill, 0)
  OBVIOUS
<1>16. /\ a \in TaskRecord /\ WorkOk(nodes, phase, <<a>> \o v)
       /\ \A t, d : d \in Nat /\ Counts(nodes, v, t, d) => Counts(nodes, <<a>> \o v, t, d)
  <2>1. 0 \in Int /\ "prepare" \in {"prepare", "assign", "one", "two"} /\ NoSpill \in Int
    BY DEF NoSpill
  <2>2. /\ phase # "setup" /\ WorkOk(nodes, phase, v) /\ Len(nodes) \in Nat
        /\ m \in 1 .. Len(nodes)
    BY <1>1, <1>5, <1>11
  <2>3. LET x == Task("prepare", m, NoSpill, 0)
        IN  /\ x \in TaskRecord /\ WorkOk(nodes, phase, <<x>> \o v)
            /\ \A t, d : d \in Nat /\ Counts(nodes, v, t, d) => Counts(nodes, <<x>> \o v, t, d)
    BY <2>1, <2>2, PlainCallMade, Zenon
  <2>4. QED
    BY <1>15, <2>3
<1>17. work' = <<a>> \o v
  <2>1. <<a, b>> \o Rest = <<a>> \o (<<b>> \o Rest)
    <3>1. a \in TaskRecord /\ b \in TaskRecord /\ Rest \in Seq(TaskRecord)
      BY <1>1, <1>11, <1>16
    <3>2. QED
      BY <3>1, TwoCalls
  <2>2. QED
    BY <1>4, <1>9, <1>10, <1>15, <2>1, Zenon
<1>18. \A t \in Types : Counts(nodes, work', t, Depth(fm', t))
  BY <1>14, <1>16, <1>17
<1>19. WorkOk(nodes, phase, work')
  BY <1>16, <1>17
<1>20. QED
  BY <1>4, <1>13, <1>18, <1>19, PrepareStepOk

LEMMA PrepareLeftOk ==
    ASSUME WalkInvariant, PrepareLeft
    PROVE  WalkInvariant'
<1>1. /\ work # <<>> /\ work[1].call = "left" /\ Node \in 1 .. Len(nodes)
      /\ phase # "setup" /\ Len(nodes) \in Nat /\ work[1].loc \in Int /\ Node \in Nat
      /\ Rest \in Seq(TaskRecord) /\ Doing("left") /\ NodesOk(nodes)
      /\ TaskOk(nodes, phase, work[1])
  BY NowDoing DEF PrepareLeft, PrepareCalls, WalkInvariant
<1>2. PICK m : m = nodes[Node].args[1]
  OBVIOUS
<1>3. PICK t0 : t0 = OperandType(Node)
  OBVIOUS
<1>4. PICK loc : loc = PeekTopTemp(fm, t0)
  OBVIOUS
<1>5. /\ work' = <<Task("prepare", m, loc, 0), Task("two", Node, work[1].loc, loc)>> \o Rest
      /\ fm' = PopTemp(fm, t0)
      /\ UNCHANGED <<nodes, stmts, phase, at, locals, code>>
  BY <1>2, <1>3, <1>4 DEF PrepareLeft
<1>6. m \in 1 .. Len(nodes) /\ t0 = TypeIn(nodes, Node) /\ t0 \in Types
  <2>1. nodes[Node].op \in {"arith", "cmp"}
    BY <1>1 DEF TaskOk, Node
  <2>2. QED
    BY <1>1, <1>2, <1>3, <2>1, SidesOk
<1>7. /\ WorkOk(nodes, phase, Rest)
      /\ \A t \in Types :
            /\ Depth(fm, t) \in Nat /\ Weight(nodes, work[1], t) <= Depth(fm, t)
            /\ Counts(nodes, Rest, t, Depth(fm, t) - Weight(nodes, work[1], t))
  BY <1>1, PrepareReturns DEF PrepareCalls
<1>8. Weight(nodes, work[1], t0) = 1 /\ \A t \in Types \ {t0} : Weight(nodes, work[1], t) = 0
  BY <1>1, <1>6 DEF Weight, Node
<1>9. Good(fm) /\ Depth(fm, t0) > 0
  BY <1>6, <1>7, <1>8 DEF WalkInvariant
<1>10. loc \in Int
  <2>1. Depth(fm, t0) \in 1 .. Depth(fm, t0)
    BY <1>6, <1>7, <1>9
  <2>2. Loc(fm, t0, Depth(fm, t0)) \in Int
    BY <1>6, <1>9, <2>1, StackType DEF Good, FrameOk
  <2>3. QED
    BY <1>4, <2>2 DEF PeekTopTemp, Loc, Depth
<1>11. /\ Keeps(fm, fm') /\ Depth(fm', t0) = Depth(fm, t0) - 1
       /\ \A t \in Types \ {t0} : Depth(fm', t) = Depth(fm, t)
  BY <1>5, <1>6, <1>9, PopTempKeeps
<1>12. \A t \in Types : Depth(fm', t) \in Nat /\ Counts(nodes, Rest, t, Depth(fm', t))
  <2>1. /\ Depth(fm', t0) = Depth(fm, t0) - Weight(nodes, work[1], t0)
        /\ Depth(fm', t0) \in Nat
    BY <1>6, <1>7, <1>8, <1>9, <1>11
  <2>2. \A t \in Types \ {t0} : /\ Depth(fm', t) = Depth(fm, t) - Weight(nodes, work[1], t)
                                /\ Depth(fm', t) \in Nat
    BY <1>7, <1>8, <1>11
  <2>3. QED
    BY <1>7, <2>1, <2>2
<1>13. PICK b : b = Task("two", Node, work[1].loc, loc)
  OBVIOUS
<1>14. PICK v : v = <<b>> \o Rest
  OBVIOUS
<1>15. /\ b \in TaskRecord /\ WorkOk(nodes, phase, v)
       /\ \A t, d : d \in Nat /\ Counts(nodes, Rest, t, d) => Counts(nodes, v, t, d)
  <2>1. "two" \in {"prepare", "assign", "one", "two"}
    OBVIOUS
  <2>2. QED
    BY <1>1, <1>7, <1>10, <1>13, <1>14, <2>1, PlainCallMade
<1>16. PICK a : a = Task("prepare", m, loc, 0)
  OBVIOUS
<1>17. /\ a \in TaskRecord /\ WorkOk(nodes, phase, <<a>> \o v)
       /\ \A t, d : d \in Nat /\ Counts(nodes, v, t, d) => Counts(nodes, <<a>> \o v, t, d)
  <2>1. 0 \in Int /\ "prepare" \in {"prepare", "assign", "one", "two"}
    OBVIOUS
  <2>2. QED
    BY <1>1, <1>6, <1>10, <1>15, <1>16, <2>1, PlainCallMade
<1>18. work' = <<a>> \o v
  <2>1. a \in TaskRecord /\ b \in TaskRecord /\ Rest \in Seq(TaskRecord)
    BY <1>1, <1>15, <1>17
  <2>2. <<a, b>> \o Rest = <<a>> \o (<<b>> \o Rest)
    BY <2>1, TwoCalls
  <2>3. QED
    BY <1>5, <1>13, <1>14, <1>16, <2>2, Zenon
<1>19. \A t \in Types : Counts(nodes, work', t, Depth(fm', t))
  BY <1>12, <1>15, <1>17, <1>18
<1>20. WorkOk(nodes, phase, work')
  BY <1>17, <1>18
<1>21. QED
  BY <1>5, <1>11, <1>19, <1>20, PrepareStepOk

\* A call of the second walk that holds a callee's frame address.
LEMMA AddressCallMade ==
    ASSUME NEW w, phase # "setup", WorkOk(nodes, phase, w), Len(nodes) \in Nat,
           NEW call \in {"param", "store"}, NEW n \in 1 .. Len(nodes), NEW loc \in Int,
           NEW k \in Nat \ {0}, nodes[n].op = "call"
    PROVE  LET x == Task(call, n, loc, k)
           IN  /\ x \in TaskRecord /\ WorkOk(nodes, phase, <<x>> \o w)
               /\ \A d \in Nat : Counts(nodes, w, "i", d) => Counts(nodes, <<x>> \o w, "i", d + 1)
               /\ \A t \in Types \ {"i"}, d \in Nat :
                     Counts(nodes, w, t, d) => Counts(nodes, <<x>> \o w, t, d)
<1>1. PICK x : x = Task(call, n, loc, k)
  OBVIOUS
<1>2. call \in PrepareCalls /\ call # "left" /\ k \in Int /\ k > 0
  BY DEF PrepareCalls
<1>3. /\ x \in TaskRecord /\ x.call = call
      /\ WorkOk(nodes, phase, <<x>> \o w)
      /\ \A t, d : Counts(nodes, w, t, d) => Counts(nodes, <<x>> \o w, t, d + Weight(nodes, x, t))
  <2>1. LET y == Task(call, n, loc, k)
        IN  /\ y \in TaskRecord /\ y.call = call /\ y.n = n
            /\ WorkOk(nodes, phase, <<y>> \o w)
            /\ \A t, d : Counts(nodes, w, t, d)
                            => Counts(nodes, <<y>> \o w, t, d + Weight(nodes, y, t))
    BY <1>2, PrepareCallMade, Zenon
  <2>2. QED
    BY <1>1, <2>1, Zenon
<1>4. Weight(nodes, x, "i") = 1 /\ \A t \in Types \ {"i"} : Weight(nodes, x, t) = 0
  BY <1>3 DEF Weight
<1>5. ASSUME NEW d \in Nat, Counts(nodes, w, "i", d) PROVE Counts(nodes, <<x>> \o w, "i", d + 1)
  BY <1>3, <1>4, <1>5
<1>6. ASSUME NEW t \in Types \ {"i"}, NEW d \in Nat, Counts(nodes, w, t, d)
      PROVE  Counts(nodes, <<x>> \o w, t, d)
  <2>1. d + Weight(nodes, x, t) = d
    BY <1>4
  <2>2. QED
    BY <1>3, <1>6, <2>1
<1>7. QED
  BY <1>1, <1>3, <1>5, <1>6, Zenon

\* A call that holds the address gives it back.
LEMMA AddressReturns ==
    ASSUME WalkInvariant, NEW c \in {"param", "store"}, Doing(c)
    PROVE  /\ WorkOk(nodes, phase, Rest) /\ nodes[Node].op = "call"
           /\ work[1].k \in Nat \ {0}
           /\ Depth(fm, "i") - 1 \in Nat /\ Counts(nodes, Rest, "i", Depth(fm, "i") - 1)
           /\ \A t \in Types \ {"i"} : Depth(fm, t) \in Nat /\ Counts(nodes, Rest, t, Depth(fm, t))
<1>1. c \in PrepareCalls
  BY DEF PrepareCalls
<1>2. work[1].call = c /\ TaskOk(nodes, phase, work[1]) /\ work[1].k \in Int
  BY NowDoing
<1>3. /\ WorkOk(nodes, phase, Rest)
      /\ \A t \in Types :
            /\ Depth(fm, t) \in Nat /\ Weight(nodes, work[1], t) <= Depth(fm, t)
            /\ Counts(nodes, Rest, t, Depth(fm, t) - Weight(nodes, work[1], t))
  BY <1>1, PrepareReturns
<1>4. Weight(nodes, work[1], "i") = 1 /\ \A t \in Types \ {"i"} : Weight(nodes, work[1], t) = 0
  BY <1>2 DEF Weight
<1>5. "i" \in Types
  BY DEF Types
<1>6. Depth(fm, "i") - 1 \in Nat /\ Counts(nodes, Rest, "i", Depth(fm, "i") - 1)
  BY <1>3, <1>4, <1>5
<1>7. ASSUME NEW t \in Types \ {"i"}
      PROVE  Depth(fm, t) \in Nat /\ Counts(nodes, Rest, t, Depth(fm, t))
  <2>1. Depth(fm, t) - Weight(nodes, work[1], t) = Depth(fm, t) /\ Depth(fm, t) \in Nat
    BY <1>3, <1>4
  <2>2. QED
    BY <1>3, <2>1
<1>8. nodes[Node].op = "call" /\ work[1].k \in Nat \ {0}
  BY <1>2 DEF TaskOk, Node
<1>9. QED
  BY <1>3, <1>6, <1>7, <1>8

LEMMA PrepareCallOk ==
    ASSUME WalkInvariant, PrepareCall
    PROVE  WalkInvariant'
<1>1. /\ work # <<>> /\ work[1].call = "prepare" /\ Node \in 1 .. Len(nodes)
      /\ phase # "setup" /\ Len(nodes) \in Nat /\ work[1].loc \in Int /\ Node \in Nat
      /\ Doing("prepare")
  BY NowDoing DEF PrepareCall, PrepareCalls
<1>2. PICK b : b = Task("param", Node, work[1].loc, 1)
  OBVIOUS
<1>3. /\ work' = <<b>> \o Rest /\ nodes[Node].op = "call"
      /\ fm' = PushTemp(ForceSpillAll(fm), "i", Node, FALSE)
      /\ UNCHANGED <<nodes, stmts, phase, at, locals>>
  BY <1>2 DEF PrepareCall
<1>4. /\ WorkOk(nodes, phase, Rest)
      /\ \A t \in Types :
            /\ Depth(fm, t) \in Nat /\ Weight(nodes, work[1], t) <= Depth(fm, t)
            /\ Counts(nodes, Rest, t, Depth(fm, t) - Weight(nodes, work[1], t))
  BY <1>1, PrepareReturns DEF PrepareCalls
<1>5. \A t : Weight(nodes, work[1], t) = 0
  BY <1>1, Weightless
<1>6. \A t \in Types : Counts(nodes, Rest, t, Depth(fm, t))
  <2>1. \A t \in Types : Depth(fm, t) - Weight(nodes, work[1], t) = Depth(fm, t)
    BY <1>4, <1>5
  <2>2. QED
    BY <1>4, <2>1
<1>7. /\ WorkOk(nodes, phase, work')
      /\ \A d \in Nat : Counts(nodes, Rest, "i", d) => Counts(nodes, work', "i", d + 1)
      /\ \A t \in Types \ {"i"}, d \in Nat :
            Counts(nodes, Rest, t, d) => Counts(nodes, work', t, d)
  <2>1. 1 \in Nat \ {0} /\ "param" \in {"param", "store"} /\ WorkOk(nodes, phase, Rest)
        /\ nodes[Node].op = "call"
    BY <1>3, <1>4
  <2>2. LET x == Task("param", Node, work[1].loc, 1)
        IN  /\ x \in TaskRecord /\ WorkOk(nodes, phase, <<x>> \o Rest)
            /\ \A d \in Nat : Counts(nodes, Rest, "i", d)
                                 => Counts(nodes, <<x>> \o Rest, "i", d + 1)
            /\ \A t \in Types \ {"i"}, d \in Nat :
                  Counts(nodes, Rest, t, d) => Counts(nodes, <<x>> \o Rest, t, d)
    BY <1>1, <2>1, AddressCallMade, Zenon
  <2>3. QED
    BY <1>2, <1>3, <2>2, Zenon
<1>8. /\ Keeps(fm, fm') /\ Depth(fm', "i") = Depth(fm, "i") + 1
      /\ \A t \in Types \ {"i"} : Depth(fm', t) = Depth(fm, t)
  BY <1>1, <1>3, CallPushes DEF WalkInvariant
<1>9. ASSUME NEW t \in Types PROVE Counts(nodes, work', t, Depth(fm', t))
  <2>1. CASE t = "i"
    BY <1>4, <1>6, <1>7, <1>8, <2>1
  <2>2. CASE t # "i"
    BY <1>4, <1>6, <1>7, <1>8, <2>2
  <2>3. QED
    BY <2>1, <2>2
<1>10. QED
  BY <1>3, <1>7, <1>8, <1>9, PrepareStepOk

LEMMA PrepareParamOk ==
    ASSUME WalkInvariant, PrepareParam
    PROVE  WalkInvariant'
<1>1. /\ work # <<>> /\ Node \in 1 .. Len(nodes) /\ phase # "setup" /\ Len(nodes) \in Nat
      /\ work[1].loc \in Int /\ Rest \in Seq(TaskRecord) /\ Doing("param") /\ NodesOk(nodes)
  BY NowDoing DEF PrepareParam, PrepareCalls, WalkInvariant
<1>2. /\ WorkOk(nodes, phase, Rest) /\ nodes[Node].op = "call" /\ work[1].k \in Nat \ {0}
      /\ Depth(fm, "i") - 1 \in Nat /\ Counts(nodes, Rest, "i", Depth(fm, "i") - 1)
      /\ \A t \in Types \ {"i"} : Depth(fm, t) \in Nat /\ Counts(nodes, Rest, t, Depth(fm, t))
  BY <1>1, AddressReturns
<1>3. PICK k \in Nat \ {0} : k = work[1].k
  BY <1>2
<1>4. PICK m : m = nodes[Node].args[k]
  OBVIOUS
<1>5. PICK a : a = Task("prepare", m, NoSpill, 0)
  OBVIOUS
<1>6. PICK b : b = Task("store", Node, work[1].loc, k)
  OBVIOUS
<1>7. /\ work' = <<a, b>> \o Rest /\ k <= Len(Args(nodes, Node))
      /\ fm' = ForceSpillAll(fm) \/ fm' = fm
      /\ UNCHANGED <<nodes, stmts, phase, at, locals>>
  BY <1>3, <1>4, <1>5, <1>6 DEF PrepareParam, Args
<1>8. m \in 1 .. Len(nodes)
  <2>1. nodes[Node] \in NodeRecord
    BY <1>1, ElementOfSeq DEF NodesOk
  <2>2. Args(nodes, Node) \in Seq(Nat)
    BY <2>1 DEF Args, NodeRecord
  <2>3. k \in 1 .. Len(Args(nodes, Node))
    BY <1>7, <2>2, LenProperties
  <2>4. QED
    BY <1>1, <1>4, <2>3 DEF NodesOk, Args
<1>9. PICK v : v = <<b>> \o Rest
  OBVIOUS
<1>10. /\ b \in TaskRecord /\ WorkOk(nodes, phase, v)
       /\ \A d \in Nat : Counts(nodes, Rest, "i", d) => Counts(nodes, v, "i", d + 1)
       /\ \A t \in Types \ {"i"}, d \in Nat : Counts(nodes, Rest, t, d) => Counts(nodes, v, t, d)
  <2>1. "store" \in {"param", "store"} /\ WorkOk(nodes, phase, Rest) /\ nodes[Node].op = "call"
    BY <1>2
  <2>2. LET x == Task("store", Node, work[1].loc, k)
        IN  /\ x \in TaskRecord /\ WorkOk(nodes, phase, <<x>> \o Rest)
            /\ \A d \in Nat : Counts(nodes, Rest, "i", d)
                                 => Counts(nodes, <<x>> \o Rest, "i", d + 1)
            /\ \A t \in Types \ {"i"}, d \in Nat :
                  Counts(nodes, Rest, t, d) => Counts(nodes, <<x>> \o Rest, t, d)
    BY <1>1, <2>1, AddressCallMade, Zenon
  <2>3. QED
    BY <1>6, <1>9, <2>2, Zenon
<1>11. \A t \in Types : Depth(fm, t) \in Nat /\ Counts(nodes, v, t, Depth(fm, t))
  <2>1. Depth(fm, "i") \in Nat /\ (Depth(fm, "i") - 1) + 1 = Depth(fm, "i")
    <3>1. Depth(fm, "i") \in Nat
      BY StackType DEF Types, WalkInvariant, Good, FrameOk
    <3>2. QED
      BY <3>1
  <2>2. Counts(nodes, v, "i", (Depth(fm, "i") - 1) + 1)
    BY <1>2, <1>10, Zenon
  <2>3. \A t \in Types \ {"i"} : Depth(fm, t) \in Nat /\ Counts(nodes, v, t, Depth(fm, t))
    BY <1>2, <1>10
  <2>4. QED
    BY <2>1, <2>2, <2>3
<1>12. /\ a \in TaskRecord /\ WorkOk(nodes, phase, <<a>> \o v)
       /\ \A t, d : d \in Nat /\ Counts(nodes, v, t, d) => Counts(nodes, <<a>> \o v, t, d)
  <2>1. 0 \in Int /\ "prepare" \in {"prepare", "assign", "one", "two"} /\ NoSpill \in Int
    BY DEF NoSpill
  <2>2. /\ phase # "setup" /\ WorkOk(nodes, phase, v) /\ Len(nodes) \in Nat
        /\ m \in 1 .. Len(nodes)
    BY <1>1, <1>8, <1>10
  <2>3. LET x == Task("prepare", m, NoSpill, 0)
        IN  /\ x \in TaskRecord /\ WorkOk(nodes, phase, <<x>> \o v)
            /\ \A t, d : d \in Nat /\ Counts(nodes, v, t, d) => Counts(nodes, <<x>> \o v, t, d)
    BY <2>1, <2>2, PlainCallMade, Zenon
  <2>4. QED
    BY <1>5, <2>3, Zenon
<1>13. work' = <<a>> \o v
  <2>1. a \in TaskRecord /\ b \in TaskRecord /\ Rest \in Seq(TaskRecord)
    BY <1>1, <1>10, <1>12
  <2>2. <<a, b>> \o Rest = <<a>> \o (<<b>> \o Rest)
    BY <2>1, TwoCalls
  <2>3. QED
    BY <1>7, <1>9, <2>2, Zenon
<1>14. Keeps(fm, fm') /\ \A t \in Types : Depth(fm', t) = Depth(fm, t)
  <2>1. Good(fm)
    BY DEF WalkInvariant
  <2>2. QED
    BY <1>7, <2>1, ForceSpillAllKeeps, KeepsItself DEF SameDepths
<1>15. WorkOk(nodes, phase, work') /\ \A t \in Types : Counts(nodes, work', t, Depth(fm', t))
  <2>1. \A t \in Types : Counts(nodes, work', t, Depth(fm, t))
    BY <1>11, <1>12, <1>13
  <2>2. QED
    BY <1>12, <1>13, <1>14, <2>1
<1>16. QED
  BY <1>7, <1>14, <1>15, PrepareStepOk

LEMMA PrepareStoreOk ==
    ASSUME WalkInvariant, PrepareStore
    PROVE  WalkInvariant'
<1>1. /\ Node \in 1 .. Len(nodes) /\ phase # "setup" /\ Len(nodes) \in Nat
      /\ work[1].loc \in Int /\ Doing("store")
  BY NowDoing DEF PrepareStore, PrepareCalls
<1>2. /\ WorkOk(nodes, phase, Rest) /\ nodes[Node].op = "call" /\ work[1].k \in Nat \ {0}
      /\ Depth(fm, "i") - 1 \in Nat /\ Counts(nodes, Rest, "i", Depth(fm, "i") - 1)
      /\ \A t \in Types \ {"i"} : Depth(fm, t) \in Nat /\ Counts(nodes, Rest, t, Depth(fm, t))
  BY <1>1, AddressReturns
<1>3. PICK k \in Nat \ {0} : k = work[1].k + 1
  BY <1>2
<1>4. /\ work' = <<Task("param", Node, work[1].loc, k)>> \o Rest
      /\ UNCHANGED <<fm, nodes, stmts, phase, at, locals>>
  BY <1>3 DEF PrepareStore
<1>5. /\ WorkOk(nodes, phase, work')
      /\ \A d \in Nat : Counts(nodes, Rest, "i", d) => Counts(nodes, work', "i", d + 1)
      /\ \A t \in Types \ {"i"}, d \in Nat :
            Counts(nodes, Rest, t, d) => Counts(nodes, work', t, d)
  <2>1. "param" \in {"param", "store"} /\ WorkOk(nodes, phase, Rest) /\ nodes[Node].op = "call"
    BY <1>2
  <2>2. LET x == Task("param", Node, work[1].loc, k)
        IN  /\ x \in TaskRecord /\ WorkOk(nodes, phase, <<x>> \o Rest)
            /\ \A d \in Nat : Counts(nodes, Rest, "i", d)
                                 => Counts(nodes, <<x>> \o Rest, "i", d + 1)
            /\ \A t \in Types \ {"i"}, d \in Nat :
                  Counts(nodes, Rest, t, d) => Counts(nodes, <<x>> \o Rest, t, d)
    BY <1>1, <2>1, AddressCallMade, Zenon
  <2>3. QED
    BY <1>4, <2>2, Zenon
<1>6. \A t \in Types : Counts(nodes, work', t, Depth(fm, t))
  <2>1. (Depth(fm, "i") - 1) + 1 = Depth(fm, "i")
    <3>1. Depth(fm, "i") \in Nat
      BY StackType DEF Types, WalkInvariant, Good, FrameOk
    <3>2. QED
      BY <3>1
  <2>2. Counts(nodes, work', "i", (Depth(fm, "i") - 1) + 1)
    BY <1>2, <1>5, Zenon
  <2>3. \A t \in Types \ {"i"} : Counts(nodes, work', t, Depth(fm, t))
    BY <1>2, <1>5
  <2>4. QED
    BY <2>1, <2>2, <2>3
<1>7. Keeps(fm, fm') /\ \A t \in Types : Depth(fm', t) = Depth(fm, t)
  BY <1>4, KeepsItself
<1>8. QED
  BY <1>4, <1>5, <1>6, <1>7, PrepareStepOk

LEMMA PrepareCallDoneOk ==
    ASSUME WalkInvariant, PrepareCallDone
    PROVE  WalkInvariant'
<1>1. /\ work' = Rest /\ fm' = PopTemp(fm, "i") /\ Doing("param")
      /\ UNCHANGED <<nodes, stmts, phase, at, locals>>
  BY DEF PrepareCallDone
<1>2. /\ WorkOk(nodes, phase, Rest)
      /\ Depth(fm, "i") - 1 \in Nat /\ Counts(nodes, Rest, "i", Depth(fm, "i") - 1)
      /\ \A t \in Types \ {"i"} : Depth(fm, t) \in Nat /\ Counts(nodes, Rest, t, Depth(fm, t))
  BY <1>1, AddressReturns
<1>3. /\ Keeps(fm, fm') /\ Depth(fm', "i") = Depth(fm, "i") - 1
      /\ \A t \in Types \ {"i"} : Depth(fm', t) = Depth(fm, t)
  <2>1. Depth(fm, "i") \in Nat /\ Good(fm) /\ "i" \in Types
    BY StackType DEF Types, WalkInvariant, Good, FrameOk
  <2>2. Depth(fm, "i") > 0
    BY <1>2, <2>1
  <2>3. QED
    BY <1>1, <2>1, <2>2, PopTempKeeps
<1>4. \A t \in Types : Counts(nodes, work', t, Depth(fm', t))
  BY <1>1, <1>2, <1>3
<1>5. QED
  BY <1>1, <1>2, <1>3, <1>4, PrepareStepOk

\* A variable's slot begins behind those of the variables around it.
LEMMA PrepareStatementOk ==
    ASSUME WalkInvariant, PrepareStatement
    PROVE  WalkInvariant'
<1>1. /\ phase = "prepare" /\ work = <<>> /\ at < Len(stmts) /\ at' = at + 1
      /\ UNCHANGED <<nodes, stmts, phase, code>>
  BY DEF PrepareStatement
<1>2. at \in Nat /\ stmts \in Seq(Statement) /\ NodesOk(nodes) /\ Good(fm)
      /\ Len(nodes) \in Nat /\ VariablesOk(fm.old, fm.base, locals)
  BY LenProperties DEF WalkInvariant, NodesOk
<1>3. at + 1 \in 1 .. Len(stmts)
  <2>1. Len(stmts) \in Nat
    BY <1>2, LenProperties
  <2>2. QED
    BY <1>1, <1>2, <2>1
<1>4. PICK s \in Statement : s = stmts[at + 1] /\ s.root \in 1 .. Len(nodes)
  <2>1. stmts[at + 1] \in Statement
    BY <1>2, <1>3, ElementOfSeq
  <2>2. stmts[at + 1].root \in 1 .. Len(nodes)
    BY <1>3 DEF WalkInvariant
  <2>3. QED
    BY <2>1, <2>2
<1>5. PICK size \in Nat \ {0}, root \in 1 .. Len(nodes) : size = s.size /\ root = s.root
  BY <1>4 DEF Statement
<1>6. PICK g : g = GetLocalVar(fm, size, size)
  OBVIOUS
<1>7. /\ fm' = g
      /\ locals' = Append(locals, [root |-> root, size |-> size, off |-> g.base - size])
      /\ work' = <<Task("prepare", root, NoSpill, 0), Task("assign", root, NoSpill, 0)>>
  BY <1>4, <1>5, <1>6 DEF PrepareStatement
<1>8. \A t \in Types : Depth(fm, t) = 0
  BY <1>1, IdleIsEmpty
<1>9. /\ Good(g) /\ SameDepths(fm, g) /\ g.old = Append(fm.old, fm.base)
      /\ fm.base <= g.base - size /\ (g.base - size) % size = 0
      /\ g.base - size \in Nat
  BY <1>2, <1>6, <1>8, GetLocalVarGood
<1>10. WorkOk(nodes, "prepare", work') /\ \A t \in Types : Counts(nodes, work', t, 0)
  <2>1. /\ WorkOk(nodes, phase, <<>>) /\ \A t : Counts(nodes, <<>>, t, 0)
    BY NoWork
  <2>2. PICK b : b = Task("assign", root, NoSpill, 0)
    OBVIOUS
  <2>3. PICK v : v = <<b>> \o <<>>
    OBVIOUS
  <2>4. /\ "assign" \in {"prepare", "assign", "one", "two"} /\ NoSpill \in Int /\ 0 \in Int
        /\ "prepare" \in {"prepare", "assign", "one", "two"} /\ phase # "setup"
    BY <1>1 DEF NoSpill
  <2>5. /\ b \in TaskRecord /\ WorkOk(nodes, phase, v)
        /\ \A t, d : d \in Nat /\ Counts(nodes, <<>>, t, d) => Counts(nodes, v, t, d)
    <3>1. LET x == Task("assign", root, NoSpill, 0)
          IN  /\ x \in TaskRecord /\ WorkOk(nodes, phase, <<x>> \o <<>>)
              /\ \A t, d : d \in Nat /\ Counts(nodes, <<>>, t, d)
                              => Counts(nodes, <<x>> \o <<>>, t, d)
      BY <1>2, <2>1, <2>4, PlainCallMade, Zenon
    <3>2. QED
      BY <2>2, <2>3, <3>1, Zenon
  <2>6. PICK a : a = Task("prepare", root, NoSpill, 0)
    OBVIOUS
  <2>7. /\ a \in TaskRecord /\ WorkOk(nodes, phase, <<a>> \o v)
        /\ \A t, d : d \in Nat /\ Counts(nodes, v, t, d) => Counts(nodes, <<a>> \o v, t, d)
    <3>1. LET x == Task("prepare", root, NoSpill, 0)
          IN  /\ x \in TaskRecord /\ WorkOk(nodes, phase, <<x>> \o v)
              /\ \A t, d : d \in Nat /\ Counts(nodes, v, t, d)
                              => Counts(nodes, <<x>> \o v, t, d)
      BY <1>2, <2>4, <2>5, PlainCallMade, Zenon
    <3>2. QED
      BY <2>6, <3>1, Zenon
  <2>8. work' = <<a>> \o v
    <3>1. <<a, b>> \o <<>> = <<a>> \o (<<b>> \o <<>>)
      <4>1. <<>> \in Seq(TaskRecord)
        BY EmptySeq
      <4>2. a \in TaskRecord /\ b \in TaskRecord
        BY <2>5, <2>7
      <4>3. QED
        BY <4>1, <4>2, TwoCalls
    <3>2. <<a, b>> \o <<>> = <<a, b>>
      <4>1. <<a, b>> \in Seq(TaskRecord)
        BY <2>5, <2>7
      <4>2. QED
        BY <4>1, ConcatEmptySeq
    <3>3. QED
      BY <1>7, <2>2, <2>3, <2>6, <3>1, <3>2, Zenon
  <2>9. 0 \in Nat
    OBVIOUS
  <2>10. QED
    BY <1>1, <2>1, <2>5, <2>7, <2>8, <2>9
<1>11. VariablesOk(fm'.old, fm'.base, locals')
  <2>1. PICK ls \in Seq(Variable) : ls = locals
    BY <1>2 DEF VariablesOk
  <2>2. PICK old \in Seq(Nat) : old = fm.old
    BY <1>2 DEF Good, FrameOk, Frame
  <2>3. PICK n \in Nat : n = Len(ls) /\ n = Len(old)
    BY <1>2, <2>1, <2>2, LenProperties DEF VariablesOk
  <2>4. PICK base \in Nat : base = fm.base
    BY <1>2 DEF Good, FrameOk, Frame
  <2>5. PICK off \in Nat : off = g.base - size
    BY <1>9
  <2>6. g.base \in Nat
    BY <1>9 DEF Good, FrameOk, Frame
  <2>7. g.base = off + size /\ base <= off /\ off % size = 0
    BY <1>9, <2>4, <2>5, <2>6
  <2>8. PICK r \in Variable : /\ r = [root |-> root, size |-> size, off |-> off]
                              /\ r.size = size /\ r.off = off
    <3>1. PICK r : r = [root |-> root, size |-> size, off |-> off]
      OBVIOUS
    <3>2. root \in Nat
      BY <1>2
    <3>3. r \in Variable /\ r.size = size /\ r.off = off
      BY <3>1, <3>2 DEF Variable
    <3>4. QED
      BY <3>1, <3>3
  <2>9. PICK z : z = Append(ls, r)
    OBVIOUS
  <2>10. /\ z \in Seq(Variable) /\ Len(z) = n + 1 /\ z[n + 1] = r
         /\ \A j \in 1 .. n : z[j] = ls[j]
    <3>1. ls \in Seq(Variable) /\ r \in Variable
      OBVIOUS
    <3>2. /\ z \in Seq(Variable) /\ Len(z) = Len(ls) + 1 /\ z[Len(ls) + 1] = r
          /\ \A j \in 1 .. Len(ls) : z[j] = ls[j]
      BY <2>9, <3>1, AppendProperties
    <3>3. QED
      BY <2>3, <3>2
  <2>11. PICK o : o = Append(old, base)
    OBVIOUS
  <2>12. /\ o \in Seq(Nat) /\ Len(o) = n + 1 /\ o[n + 1] = base
         /\ \A j \in 1 .. n : o[j] = old[j]
    BY <2>3, <2>11, AppendProperties
  <2>13. ASSUME NEW j \in 1 .. n
         PROVE  /\ z[j].off % z[j].size = 0 /\ o[j] <= z[j].off
                /\ z[j].off + z[j].size = o[j + 1]
    <3>1. z[j] = ls[j] /\ o[j] = old[j]
      BY <2>10, <2>12
    <3>2. /\ ls[j].off % ls[j].size = 0 /\ old[j] <= ls[j].off
          /\ ls[j].off + ls[j].size = IF j < n THEN old[j + 1] ELSE base
      BY <1>2, <2>1, <2>2, <2>3, <2>4 DEF VariablesOk
    <3>3. (IF j < n THEN old[j + 1] ELSE base) = o[j + 1]
      <4>1. CASE j < n
        <5>1. j + 1 \in 1 .. n
          BY <4>1
        <5>2. QED
          BY <2>12, <4>1, <5>1
      <4>2. CASE ~(j < n)
        <5>1. j = n
          BY <4>2
        <5>2. QED
          BY <2>12, <4>2, <5>1
      <4>3. QED
        BY <4>1, <4>2
    <3>4. QED
      BY <3>1, <3>2, <3>3
  <2>14. /\ z[n + 1].off % z[n + 1].size = 0 /\ o[n + 1] <= z[n + 1].off
         /\ z[n + 1].off + z[n + 1].size = g.base
    BY <2>7, <2>8, <2>10, <2>12
  <2>15. \A j \in 1 .. (n + 1) : (j \in 1 .. n /\ j < n + 1) \/ j = n + 1
    OBVIOUS
  <2>16. \A j \in 1 .. (n + 1) :
            /\ z[j].off % z[j].size = 0 /\ o[j] <= z[j].off
            /\ z[j].off + z[j].size = IF j < n + 1 THEN o[j + 1] ELSE g.base
    BY <2>13, <2>14, <2>15
  <2>17. VariablesOk(o, g.base, z)
    BY <2>10, <2>12, <2>16 DEF VariablesOk
  <2>18. locals' = z /\ fm'.old = o
    BY <1>7, <1>9, <2>1, <2>2, <2>4, <2>5, <2>8, <2>9, <2>11
  <2>19. QED
    BY <1>7, <2>17, <2>18
<1>12. \A t \in Types : Depth(fm', t) = 0
  BY <1>7, <1>8, <1>9 DEF SameDepths
<1>13. \A t \in Types : Counts(nodes', work', t, Depth(fm', t))
  BY <1>1, <1>10, <1>12
<1>14. /\ NodesOk(nodes') /\ WorkOk(nodes', phase', work') /\ phase' \in {"setup", "prepare", "done"}
       /\ at' \in Nat /\ Good(fm')
  BY <1>1, <1>2, <1>7, <1>9, <1>10
<1>15. stmts' \in Seq(Statement) /\ \A i \in 1 .. Len(stmts') : stmts'[i].root \in 1 .. Len(nodes')
  BY <1>1 DEF WalkInvariant
<1>16. QED
  BY <1>11, <1>13, <1>14, <1>15 DEF WalkInvariant

LEMMA PopLocalVarOk ==
    ASSUME WalkInvariant, PopLocalVar
    PROVE  WalkInvariant'
<1>1. /\ phase = "prepare" /\ work = <<>> /\ locals # <<>>
      /\ fm' = PlannerPopLocalVar(fm) /\ locals' = SubSeq(locals, 1, Len(locals) - 1)
      /\ UNCHANGED <<nodes, stmts, phase, at, work, code>>
  BY DEF PopLocalVar
<1>2. Good(fm) /\ VariablesOk(fm.old, fm.base, locals)
  BY DEF WalkInvariant
<1>3. PICK ls \in Seq(Variable) : ls = locals
  BY <1>2 DEF VariablesOk
<1>4. PICK old \in Seq(Nat) : old = fm.old
  BY <1>2 DEF Good, FrameOk, Frame
<1>5. PICK n \in Nat \ {0} : n = Len(ls) /\ n = Len(old)
  BY <1>1, <1>2, <1>3, <1>4, EmptySeq DEF VariablesOk
<1>6. PICK base \in Nat : base = fm.base
  BY <1>2 DEF Good, FrameOk, Frame
<1>7. \A j \in 1 .. n : /\ ls[j].off % ls[j].size = 0 /\ old[j] <= ls[j].off
                        /\ ls[j].off + ls[j].size = IF j < n THEN old[j + 1] ELSE base
  BY <1>2, <1>3, <1>4, <1>5, <1>6 DEF VariablesOk
<1>8. n \in 1 .. n /\ old[n] \in Nat /\ old[n] <= base
  <2>1. n \in 1 .. n /\ n \in 1 .. Len(old) /\ n \in 1 .. Len(ls)
    BY <1>5
  <2>2. old[n] \in Nat /\ ls[n] \in Variable
    BY <2>1, ElementOfSeq
  <2>3. ls[n].off \in Nat /\ ls[n].size \in Nat
    BY <2>2 DEF Variable
  <2>4. old[n] <= ls[n].off /\ ls[n].off + ls[n].size = base
    BY <1>7, <2>1
  <2>5. QED
    BY <2>1, <2>2, <2>3, <2>4
<1>9. \A t \in Types : Depth(fm, t) = 0
  BY <1>1, IdleIsEmpty
<1>10. /\ Good(fm') /\ SameDepths(fm, fm') /\ fm'.old = SubSeq(old, 1, n - 1)
       /\ fm'.base = old[n]
  <2>1. Len(fm.old) > 0 /\ fm.old[Len(fm.old)] <= fm.base
    BY <1>4, <1>5, <1>6, <1>8
  <2>2. QED
    BY <1>1, <1>2, <1>4, <1>5, <1>9, <2>1, PopLocalVarGood
<1>11. VariablesOk(fm'.old, fm'.base, locals')
  <2>1. PICK z : z = SubSeq(ls, 1, n - 1)
    OBVIOUS
  <2>2. z \in Seq(Variable) /\ Len(z) = n - 1 /\ \A j \in 1 .. (n - 1) : z[j] = ls[j]
    <3>1. \A j \in 1 .. (n - 1) : ls[j] \in Variable
      <4>1. \A j \in 1 .. (n - 1) : j \in 1 .. Len(ls)
        BY <1>5
      <4>2. QED
        BY <4>1, ElementOfSeq
    <3>2. n - 1 \in Nat
      OBVIOUS
    <3>3. QED
      BY <2>1, <3>1, <3>2
  <2>3. PICK o : o = SubSeq(old, 1, n - 1)
    OBVIOUS
  <2>4. Len(o) = n - 1 /\ \A j \in 1 .. (n - 1) : o[j] = old[j]
    <3>1. \A j \in 1 .. (n - 1) : old[j] \in Nat
      BY <1>5, ElementOfSeq
    <3>2. n - 1 \in Nat
      OBVIOUS
    <3>3. QED
      BY <2>3, <3>1, <3>2
  <2>5. ASSUME NEW j \in 1 .. (n - 1)
        PROVE  /\ z[j].off % z[j].size = 0 /\ o[j] <= z[j].off
               /\ z[j].off + z[j].size = IF j < n - 1 THEN o[j + 1] ELSE old[n]
    <3>1. z[j] = ls[j] /\ o[j] = old[j] /\ j \in 1 .. n /\ j < n
      BY <2>2, <2>4
    <3>2. ls[j].off + ls[j].size = old[j + 1] /\ ls[j].off % ls[j].size = 0
          /\ old[j] <= ls[j].off
      BY <1>7, <3>1
    <3>3. (IF j < n - 1 THEN o[j + 1] ELSE old[n]) = old[j + 1]
      <4>1. CASE j < n - 1
        <5>1. j + 1 \in 1 .. (n - 1)
          BY <4>1
        <5>2. QED
          BY <2>4, <4>1, <5>1
      <4>2. CASE ~(j < n - 1)
        <5>1. j + 1 = n
          BY <4>2
        <5>2. QED
          BY <4>2, <5>1
      <4>3. QED
        BY <4>1, <4>2
    <3>4. QED
      BY <3>1, <3>2, <3>3
  <2>6. VariablesOk(o, old[n], z)
    BY <2>2, <2>4, <2>5 DEF VariablesOk
  <2>7. locals' = z /\ fm'.old = o
    BY <1>1, <1>3, <1>5, <1>10, <2>1, <2>3
  <2>8. QED
    BY <1>10, <2>6, <2>7
<1>12. \A t \in Types : Counts(nodes', work', t, Depth(fm', t))
  <2>1. \A t \in Types : Depth(fm', t) = 0
    BY <1>9, <1>10 DEF SameDepths
  <2>2. QED
    BY <1>1, <2>1, NoWork
<1>13. NodesOk(nodes') /\ WorkOk(nodes', phase', work') /\ at' \in Nat
       /\ phase' \in {"setup", "prepare", "done"}
       /\ stmts' \in Seq(Statement) /\ \A i \in 1 .. Len(stmts') : stmts'[i].root \in 1 .. Len(nodes')
  BY <1>1 DEF WalkInvariant
<1>14. QED
  BY <1>10, <1>11, <1>12, <1>13 DEF WalkInvariant

\* The passes end when nothing is left to walk.
LEMMA PassOk ==
    ASSUME WalkInvariant, SetupDone \/ PrepareDone
    PROVE  WalkInvariant'
<1>1. work = <<>> /\ UNCHANGED <<fm, nodes, stmts, at, locals, work, code>>
      /\ phase' \in {"setup", "prepare", "done"}
  BY DEF SetupDone, PrepareDone
<1>2. WorkOk(nodes', phase', work')
  BY <1>1, NoWork
<1>3. QED
  BY <1>1, <1>2 DEF WalkInvariant

LEMMA FrameUnchanged ==
    ASSUME WalkInvariant, UNCHANGED vars
    PROVE  WalkInvariant'
  BY DEF WalkInvariant, vars

LEMMA FrameInit ==
    ASSUME Init
    PROVE  WalkInvariant
<1>1. /\ fm = Reset /\ nodes = <<>> /\ stmts = <<>> /\ phase = "setup" /\ at = 0
      /\ locals = <<>> /\ work = <<>>
  BY DEF Init
<1>2. 1 .. 0 = {} /\ \A S : <<>> \in Seq(S) /\ Len(<<>>) = 0
  BY EmptySeq
<1>3. PICK e : e = <<>>
  OBVIOUS
<1>4. NodesOk(e)
  BY <1>2, <1>3 DEF NodesOk
<1>5. stmts \in Seq(Statement) /\ \A i \in 1 .. Len(stmts) : stmts[i].root \in 1 .. Len(nodes)
  BY <1>1, <1>2
<1>6. PICK s \in Stack : s = [stack |-> <<>>, first |-> 0] /\ Len(s.stack) = 0 /\ s.first = 0
  <2>1. <<>> \in Seq(Operand) /\ Len(<<>>) = 0 /\ 0 \in Nat
    BY EmptySeq
  <2>2. PICK s : s = [stack |-> <<>>, first |-> 0]
    OBVIOUS
  <2>3. s \in Stack /\ Len(s.stack) = 0 /\ s.first = 0
    BY <2>1, <2>2 DEF Stack
  <2>4. QED
    BY <2>2, <2>3
<1>7. PICK st \in [Types -> Stack] : st = [t \in Types |-> s]
  OBVIOUS
<1>8. /\ fm \in Frame /\ fm.st = st /\ fm.free = <<>> /\ fm.old = <<>>
      /\ fm.base = StartOffset /\ fm.top = StartOffset /\ fm.max = StartOffset
  <2>1. fm = [base |-> StartOffset, top |-> StartOffset, max |-> StartOffset,
              free |-> <<>>, old |-> <<>>, st |-> st]
    BY <1>1, <1>6, <1>7 DEF Reset
  <2>2. StartOffset \in Nat /\ <<>> \in Seq(Nat)
    BY EmptySeq, FrameAssumption
  <2>3. QED
    BY <2>1, <2>2 DEF Frame
<1>9. \A t \in Types : Depth(fm, t) = 0 /\ First(fm, t) = 0
  BY <1>6, <1>7, <1>8 DEF Depth, First
<1>10. Good(fm)
  <2>1. Bounds(fm)
    BY <1>8, FrameAssumption DEF Bounds
  <2>2. QED
    BY <1>8, <1>9, <2>1, EmptyGood
<1>11. VariablesOk(fm.old, fm.base, locals)
  BY <1>1, <1>2, <1>8 DEF VariablesOk
<1>12. WorkOk(nodes, phase, work) /\ \A t \in Types : Counts(nodes, work, t, Depth(fm, t))
  BY <1>1, <1>9, NoWork
<1>13. QED
  BY <1>1, <1>3, <1>4, <1>5, <1>10, <1>11, <1>12 DEF WalkInvariant

LEMMA FrameNext ==
    ASSUME WalkInvariant, [Next]_vars
    PROVE  WalkInvariant'
<1>1. CASE SetupStatement
  BY <1>1, SetupStatementOk
<1>2. CASE SetupLeaf
  BY <1>2, SetupLeafOk
<1>3. CASE SetupOneOperand
  BY <1>3, SetupOneOperandOk
<1>4. CASE SetupTwoOperands
  BY <1>4, SetupTwoOperandsOk
<1>5. CASE SetupLeft
  BY <1>5, SetupLeftOk
<1>6. CASE SetupCall
  BY <1>6, SetupCallOk
<1>7. CASE SetupParam
  BY <1>7, SetupParamOk
<1>8. CASE SetupDone \/ PrepareDone
  BY <1>8, PassOk
<1>9. CASE PrepareStatement
  BY <1>9, PrepareStatementOk
<1>10. CASE PrepareAssign
  <2>1. Doing("assign") /\ work' = Rest /\ UNCHANGED <<fm, nodes, stmts, phase, at, locals>>
    BY <1>10 DEF PrepareAssign
  <2>2. QED
    BY <2>1, PlainReturnOk
<1>11. CASE PrepareLeaf
  <2>1. Doing("prepare") /\ work' = Rest /\ UNCHANGED <<fm, nodes, stmts, phase, at, locals>>
    BY <1>11 DEF PrepareLeaf
  <2>2. QED
    BY <2>1, PlainReturnOk
<1>12. CASE PrepareOneOperand
  BY <1>12, PrepareOneOperandOk
<1>13. CASE PrepareOneDone
  <2>1. Doing("one") /\ work' = Rest /\ UNCHANGED <<fm, nodes, stmts, phase, at, locals>>
    BY <1>13 DEF PrepareOneDone
  <2>2. QED
    BY <2>1, PlainReturnOk
<1>14. CASE PrepareTwoOperands
  BY <1>14, PrepareTwoOperandsOk
<1>15. CASE PrepareLeft
  BY <1>15, PrepareLeftOk
<1>16. CASE PrepareTwoDone
  <2>1. Doing("two") /\ work' = Rest /\ UNCHANGED <<fm, nodes, stmts, phase, at, locals>>
    BY <1>16 DEF PrepareTwoDone
  <2>2. QED
    BY <2>1, PlainReturnOk
<1>17. CASE PrepareCall
  BY <1>17, PrepareCallOk
<1>18. CASE PrepareParam
  BY <1>18, PrepareParamOk
<1>19. CASE PrepareStore
  BY <1>19, PrepareStoreOk
<1>20. CASE PrepareCallDone
  BY <1>20, PrepareCallDoneOk
<1>21. CASE PopLocalVar
  BY <1>21, PopLocalVarOk
<1>22. CASE Finished \/ UNCHANGED vars
  BY <1>22, FrameUnchanged DEF Finished
<1>23. QED
  BY <1>1, <1>2, <1>3, <1>4, <1>5, <1>6, <1>7, <1>8, <1>9, <1>10, <1>11, <1>12, <1>13,
     <1>14, <1>15, <1>16, <1>17, <1>18, <1>19, <1>20, <1>21, <1>22 DEF Next

\* The two stacks hold exactly the operands that the pending calls will pop,
\* and the frame is in order, at every point of both passes.
THEOREM WalkInvariantHolds == Spec => []WalkInvariant
<1>1. Init => WalkInvariant
  BY FrameInit
<1>2. WalkInvariant /\ [Next]_vars => WalkInvariant'
  BY FrameNext
<1>3. QED
  BY <1>1, <1>2, PTL DEF Spec

\* No two things of the frame share a byte, whatever is pushed, popped,
\* spilled and declared.
THEOREM NoOverlapHolds == Spec => []NoOverlap
<1>1. WalkInvariant => NoOverlap
  <2> SUFFICES ASSUME WalkInvariant PROVE NoOverlap
    OBVIOUS
  <2>1. /\ fm \in Frame /\ Bounds(fm) /\ BelowSpilled(fm) /\ SlotsInside(fm)
        /\ SlotsApart(fm) /\ VariablesOk(fm.old, fm.base, locals)
    BY DEF WalkInvariant, Good, FrameOk
  <2>2. ASSUME NEW x \in SpillSlots
        PROVE  /\ x[1] \in Types /\ x[2] \in 1 .. First(fm, x[1])
               /\ SlotOf(x) = Loc(fm, x[1], x[2]) /\ x = <<x[1], x[2]>>
    <3>1. /\ x[1] \in Types /\ x[2] \in 1 .. MaxNodes /\ x = <<x[1], x[2]>>
          /\ x[2] <= Depth(fm, x[1]) /\ SlotOf(x) # NoSpill
      BY <2>2 DEF SpillSlots, Depth
    <3>2. SlotOf(x) = Loc(fm, x[1], x[2])
      BY DEF SlotOf, Loc
    <3>3. Depth(fm, x[1]) \in Nat /\ First(fm, x[1]) \in Nat
      BY <2>1, <3>1, StackType
    <3>4. x[2] \in Nat /\ x[2] >= 1
      BY <3>1, FrameAssumption
    <3>5. x[2] \in 1 .. Depth(fm, x[1])
      BY <3>1, <3>3, <3>4
    <3>6. x[2] <= First(fm, x[1])
      BY <2>1, <3>1, <3>2, <3>5 DEF BelowSpilled
    <3>7. QED
      BY <3>1, <3>2, <3>3, <3>4, <3>6
  <2>3. ASSUME NEW x \in SpillSlots
        PROVE  /\ fm.base <= SlotOf(x) /\ SlotOf(x) + 8 <= fm.top /\ SlotOf(x) % 8 = 0
               /\ \A k \in 1 .. Len(fm.free) : fm.free[k] # SlotOf(x)
    <3>1. Inside(fm, SlotOf(x))
      BY <2>1, <2>2 DEF SlotsInside
    <3>2. \A k \in 1 .. Len(fm.free) : fm.free[k] # SlotOf(x)
      BY <2>1, <2>2 DEF SlotsApart
    <3>3. QED
      BY <3>1, <3>2 DEF Inside
  <2>4. ASSUME NEW x \in SpillSlots, NEW y \in SpillSlots, x # y
        PROVE  SlotOf(x) # SlotOf(y)
    <3>1. /\ x[1] \in Types /\ x[2] \in 1 .. First(fm, x[1])
          /\ SlotOf(x) = Loc(fm, x[1], x[2]) /\ x = <<x[1], x[2]>>
      BY <2>2
    <3>2. /\ y[1] \in Types /\ y[2] \in 1 .. First(fm, y[1])
          /\ SlotOf(y) = Loc(fm, y[1], y[2]) /\ y = <<y[1], y[2]>>
      BY <2>2
    <3>3. x[1] # y[1] \/ x[2] # y[2]
      BY <2>4, <3>1, <3>2
    <3>4. QED
      BY <2>1, <3>1, <3>2, <3>3 DEF SlotsApart
  <2>5. \A j, k \in 1 .. Len(fm.free) : j # k => fm.free[j] # fm.free[k]
    BY <2>1 DEF SlotsApart
  <2>6. ASSUME NEW j \in 1 .. Len(locals)
        PROVE  /\ locals[j].off % locals[j].size = 0
               /\ locals[j].off + locals[j].size <=
                     IF j < Len(locals) THEN locals[j + 1].off ELSE fm.base
    <3>1. PICK n \in Nat : n = Len(locals)
      BY <2>1, LenProperties DEF VariablesOk
    <3>2. /\ locals[j].off % locals[j].size = 0
          /\ locals[j].off + locals[j].size = IF j < n THEN fm.old[j + 1] ELSE fm.base
      BY <2>1, <3>1 DEF VariablesOk
    <3>3. CASE j < n
      <4>1. j + 1 \in 1 .. n
        BY <3>1, <3>3
      <4>2. fm.old[j + 1] <= locals[j + 1].off
        BY <2>1, <3>1, <4>1 DEF VariablesOk
      <4>3. QED
        BY <3>1, <3>2, <3>3, <4>2
    <3>4. CASE ~(j < n)
      <4>1. fm.base \in Nat
        BY <2>1 DEF Frame
      <4>2. QED
        BY <3>1, <3>2, <3>4, <4>1
    <3>5. QED
      BY <3>3, <3>4
  <2>7. fm.base <= fm.top /\ fm.top <= fm.max
    BY <2>1 DEF Bounds
  <2>8. QED
    BY <2>3, <2>4, <2>5, <2>6, <2>7 DEF NoOverlap
<1>2. QED
  BY <1>1, WalkInvariantHolds, PTL

\* Exactly the operands below m_firstNoSpill are spilled, and the others fit
\* the registers: the assertion of GetNumNoSpill never fails.
THEOREM SpilledBelowHolds == Spec => []SpilledBelow
<1>1. WalkInvariant => SpilledBelow
  <2> SUFFICES ASSUME WalkInvariant, NEW t \in Types
               PROVE  /\ fm.st[t].first \in 0 .. Len(fm.st[t].stack)
                      /\ \A k \in 1 .. Len(fm.st[t].stack) :
                            (fm.st[t].stack[k].loc # NoSpill) <=> (k <= fm.st[t].first)
                      /\ GetNumNoSpill(fm, t) <= Limit[t]
    BY DEF SpilledBelow
  <2>1. fm \in Frame /\ BelowSpilled(fm) /\ Fits(fm)
    BY DEF WalkInvariant, Good, FrameOk
  <2>2. First(fm, t) \in Nat /\ Depth(fm, t) \in Nat
    BY <2>1, StackType
  <2>3. /\ First(fm, t) <= Depth(fm, t)
        /\ \A k \in 1 .. Depth(fm, t) : Loc(fm, t, k) # NoSpill <=> k <= First(fm, t)
    BY <2>1 DEF BelowSpilled
  <2>4. Depth(fm, t) - First(fm, t) <= Limit[t]
    BY <2>1 DEF Fits
  <2>5. First(fm, t) \in 0 .. Depth(fm, t)
    BY <2>2, <2>3
  <2>6. QED
    BY <2>3, <2>4, <2>5 DEF First, Depth, Loc, GetNumNoSpill
<1>2. QED
  BY <1>1, WalkInvariantHolds, PTL
=============================================================================
