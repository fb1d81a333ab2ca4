----------------------- MODULE FIStackFrameAgreementProofs -----------------------
(***************************************************************************)
(* Proofs about FIStackFrame, for every number of registers per class,     *)
(* every size of variables and every body of a function: the two passes    *)
(* agree on what is spilled, and a register is free where one is needed.   *)
(***************************************************************************)
EXTENDS FIStackFrameProofs

(***************************************************************************)
(* How far the operations of the frame manager spill.                      *)
(***************************************************************************)
SameOwners(f, g) ==
    \A t \in Types : \A k \in 1 .. Depth(f, t) : Owner(g, t, k) = Owner(f, t, k)

LEMMA GoodStacks ==
    ASSUME NEW f, Good(f), NEW t \in Types
    PROVE  /\ f \in Frame /\ Depth(f, t) \in Nat /\ First(f, t) \in Nat
           /\ Limit[t] \in Nat \ {0} /\ First(f, t) <= Depth(f, t)
           /\ Depth(f, t) - First(f, t) <= Limit[t]
  BY StackType, FrameAssumption DEF Good, FrameOk, BelowSpilled, Fits

\* Whether the uppermost operand is spilled shows in m_firstNoSpill.
LEMMA PeekIs ==
    ASSUME NEW f, Good(f), NEW t \in Types, Depth(f, t) > 0
    PROVE  PeekTopTemp(f, t) # NoSpill <=> First(f, t) = Depth(f, t)
<1>1. /\ f \in Frame /\ Depth(f, t) \in Nat /\ First(f, t) \in Nat
      /\ First(f, t) <= Depth(f, t)
  BY GoodStacks
<1>2. Depth(f, t) \in 1 .. Depth(f, t)
  BY <1>1
<1>3. PeekTopTemp(f, t) = Loc(f, t, Depth(f, t))
  BY DEF PeekTopTemp, Loc, Depth
<1>4. Loc(f, t, Depth(f, t)) # NoSpill <=> Depth(f, t) <= First(f, t)
  BY <1>2 DEF Good, FrameOk, BelowSpilled
<1>5. QED
  BY <1>1, <1>3, <1>4

LEMMA SpillUpToFirst ==
    ASSUME NEW f, Good(f), NEW t \in Types, NEW bound \in Int, bound <= Depth(f, t)
    PROVE  LET g == SpillUpTo(f, t, bound)
           IN  /\ First(g, t) = Larger(First(f, t), bound)
               /\ \A u \in Types \ {t} : First(g, u) = First(f, u)
               /\ SameOwners(f, g)
<1>1. f \in Frame /\ First(f, t) \in Nat
  BY GoodStacks
<1>2. PICK g : g = SpillUpTo(f, t, bound)
  OBVIOUS
<1>3. PICK n : n = Larger(0, bound - First(f, t))
  OBVIOUS
<1>4. Spills(f, g, t, n)
  BY <1>1, <1>2, <1>3, SpillUpToSpills
<1>5. First(g, t) = Larger(First(f, t), bound)
  BY <1>1, <1>3, <1>4 DEF Spills, Larger
<1>6. \A u \in Types \ {t} : First(g, u) = First(f, u) /\ \A k : Owner(g, u, k) = Owner(f, u, k)
  BY <1>4 DEF Spills, First, Owner
<1>7. \A k \in 1 .. Depth(f, t) : Owner(g, t, k) = Owner(f, t, k)
  BY <1>4 DEF Spills
<1>8. SameOwners(f, g)
  BY <1>6, <1>7 DEF SameOwners
<1>9. QED
  BY <1>2, <1>5, <1>6, <1>8

LEMMA PushTempFirst ==
    ASSUME NEW f, Good(f), NEW t \in Types, NEW owner \in Nat, NEW spill \in BOOLEAN
    PROVE  LET g == PushTemp(f, t, owner, spill)
           IN  /\ First(g, t) = Larger(First(f, t), IF spill THEN Depth(f, t) + 1
                                                    ELSE Depth(f, t) + 1 - Limit[t])
               /\ \A u \in Types \ {t} : First(g, u) = First(f, u)
               /\ SameOwners(f, g) /\ Owner(g, t, Depth(f, t) + 1) = owner
<1>1. /\ f \in Frame /\ Depth(f, t) \in Nat /\ First(f, t) \in Nat /\ Limit[t] \in Nat \ {0}
      /\ First(f, t) <= Depth(f, t)
  BY GoodStacks
<1>2. PICK s : s = Append(f.st[t].stack, [owner |-> owner, loc |-> NoSpill])
  OBVIOUS
<1>3. PICK h : h = [f EXCEPT !.st[t].stack = s]
  OBVIOUS
<1>4. Pushes(f, h, t, owner)
  BY <1>1, <1>2, <1>3, AppendPushes
<1>5. Len(s) = Depth(f, t) + 1
  <2>1. PICK q \in Seq(Operand) : q = f.st[t].stack
    BY <1>1, StackType
  <2>2. PICK o \in Operand : o = [owner |-> owner, loc |-> NoSpill]
    <3>1. [owner |-> owner, loc |-> NoSpill] \in Operand
      BY DEF Operand, NoSpill
    <3>2. QED
      BY <3>1
  <2>3. Len(Append(q, o)) = Len(q) + 1
    BY AppendProperties
  <2>4. QED
    BY <1>2, <2>1, <2>2, <2>3 DEF Depth
<1>6. PICK bound \in Int : bound = IF spill THEN Len(s) ELSE Len(s) - Limit[t]
  BY <1>1, <1>5
<1>7. PICK g : g = SpillUpTo(h, t, bound)
  OBVIOUS
<1>8. PushTemp(f, t, owner, spill) = g
  BY <1>2, <1>3, <1>6, <1>7 DEF PushTemp
<1>9. /\ h \in Frame /\ Depth(h, t) = Depth(f, t) + 1 /\ First(h, t) = First(f, t)
      /\ \A u \in Types \ {t} : h.st[u] = f.st[u]
  BY <1>4 DEF Pushes
<1>10. PICK n : n = Larger(0, bound - First(h, t))
  OBVIOUS
<1>11. Spills(h, g, t, n)
  BY <1>7, <1>9, <1>10, SpillUpToSpills
<1>12. First(g, t) = Larger(First(f, t), bound)
  <2>1. First(g, t) = First(f, t) + Larger(0, bound - First(f, t))
    BY <1>9, <1>10, <1>11 DEF Spills
  <2>2. QED
    BY <1>1, <2>1 DEF Larger
<1>13. \A u \in Types \ {t} : g.st[u] = f.st[u]
  BY <1>9, <1>11 DEF Spills
<1>14. \A u \in Types \ {t} : First(g, u) = First(f, u)
                              /\ \A k : Owner(g, u, k) = Owner(f, u, k)
  BY <1>13 DEF First, Owner
<1>15. \A k \in 1 .. Depth(f, t) : Owner(g, t, k) = Owner(f, t, k)
  <2>1. ASSUME NEW k \in 1 .. Depth(f, t) PROVE Owner(g, t, k) = Owner(f, t, k)
    <3>1. k \in 1 .. Depth(h, t)
      BY <1>1, <1>9
    <3>2. Owner(g, t, k) = Owner(h, t, k)
      BY <1>11, <3>1 DEF Spills
    <3>3. QED
      BY <1>4, <3>2 DEF Pushes
  <2>2. QED
    BY <2>1
<1>16. Owner(g, t, Depth(f, t) + 1) = owner
  <2>1. Depth(f, t) + 1 \in 1 .. Depth(h, t)
    BY <1>1, <1>9
  <2>2. Owner(g, t, Depth(f, t) + 1) = Owner(h, t, Depth(f, t) + 1)
    BY <1>11, <2>1 DEF Spills
  <2>3. QED
    BY <1>4, <2>2 DEF Pushes
<1>17. SameOwners(f, g)
  BY <1>14, <1>15 DEF SameOwners
<1>18. First(g, t) = Larger(First(f, t), IF spill THEN Depth(f, t) + 1
                                         ELSE Depth(f, t) + 1 - Limit[t])
  <2>1. CASE spill
    BY <1>1, <1>5, <1>6, <1>12, <2>1
  <2>2. CASE ~spill
    BY <1>1, <1>5, <1>6, <1>12, <2>2
  <2>3. QED
    BY <2>1, <2>2
<1>19. \A u \in Types \ {t} : First(g, u) = First(f, u)
  BY <1>14
<1>20. QED
  BY <1>8, <1>16, <1>17, <1>18, <1>19

LEMMA PopTempFirst ==
    ASSUME NEW f, Good(f), NEW t \in Types, Depth(f, t) > 0
    PROVE  LET g == PopTemp(f, t)
           IN  /\ First(g, t) = IF First(f, t) = Depth(f, t) THEN Depth(f, t) - 1
                                                           ELSE First(f, t)
               /\ \A u \in Types \ {t} : First(g, u) = First(f, u)
               /\ \A u \in Types : \A k \in 1 .. Depth(g, u) : Owner(g, u, k) = Owner(f, u, k)
<1>1. PICK g : g = PopTemp(f, t)
  OBVIOUS
<1>2. Pops(f, g, t)
  BY <1>1, PopTempPops
<1>3. \A u \in Types \ {t} : First(g, u) = First(f, u)
                             /\ \A k : Owner(g, u, k) = Owner(f, u, k)
  BY <1>2 DEF Pops, First, Owner
<1>4. \A k \in 1 .. Depth(g, t) : Owner(g, t, k) = Owner(f, t, k)
  BY <1>2 DEF Pops, Owner
<1>5. QED
  BY <1>1, <1>2, <1>3, <1>4 DEF Pops

\* ReserveTemp() spills what would stand in the way of one more operand.
LEMMA ReserveTempFirst ==
    ASSUME NEW f, Good(f), NEW t \in Types
    PROVE  LET g == ReserveTemp(f, t)
           IN  /\ First(g, t) = Larger(First(f, t), Depth(f, t) + 1 - Limit[t])
               /\ \A u \in Types \ {t} : First(g, u) = First(f, u)
               /\ SameOwners(f, g)
<1>1. /\ f \in Frame /\ Depth(f, t) \in Nat /\ First(f, t) \in Nat /\ Limit[t] \in Nat \ {0}
      /\ First(f, t) <= Depth(f, t)
  BY GoodStacks
<1>2. PICK h : h = PushTemp(f, t, 0, FALSE)
  OBVIOUS
<1>3. PICK g : g = PopTemp(h, t)
  OBVIOUS
<1>4. ReserveTemp(f, t) = g
  BY <1>2, <1>3 DEF ReserveTemp
<1>5. 0 \in Nat /\ FALSE \in BOOLEAN
  OBVIOUS
<1>6. /\ Keeps(f, h) /\ Depth(h, t) = Depth(f, t) + 1
      /\ \A u \in Types \ {t} : Depth(h, u) = Depth(f, u)
  BY <1>2, <1>5, PushTempKeeps, Zenon
<1>7. /\ First(h, t) = Larger(First(f, t), IF FALSE THEN Depth(f, t) + 1
                                           ELSE Depth(f, t) + 1 - Limit[t])
      /\ \A u \in Types \ {t} : First(h, u) = First(f, u)
      /\ SameOwners(f, h)
  BY <1>2, <1>5, PushTempFirst, Zenon
<1>8. Good(h) /\ Depth(h, t) > 0
  BY <1>1, <1>6 DEF Keeps
<1>9. /\ First(g, t) = IF First(h, t) = Depth(h, t) THEN Depth(h, t) - 1 ELSE First(h, t)
      /\ \A u \in Types \ {t} : First(g, u) = First(h, u)
      /\ \A u \in Types : \A k \in 1 .. Depth(g, u) : Owner(g, u, k) = Owner(h, u, k)
  BY <1>3, <1>8, PopTempFirst
<1>10. First(g, t) = Larger(First(f, t), Depth(f, t) + 1 - Limit[t])
  BY <1>1, <1>6, <1>7, <1>9 DEF Larger
<1>11. SameDepths(f, g)
  BY <1>4, ReserveTempKeeps
<1>12. SameOwners(f, g)
  BY <1>7, <1>9, <1>11 DEF SameOwners, SameDepths
<1>13. QED
  BY <1>4, <1>7, <1>9, <1>10, <1>12

LEMMA ForceSpillAllFirst ==
    ASSUME NEW f, Good(f)
    PROVE  LET g == ForceSpillAll(f)
           IN  SameOwners(f, g) /\ \A t \in Types : First(g, t) = Depth(f, t)
<1>1. ASSUME NEW h, Good(h), NEW t \in Types, NEW g, g = SpillUpTo(h, t, Len(h.st[t].stack))
      PROVE  /\ Keeps(h, g) /\ SameDepths(h, g) /\ First(g, t) = Depth(h, t)
             /\ \A u \in Types \ {t} : First(g, u) = First(h, u)
             /\ SameOwners(h, g)
  <2>1. PICK d \in Nat : d = Depth(h, t)
    BY <1>1, GoodStacks
  <2>2. d \in Int /\ d <= Depth(h, t) /\ g = SpillUpTo(h, t, d)
    BY <1>1, <2>1 DEF Depth
  <2>3. Depth(h, t) - d <= Limit[t]
    BY <1>1, <2>1, GoodStacks
  <2>4. Keeps(h, g) /\ SameDepths(h, g)
    BY <1>1, <2>2, <2>3, SpillKeeps DEF Good, Fits
  <2>5. /\ First(g, t) = Larger(First(h, t), d) /\ SameOwners(h, g)
        /\ \A u \in Types \ {t} : First(g, u) = First(h, u)
    BY <1>1, <2>2, SpillUpToFirst
  <2>6. First(h, t) \in Nat /\ First(h, t) <= d
    BY <1>1, <2>1, GoodStacks
  <2>7. QED
    BY <2>1, <2>4, <2>5, <2>6 DEF Larger
<1>2. PICK g : g = SpillUpTo(f, "i", Len(f.st["i"].stack))
  OBVIOUS
<1>3. PICK h : h = SpillUpTo(g, "f", Len(g.st["f"].stack))
  OBVIOUS
<1>4. ForceSpillAll(f) = h
  BY <1>2, <1>3 DEF ForceSpillAll
<1>5. "i" \in Types /\ "f" \in Types /\ \A t \in Types : t = "i" \/ t = "f"
  BY DEF Types
<1>6. /\ Keeps(f, g) /\ SameDepths(f, g) /\ First(g, "i") = Depth(f, "i") /\ SameOwners(f, g)
  BY <1>1, <1>2, <1>5
<1>7. Good(g)
  BY <1>6 DEF Keeps
<1>8. /\ First(h, "f") = Depth(g, "f") /\ SameOwners(g, h)
      /\ \A u \in Types \ {"f"} : First(h, u) = First(g, u)
  BY <1>1, <1>3, <1>5, <1>7
<1>9. First(h, "i") = Depth(f, "i") /\ First(h, "f") = Depth(f, "f")
  BY <1>5, <1>6, <1>8 DEF SameDepths
<1>10. SameOwners(f, h)
  BY <1>6, <1>8 DEF SameOwners, SameDepths
<1>11. QED
  BY <1>4, <1>5, <1>9, <1>10

\* A call spills everything there is and pushes its frame's address.
LEMMA CallFirst ==
    ASSUME NEW f, Good(f), NEW owner \in Nat
    PROVE  LET g == PushTemp(ForceSpillAll(f), "i", owner, FALSE)
           IN  /\ \A t \in Types : First(g, t) = Depth(f, t)
               /\ SameOwners(f, g) /\ Owner(g, "i", Depth(f, "i") + 1) = owner
<1>1. PICK h : h = ForceSpillAll(f)
  OBVIOUS
<1>2. /\ Keeps(f, h) /\ SameDepths(f, h) /\ SameOwners(f, h)
      /\ \A t \in Types : First(h, t) = Depth(f, t)
  BY <1>1, ForceSpillAllKeeps, ForceSpillAllFirst
<1>3. Good(h) /\ "i" \in Types /\ FALSE \in BOOLEAN
  BY <1>2 DEF Keeps, Types
<1>4. PICK g : g = PushTemp(h, "i", owner, FALSE)
  OBVIOUS
<1>5. /\ First(g, "i") = Larger(First(h, "i"), IF FALSE THEN Depth(h, "i") + 1
                                               ELSE Depth(h, "i") + 1 - Limit["i"])
      /\ \A u \in Types \ {"i"} : First(g, u) = First(h, u)
      /\ SameOwners(h, g) /\ Owner(g, "i", Depth(h, "i") + 1) = owner
  BY <1>3, <1>4, PushTempFirst, Zenon
<1>6. Depth(h, "i") = Depth(f, "i")
  BY <1>2, <1>3 DEF SameDepths
<1>7. Depth(f, "i") \in Nat /\ Limit["i"] \in Nat \ {0}
  BY <1>3, GoodStacks
<1>8. First(g, "i") = Depth(f, "i")
  BY <1>2, <1>3, <1>5, <1>6, <1>7 DEF Larger
<1>9. \A t \in Types : First(g, t) = Depth(f, t)
  BY <1>2, <1>5, <1>8
<1>10. SameOwners(f, g)
  BY <1>2, <1>5 DEF SameOwners, SameDepths
<1>11. QED
  BY <1>1, <1>4, <1>5, <1>6, <1>9, <1>10

(***************************************************************************)
(* What is on the operand stacks while a node is visited.  An item is the  *)
(* left operand of its owner, or the address of the frame of the call that *)
(* owns it while parameter k is evaluated.  S[n] is what the walks find on *)
(* the stacks when they come to node n: the same in both.                  *)
(***************************************************************************)
Items == [owner : Nat, k : Int]
Held  == [height : [Types -> Nat], item : [Types -> [Nat -> Items]]]

ItemOf(n, k) == [owner |-> n, k |-> k]

Nothing == [height |-> [t \in Types |-> 0],
            item   |-> [t \in Types |-> [p \in Nat |-> ItemOf(0, 0)]]]

Height(s, t)    == s.height[t]
ItemAt(s, t, p) == s.item[t][p]

On(s, t, it) == [height |-> [s.height EXCEPT ![t] = @ + 1],
                 item   |-> [s.item EXCEPT ![t][s.height[t] + 1] = it]]

\* s1 is s with more on top.
Within(s, s1) ==
    \A t \in Types : /\ Height(s, t) <= Height(s1, t)
                     /\ \A p \in 1 .. Height(s, t) : ItemAt(s1, t, p) = ItemAt(s, t, p)

LEMMA HeldType ==
    ASSUME NEW s \in Held, NEW t \in Types
    PROVE  /\ Height(s, t) \in Nat
           /\ \A p \in 1 .. Height(s, t) : ItemAt(s, t, p) \in Items
<1>1. s.height \in [Types -> Nat] /\ s.item \in [Types -> [Nat -> Items]]
  BY DEF Held
<1>2. Height(s, t) \in Nat /\ s.item[t] \in [Nat -> Items]
  BY <1>1 DEF Height
<1>3. \A p \in 1 .. Height(s, t) : p \in Nat
  BY <1>2
<1>4. QED
  BY <1>2, <1>3 DEF ItemAt

LEMMA NothingIs ==
    Nothing \in Held /\ \A t \in Types : Height(Nothing, t) = 0
<1>1. ItemOf(0, 0) \in Items
  BY DEF ItemOf, Items
<1>2. [t \in Types |-> [p \in Nat |-> ItemOf(0, 0)]] \in [Types -> [Nat -> Items]]
  BY <1>1
<1>3. [t \in Types |-> 0] \in [Types -> Nat]
  OBVIOUS
<1>4. QED
  BY <1>2, <1>3 DEF Nothing, Held, Height

LEMMA OnIs ==
    ASSUME NEW s \in Held, NEW t \in Types, NEW it \in Items
    PROVE  /\ On(s, t, it) \in Held
           /\ Height(On(s, t, it), t) = Height(s, t) + 1
           /\ ItemAt(On(s, t, it), t, Height(s, t) + 1) = it
           /\ \A p \in 1 .. Height(s, t) : ItemAt(On(s, t, it), t, p) = ItemAt(s, t, p)
           /\ \A u \in Types \ {t} :
                 /\ Height(On(s, t, it), u) = Height(s, u)
                 /\ \A p : ItemAt(On(s, t, it), u, p) = ItemAt(s, u, p)
<1>1. s.height \in [Types -> Nat] /\ s.item \in [Types -> [Nat -> Items]]
  BY DEF Held
<1>2. PICK h \in Nat : h = s.height[t]
  BY <1>1
<1>3. PICK a \in [Nat -> Items] : a = s.item[t]
  BY <1>1
<1>4. PICK b : b = [a EXCEPT ![h + 1] = it]
  OBVIOUS
<1>5. /\ b \in [Nat -> Items] /\ b[h + 1] = it
      /\ \A p \in 1 .. h : b[p] = a[p]
  BY <1>3, <1>4
<1>6. PICK height : height = [s.height EXCEPT ![t] = h + 1]
  OBVIOUS
<1>7. /\ height \in [Types -> Nat] /\ height[t] = h + 1
      /\ \A u \in Types \ {t} : height[u] = s.height[u]
  BY <1>1, <1>6
<1>8. PICK item : item = [s.item EXCEPT ![t] = b]
  OBVIOUS
<1>9. /\ item \in [Types -> [Nat -> Items]] /\ item[t] = b
      /\ \A u \in Types \ {t} : item[u] = s.item[u]
  BY <1>1, <1>5, <1>8
<1>10. PICK r : r = On(s, t, it)
  OBVIOUS
<1>11. r.height = height /\ r.item = item /\ r \in Held
  <2>1. r = [height |-> height, item |-> item]
    BY <1>1, <1>2, <1>3, <1>4, <1>6, <1>8, <1>10 DEF On
  <2>2. QED
    BY <1>7, <1>9, <2>1 DEF Held
<1>12. Height(s, t) = h
  BY <1>2 DEF Height
<1>13. \A u \in Types \ {t} : Height(r, u) = Height(s, u) /\ \A p : ItemAt(r, u, p) = ItemAt(s, u, p)
  BY <1>7, <1>9, <1>11 DEF Height, ItemAt
<1>14. /\ Height(r, t) = h + 1 /\ ItemAt(r, t, h + 1) = it
       /\ \A p \in 1 .. h : ItemAt(r, t, p) = ItemAt(s, t, p)
  BY <1>3, <1>5, <1>7, <1>9, <1>11 DEF Height, ItemAt
<1>15. QED
  BY <1>10, <1>11, <1>12, <1>13, <1>14

LEMMA WithinOn ==
    ASSUME NEW s \in Held, NEW t \in Types, NEW it \in Items
    PROVE  Within(s, On(s, t, it)) /\ Within(s, s)
<1>1. \A u \in Types : Height(s, u) \in Nat
  BY HeldType
<1>2. PICK r : r = On(s, t, it)
  OBVIOUS
<1>3. /\ Height(r, t) = Height(s, t) + 1
      /\ \A p \in 1 .. Height(s, t) : ItemAt(r, t, p) = ItemAt(s, t, p)
      /\ \A u \in Types \ {t} : Height(r, u) = Height(s, u)
                                /\ \A p : ItemAt(r, u, p) = ItemAt(s, u, p)
  BY <1>2, OnIs
<1>4. Height(s, t) <= Height(r, t)
  BY <1>1, <1>3
<1>5. Within(s, r)
  BY <1>1, <1>3, <1>4 DEF Within
<1>6. Within(s, s)
  BY <1>1 DEF Within
<1>7. QED
  BY <1>2, <1>5, <1>6

LEMMA WithinItself ==
    ASSUME NEW s \in Held
    PROVE  Within(s, s)
<1>1. \A u \in Types : Height(s, u) \in Nat
  BY HeldType
<1>2. QED
  BY <1>1 DEF Within

LEMMA WithinTransitive ==
    ASSUME NEW s \in Held, NEW s1 \in Held, NEW s2 \in Held, Within(s, s1), Within(s1, s2)
    PROVE  Within(s, s2)
<1> SUFFICES ASSUME NEW t \in Types
             PROVE  /\ Height(s, t) <= Height(s2, t)
                    /\ \A p \in 1 .. Height(s, t) : ItemAt(s2, t, p) = ItemAt(s, t, p)
  BY DEF Within
<1>1. Height(s, t) \in Nat /\ Height(s1, t) \in Nat /\ Height(s2, t) \in Nat
  BY HeldType
<1>2. Height(s, t) <= Height(s1, t) /\ Height(s1, t) <= Height(s2, t)
  BY DEF Within
<1>3. ASSUME NEW p \in 1 .. Height(s, t) PROVE ItemAt(s2, t, p) = ItemAt(s, t, p)
  <2>1. p \in 1 .. Height(s1, t)
    BY <1>1, <1>2
  <2>2. QED
    BY <2>1 DEF Within
<1>4. QED
  BY <1>1, <1>2, <1>3

\* What call x finds on the stacks: what was there when its node was come to,
\* and what it holds itself.
Before(ns, S, x) ==
    CASE x.call \in {"setupLeft", "left"}   -> On(S[x.n], TypeIn(ns, x.n), ItemOf(x.n, 0))
      [] x.call \in {"setupParam", "param"} -> On(S[x.n], "i", ItemOf(x.n, x.k - 1))
      [] x.call = "store"                   -> On(S[x.n], "i", ItemOf(x.n, x.k))
      [] OTHER                              -> S[x.n]

Tops(ns, S, w) == IF w = <<>> THEN Nothing ELSE Before(ns, S, w[1])

\* Every pending call came to its node with what the call around it left on
\* the stacks, and what a call holds is below what the calls it made hold.
Paths(ns, S, w) ==
    /\ S \in [Nat -> Held]
    /\ \A i \in 1 .. Len(w) :
          S[w[i].n] = IF i = Len(w) THEN Nothing ELSE Before(ns, S, w[i + 1])
    /\ \A i, j \in 1 .. Len(w) : i < j => Within(Before(ns, S, w[j]), S[w[i].n])

LEMMA BeforeCases ==
    ASSUME NEW ns, NEW S, NEW x
    PROVE  /\ x.call \in {"setupLeft", "left"} =>
                 Before(ns, S, x) = On(S[x.n], TypeIn(ns, x.n), ItemOf(x.n, 0))
           /\ x.call \in {"setupParam", "param"} =>
                 Before(ns, S, x) = On(S[x.n], "i", ItemOf(x.n, x.k - 1))
           /\ x.call = "store" => Before(ns, S, x) = On(S[x.n], "i", ItemOf(x.n, x.k))
           /\ x.call \notin {"setupLeft", "left", "setupParam", "param", "store"} =>
                 Before(ns, S, x) = S[x.n]
  BY DEF Before

LEMMA TypeInType ==
    ASSUME NEW ns, NodesOk(ns), NEW n \in 1 .. Len(ns), ns[n].op \in {"arith", "cmp"}
    PROVE  TypeIn(ns, n) \in Types
<1>1. Len(Args(ns, n)) = 2
  BY DEF NodesOk
<1>2. 1 \in 1 .. Len(Args(ns, n))
  BY <1>1
<1>3. Args(ns, n)[1] \in 1 .. Len(ns) /\ ns \in Seq(NodeRecord)
  BY <1>2 DEF NodesOk
<1>4. ns[Args(ns, n)[1]] \in NodeRecord
  BY <1>3, ElementOfSeq
<1>5. QED
  BY <1>4 DEF TypeIn, NodeRecord

\* The call holds an item of its node, or nothing.
LEMMA BeforeIs ==
    ASSUME NEW ns, NodesOk(ns), NEW p, NEW x, TaskOk(ns, p, x), NEW S \in [Nat -> Held]
    PROVE  /\ x.n \in Nat /\ S[x.n] \in Held /\ Before(ns, S, x) \in Held
           /\ Within(S[x.n], Before(ns, S, x))
           /\ \/ Before(ns, S, x) = S[x.n]
              \/ \E t \in Types, k \in Int : Before(ns, S, x) = On(S[x.n], t, ItemOf(x.n, k))
<1>1. /\ x \in TaskRecord /\ x.n \in 1 .. Len(ns) /\ x.n \in Nat /\ x.k \in Int
  BY DEF TaskOk, TaskRecord
<1>2. S[x.n] \in Held /\ "i" \in Types
  BY <1>1 DEF Types
<1>3. \A k \in Int : ItemOf(x.n, k) \in Items
  BY <1>1 DEF ItemOf, Items
<1>4. ASSUME NEW t \in Types, NEW k \in Int, Before(ns, S, x) = On(S[x.n], t, ItemOf(x.n, k))
      PROVE  Before(ns, S, x) \in Held /\ Within(S[x.n], Before(ns, S, x))
  BY <1>2, <1>3, <1>4, OnIs, WithinOn
<1>5. \/ Before(ns, S, x) = S[x.n]
      \/ \E t \in Types, k \in Int : Before(ns, S, x) = On(S[x.n], t, ItemOf(x.n, k))
  <2>1. CASE x.call \in {"setupLeft", "left"}
    <3>1. TypeIn(ns, x.n) \in Types
      BY <1>1, <2>1, TypeInType DEF TaskOk
    <3>2. 0 \in Int /\ Before(ns, S, x) = On(S[x.n], TypeIn(ns, x.n), ItemOf(x.n, 0))
      BY <2>1, BeforeCases
    <3>3. QED
      BY <3>1, <3>2
  <2>2. CASE x.call \in {"setupParam", "param"}
    <3>1. x.k - 1 \in Int /\ Before(ns, S, x) = On(S[x.n], "i", ItemOf(x.n, x.k - 1))
      BY <1>1, <2>2, BeforeCases
    <3>2. QED
      BY <1>2, <3>1
  <2>3. CASE x.call = "store"
    <3>1. Before(ns, S, x) = On(S[x.n], "i", ItemOf(x.n, x.k))
      BY <2>3, BeforeCases
    <3>2. QED
      BY <1>1, <1>2, <3>1
  <2>4. CASE x.call \notin {"setupLeft", "left", "setupParam", "param", "store"}
    BY <2>4, BeforeCases
  <2>5. QED
    BY <2>1, <2>2, <2>3, <2>4
<1>6. CASE Before(ns, S, x) = S[x.n]
  <2>1. ItemOf(x.n, 0) \in Items
    BY <1>3
  <2>2. Within(S[x.n], S[x.n])
    BY <1>2, <2>1, WithinOn
  <2>3. QED
    BY <1>1, <1>2, <1>6, <2>2
<1>7. CASE \E t \in Types, k \in Int : Before(ns, S, x) = On(S[x.n], t, ItemOf(x.n, k))
  BY <1>1, <1>2, <1>4, <1>5, <1>7
<1>8. QED
  BY <1>5, <1>6, <1>7

\* A call that is not disturbed still holds what it held.
LEMMA BeforeKept ==
    ASSUME NEW ns, NodesOk(ns), NEW ns1, NEW N, N \subseteq Unseen(ns), Grown(ns, ns1, N),
           NEW p, NEW x, TaskOk(ns, p, x), NEW S, NEW S1, S1[x.n] = S[x.n]
    PROVE  Before(ns1, S1, x) = Before(ns, S, x)
<1>1. CASE x.call \in {"setupLeft", "left"}
  <2>1. x.n \in 1 .. Len(ns) /\ ns[x.n].op \in {"arith", "cmp"}
    BY <1>1 DEF TaskOk
  <2>2. x.n \notin N
    BY <2>1 DEF Unseen
  <2>3. Args(ns1, x.n) = Args(ns, x.n)
    BY <2>1, <2>2 DEF Grown, Args
  <2>4. Args(ns, x.n)[1] \in 1 .. Len(ns)
    <3>1. Len(Args(ns, x.n)) = 2
      BY <2>1 DEF NodesOk
    <3>2. 1 \in 1 .. Len(Args(ns, x.n))
      BY <3>1
    <3>3. QED
      BY <2>1, <3>2 DEF NodesOk
  <2>5. TypeIn(ns1, x.n) = TypeIn(ns, x.n)
    BY <2>3, <2>4 DEF Grown, TypeIn
  <2>6. QED
    BY <1>1, <2>5, BeforeCases
<1>2. CASE x.call \in {"setupParam", "param"}
  BY <1>2, BeforeCases
<1>3. CASE x.call = "store"
  BY <1>3, BeforeCases
<1>4. CASE x.call \notin {"setupLeft", "left", "setupParam", "param", "store"}
  BY <1>4, BeforeCases
<1>5. QED
  BY <1>1, <1>2, <1>3, <1>4

LEMMA NoPaths ==
    ASSUME NEW ns, NEW S \in [Nat -> Held]
    PROVE  Paths(ns, S, <<>>) /\ Tops(ns, S, <<>>) = Nothing
<1>1. Len(<<>>) = 0 /\ 1 .. 0 = {}
  BY EmptySeq
<1>2. PICK w : w = <<>> /\ Len(w) = 0
  BY <1>1
<1>3. Paths(ns, S, w)
  BY <1>1, <1>2 DEF Paths
<1>4. QED
  BY <1>2, <1>3 DEF Tops

\* The innermost call returns: the stacks are as they were when it came.
LEMMA PathsRest ==
    ASSUME NEW ns, NodesOk(ns), NEW p, NEW w, WorkOk(ns, p, w), w # <<>>, NEW S,
           Paths(ns, S, w), NEW ns1, NEW N, N \subseteq Unseen(ns), Grown(ns, ns1, N),
           NEW S1 \in [Nat -> Held], \A n \in 1 .. Len(ns) : S1[n] = S[n]
    PROVE  Paths(ns1, S1, Tail(w)) /\ Tops(ns1, S1, Tail(w)) = S[w[1].n]
<1>1. PICK l \in Nat \ {0} : l = Len(w)
  BY EmptySeq DEF WorkOk
<1>2. PICK v \in Seq(TaskRecord) : /\ v = Tail(w) /\ Len(v) = l - 1
                                   /\ \A i \in 1 .. (l - 1) : v[i] = w[i + 1]
  <2>1. PICK v : v = Tail(w)
    OBVIOUS
  <2>2. v \in Seq(TaskRecord) /\ Len(v) = l - 1 /\ \A i \in 1 .. Len(v) : v[i] = w[i + 1]
    BY <1>1, <2>1, HeadTailProperties DEF WorkOk
  <2>3. \A i \in 1 .. (l - 1) : v[i] = w[i + 1]
    BY <2>2
  <2>4. QED
    BY <2>1, <2>2, <2>3
<1>3. \A i \in 1 .. l : /\ TaskOk(ns, p, w[i]) /\ w[i].n \in 1 .. Len(ns)
                        /\ S1[w[i].n] = S[w[i].n]
  BY <1>1 DEF WorkOk, TaskOk
<1>4. \A i \in 1 .. l : Before(ns1, S1, w[i]) = Before(ns, S, w[i])
  BY <1>3, BeforeKept
<1>5. \A i \in 1 .. (l - 1) : i + 1 \in 1 .. l
  BY <1>1
<1>6. ASSUME NEW i \in 1 .. (l - 1)
      PROVE  S1[v[i].n] = IF i = l - 1 THEN Nothing ELSE Before(ns1, S1, v[i + 1])
  <2>1. i + 1 \in 1 .. l /\ v[i] = w[i + 1]
    BY <1>2, <1>5
  <2>2. S[w[i + 1].n] = IF i + 1 = l THEN Nothing ELSE Before(ns, S, w[i + 1 + 1])
    BY <1>1, <2>1 DEF Paths
  <2>3. CASE i = l - 1
    BY <1>3, <2>1, <2>2, <2>3
  <2>4. CASE i # l - 1
    <3>1. i + 1 \in 1 .. (l - 1) /\ i + 1 + 1 \in 1 .. l /\ i + 1 # l
      BY <2>4
    <3>2. v[i + 1] = w[i + 1 + 1]
      BY <1>2, <3>1
    <3>3. Before(ns1, S1, w[i + 1 + 1]) = Before(ns, S, w[i + 1 + 1])
      BY <1>4, <3>1
    <3>4. QED
      BY <1>3, <2>1, <2>2, <2>4, <3>1, <3>2, <3>3
  <2>5. QED
    BY <2>3, <2>4
<1>7. ASSUME NEW i \in 1 .. (l - 1), NEW j \in 1 .. (l - 1), i < j
      PROVE  Within(Before(ns1, S1, v[j]), S1[v[i].n])
  <2>1. i + 1 \in 1 .. l /\ j + 1 \in 1 .. l /\ i + 1 < j + 1
    BY <1>5, <1>7
  <2>2. Within(Before(ns, S, w[j + 1]), S[w[i + 1].n])
    BY <1>1, <2>1 DEF Paths
  <2>3. v[i] = w[i + 1] /\ v[j] = w[j + 1]
    BY <1>2
  <2>4. QED
    BY <1>3, <1>4, <2>1, <2>2, <2>3
<1>8. Paths(ns1, S1, v)
  BY <1>2, <1>6, <1>7 DEF Paths
<1>9. Tops(ns1, S1, v) = S[w[1].n]
  <2>1. 1 \in 1 .. l
    BY <1>1
  <2>2. S[w[1].n] = IF 1 = l THEN Nothing ELSE Before(ns, S, w[1 + 1])
    BY <1>1, <2>1 DEF Paths
  <2>3. CASE l = 1
    <3>1. v = <<>>
      BY <1>2, <2>3, EmptySeq
    <3>2. QED
      BY <2>2, <2>3, <3>1 DEF Tops
  <2>4. CASE l # 1
    <3>1. 2 \in 1 .. l /\ 1 \in 1 .. (l - 1) /\ 1 + 1 = 2
      BY <2>4
    <3>2. v # <<>>
      <4>1. Len(<<>>) = 0
        BY EmptySeq
      <4>2. Len(v) # 0
        BY <1>2, <2>4
      <4>3. QED
        BY <4>1, <4>2
    <3>3. v[1] = w[2] /\ Before(ns1, S1, w[2]) = Before(ns, S, w[2])
      BY <1>2, <1>4, <3>1
    <3>4. QED
      BY <2>2, <2>4, <3>1, <3>2, <3>3 DEF Tops
  <2>5. QED
    BY <2>3, <2>4
<1>10. QED
  BY <1>2, <1>8, <1>9

\* Another call comes to its node with what is on the stacks.
LEMMA PathsCall ==
    ASSUME NEW ns, NodesOk(ns), NEW p, NEW w, WorkOk(ns, p, w), NEW x, TaskOk(ns, p, x),
           NEW S, Paths(ns, S, w), S[x.n] = Tops(ns, S, w)
    PROVE  /\ Paths(ns, S, <<x>> \o w)
           /\ Tops(ns, S, <<x>> \o w) = Before(ns, S, x)
<1>1. w \in Seq(TaskRecord) /\ x \in TaskRecord /\ S \in [Nat -> Held]
  BY DEF WorkOk, TaskOk, Paths
<1>2. PICK l \in Nat : l = Len(w)
  BY <1>1, LenProperties
<1>3. PICK v \in Seq(TaskRecord) :
         /\ v = <<x>> \o w /\ Len(v) = l + 1 /\ v[1] = x
         /\ \A i \in 2 .. (l + 1) : v[i] = w[i - 1]
  <2>1. <<x>> \in Seq(TaskRecord) /\ Len(<<x>>) = 1 /\ <<x>>[1] = x
    BY <1>1
  <2>2. PICK a \in Seq(TaskRecord) : a = <<x>> /\ Len(a) = 1 /\ a[1] = x
    BY <2>1
  <2>3. PICK v : v = a \o w
    OBVIOUS
  <2>4. /\ v \in Seq(TaskRecord) /\ Len(v) = Len(a) + Len(w)
        /\ \A i \in 1 .. Len(a) + Len(w) : v[i] = IF i <= Len(a) THEN a[i] ELSE w[i - Len(a)]
    BY <1>1, <2>2, <2>3, ConcatProperties
  <2>5. Len(v) = l + 1
    BY <1>2, <2>2, <2>4
  <2>6. \A i \in 1 .. (l + 1) : v[i] = IF i <= 1 THEN a[i] ELSE w[i - 1]
    BY <1>2, <2>2, <2>4
  <2>7. v[1] = x
    <3>1. 1 \in 1 .. (l + 1)
      OBVIOUS
    <3>2. QED
      BY <2>2, <2>6, <3>1
  <2>8. \A i \in 2 .. (l + 1) : v[i] = w[i - 1]
    BY <2>6
  <2>9. QED
    BY <2>2, <2>3, <2>4, <2>5, <2>7, <2>8
<1>4. \A i \in 1 .. l : TaskOk(ns, p, w[i])
  BY <1>2 DEF WorkOk
<1>5. \A i \in 1 .. l : Before(ns, S, w[i]) \in Held /\ S[w[i].n] \in Held
                        /\ Within(S[w[i].n], Before(ns, S, w[i]))
  BY <1>1, <1>4, BeforeIs
<1>6. S[x.n] = IF l = 0 THEN Nothing ELSE Before(ns, S, w[1])
  <2>1. CASE l = 0
    <3>1. w = <<>>
      BY <1>1, <1>2, <2>1, EmptySeq
    <3>2. QED
      BY <2>1, <3>1 DEF Tops
  <2>2. CASE l # 0
    <3>1. w # <<>>
      BY <1>2, <2>2, EmptySeq
    <3>2. QED
      BY <2>2, <3>1 DEF Tops
  <2>3. QED
    BY <2>1, <2>2
<1>7. ASSUME NEW i \in 1 .. (l + 1)
      PROVE  S[v[i].n] = IF i = l + 1 THEN Nothing ELSE Before(ns, S, v[i + 1])
  <2>1. CASE i = 1
    <3>1. CASE l = 0
      BY <1>3, <1>6, <2>1, <3>1
    <3>2. CASE l # 0
      <4>1. 2 \in 2 .. (l + 1)
        BY <3>2
      <4>2. v[2] = w[2 - 1]
        BY <1>3, <4>1
      <4>3. v[2] = w[1]
        BY <4>2
      <4>4. QED
        BY <1>3, <1>6, <2>1, <3>2, <4>3
    <3>3. QED
      BY <3>1, <3>2
  <2>2. CASE i # 1
    <3>1. i \in 2 .. (l + 1) /\ i - 1 \in 1 .. l
      BY <2>2
    <3>2. v[i] = w[i - 1]
      BY <1>3, <3>1
    <3>3. S[w[i - 1].n] = IF i - 1 = l THEN Nothing ELSE Before(ns, S, w[(i - 1) + 1])
      BY <1>2, <3>1 DEF Paths
    <3>4. CASE i = l + 1
      <4>1. i - 1 = l
        BY <3>4
      <4>2. QED
        BY <3>2, <3>3, <3>4, <4>1
    <3>5. CASE i # l + 1
      <4>1. i + 1 \in 2 .. (l + 1) /\ (i - 1) + 1 = (i + 1) - 1 /\ i - 1 # l
        BY <3>1, <3>5
      <4>2. v[i + 1] = w[(i - 1) + 1]
        BY <1>3, <4>1
      <4>3. QED
        BY <3>2, <3>3, <3>5, <4>1, <4>2
    <3>6. QED
      BY <3>4, <3>5
  <2>3. QED
    BY <2>1, <2>2
<1>8. ASSUME NEW i \in 1 .. (l + 1), NEW j \in 1 .. (l + 1), i < j
      PROVE  Within(Before(ns, S, v[j]), S[v[i].n])
  <2>1. j \in 2 .. (l + 1) /\ j - 1 \in 1 .. l
    BY <1>8
  <2>2. v[j] = w[j - 1]
    BY <1>3, <2>1
  <2>3. CASE i = 1
    <3>1. S[v[i].n] = Before(ns, S, w[1]) /\ 1 \in 1 .. l
      BY <1>3, <1>6, <2>1, <2>3
    <3>2. CASE j - 1 = 1
      <4>1. Before(ns, S, w[1]) \in Held
        BY <1>5, <3>1
      <4>2. Within(Before(ns, S, w[1]), Before(ns, S, w[1]))
        BY <4>1, WithinItself
      <4>3. QED
        BY <2>2, <3>1, <3>2, <4>2
    <3>3. CASE j - 1 # 1
      <4>1. 1 < j - 1
        BY <2>1, <3>3
      <4>2. Within(Before(ns, S, w[j - 1]), S[w[1].n])
        BY <1>2, <2>1, <3>1, <4>1 DEF Paths
      <4>3. /\ Before(ns, S, w[j - 1]) \in Held /\ S[w[1].n] \in Held
            /\ Before(ns, S, w[1]) \in Held /\ Within(S[w[1].n], Before(ns, S, w[1]))
        BY <1>5, <2>1, <3>1
      <4>4. Within(Before(ns, S, w[j - 1]), Before(ns, S, w[1]))
        BY <4>2, <4>3, WithinTransitive
      <4>5. QED
        BY <2>2, <3>1, <4>4
    <3>4. QED
      BY <3>2, <3>3
  <2>4. CASE i # 1
    <3>1. i \in 2 .. (l + 1) /\ i - 1 \in 1 .. l /\ i - 1 < j - 1
      BY <1>8, <2>4
    <3>2. v[i] = w[i - 1]
      BY <1>3, <3>1
    <3>3. Within(Before(ns, S, w[j - 1]), S[w[i - 1].n])
      BY <1>2, <2>1, <3>1 DEF Paths
    <3>4. QED
      BY <2>2, <3>2, <3>3
  <2>5. QED
    BY <2>3, <2>4
<1>9. Paths(ns, S, v)
  BY <1>1, <1>3, <1>7, <1>8 DEF Paths
<1>10. v # <<>>
  BY <1>3, EmptySeq
<1>11. Tops(ns, S, v) = Before(ns, S, x)
  BY <1>3, <1>10 DEF Tops
<1>12. QED
  BY <1>3, <1>9, <1>11

\* No two pending calls that hold something are at the same node.
LEMMA HoldersDiffer ==
    ASSUME NEW ns, NodesOk(ns), NEW p, NEW w, WorkOk(ns, p, w), NEW S, Paths(ns, S, w),
           NEW i \in 1 .. Len(w), NEW j \in 1 .. Len(w), i < j,
           w[j].call \in {"setupLeft", "left", "setupParam", "param", "store"}
    PROVE  w[i].n # w[j].n
<1>1. TaskOk(ns, p, w[j]) /\ S \in [Nat -> Held]
  BY DEF WorkOk, Paths
<1>2. PICK s \in Held : s = S[w[j].n] /\ w[j].n \in Nat
  BY <1>1, BeforeIs
<1>3. Within(Before(ns, S, w[j]), S[w[i].n])
  BY DEF Paths
<1>4. PICK t \in Types, k \in Int : Before(ns, S, w[j]) = On(s, t, ItemOf(w[j].n, k))
  <2>1. w[j].k \in Int /\ "i" \in Types
    BY <1>1 DEF TaskOk, TaskRecord, Types
  <2>2. CASE w[j].call \in {"setupLeft", "left"}
    <3>1. TypeIn(ns, w[j].n) \in Types
      BY <1>1, <2>2, TypeInType DEF TaskOk
    <3>2. 0 \in Int /\ Before(ns, S, w[j]) = On(S[w[j].n], TypeIn(ns, w[j].n), ItemOf(w[j].n, 0))
      BY <2>2, BeforeCases
    <3>3. QED
      BY <1>2, <3>1, <3>2
  <2>3. CASE w[j].call \in {"setupParam", "param"}
    <3>1. w[j].k - 1 \in Int
          /\ Before(ns, S, w[j]) = On(S[w[j].n], "i", ItemOf(w[j].n, w[j].k - 1))
      BY <2>1, <2>3, BeforeCases
    <3>2. QED
      BY <1>2, <2>1, <3>1
  <2>4. CASE w[j].call = "store"
    <3>1. Before(ns, S, w[j]) = On(S[w[j].n], "i", ItemOf(w[j].n, w[j].k))
      BY <2>4, BeforeCases
    <3>2. QED
      BY <1>2, <2>1, <3>1
  <2>5. QED
    BY <2>2, <2>3, <2>4
<1>5. ItemOf(w[j].n, k) \in Items
  BY <1>2 DEF ItemOf, Items
<1>6. Height(Before(ns, S, w[j]), t) = Height(s, t) + 1 /\ Height(s, t) \in Nat
  BY <1>4, <1>5, OnIs, HeldType
<1>7. Height(Before(ns, S, w[j]), t) <= Height(S[w[i].n], t)
  BY <1>3 DEF Within
<1>8. QED
  BY <1>2, <1>6, <1>7

(***************************************************************************)
(* What the walks know about the nodes and their items.                    *)
(***************************************************************************)
TwoOps == {"arith", "cmp"}

\* A node's operands find on the stacks what the node found, below what it
\* holds itself while they are visited.
PathOf(ns, S) ==
    \A n \in 1 .. Len(ns) :
        /\ ns[n].op \in {"part", "cast"} => S[Args(ns, n)[1]] = S[n]
        /\ ns[n].op \in TwoOps =>
              /\ S[Args(ns, n)[1]] = S[n]
              /\ S[Args(ns, n)[2]] = On(S[n], TypeIn(ns, n), ItemOf(n, 0))
        /\ ns[n].op = "call" =>
              \A k \in 1 .. Len(Args(ns, n)) : S[Args(ns, n)[k]] = On(S[n], "i", ItemOf(n, k))

Typed(ns) ==
    \A n \in 1 .. Len(ns) :
        /\ ns[n].op = "leaf" => Len(Args(ns, n)) = 0
        /\ ns[n].op = "part" => TypeIn(ns, n) = ns[n].type
        /\ ns[n].op = "cast" => TypeIn(ns, n) = "i" /\ ns[n].type = "f"
        /\ ns[n].op = "arith" => TypeIn(ns, n) = ns[n].type
        /\ ns[n].op = "cmp" => ns[n].type = "i"
        /\ ns[n].op \in TwoOps => ns[Args(ns, n)[2]].type = TypeIn(ns, n)

\* Item it is the p-th on stack t: right above what its owner found there.
Placed(ns, S, it, t, p) ==
    /\ it.owner \in 1 .. Len(ns) /\ Height(S[it.owner], t) = p - 1
    /\ \/ ns[it.owner].op = "call" /\ t = "i"
       \/ ns[it.owner].op \in TwoOps /\ t = TypeIn(ns, it.owner) /\ it.k = 0

ItemsOk(ns, S) ==
    \A n \in 1 .. Len(ns), t \in Types : \A p \in 1 .. Height(S[n], t) :
        LET it == ItemAt(S[n], t, p)
        IN  Placed(ns, S, it, t, p) /\ (ns[it.owner].op = "call" => it.k > 0)

\* Only nodes with two operands and calls have something to spill.
Flags(ns) ==
    \A n \in 1 .. Len(ns) : ns[n].op \notin TwoOps \cup {"call"} => ns[n].spill = 0

Shape(ns, S) == PathOf(ns, S) /\ Typed(ns) /\ ItemsOk(ns, S) /\ Flags(ns)

LEMMA TypeInKept ==
    ASSUME NEW ns, NodesOk(ns), NEW ns1, NEW N, N \subseteq Unseen(ns), Grown(ns, ns1, N),
           NEW n \in 1 .. Len(ns), ns[n].op # "none"
    PROVE  /\ ns1[n].op = ns[n].op /\ Args(ns1, n) = Args(ns, n)
           /\ Len(Args(ns, n)) > 0 => TypeIn(ns1, n) = TypeIn(ns, n)
           /\ \A k \in 1 .. Len(Args(ns, n)) :
                 /\ Args(ns, n)[k] \in 1 .. Len(ns)
                 /\ ns1[Args(ns, n)[k]].type = ns[Args(ns, n)[k]].type
<1>1. n \notin N
  BY DEF Unseen
<1>2. ns1[n].op = ns[n].op /\ Args(ns1, n) = Args(ns, n)
  BY <1>1 DEF Grown, Args
<1>3. \A k \in 1 .. Len(Args(ns, n)) : Args(ns, n)[k] \in 1 .. Len(ns)
  BY DEF NodesOk
<1>4. \A k \in 1 .. Len(Args(ns, n)) : ns1[Args(ns, n)[k]].type = ns[Args(ns, n)[k]].type
  BY <1>3 DEF Grown
<1>5. Len(Args(ns, n)) \in Nat
  <2>1. ns[n] \in NodeRecord
    BY ElementOfSeq DEF NodesOk
  <2>2. Args(ns, n) \in Seq(Nat)
    BY <2>1 DEF Args, NodeRecord
  <2>3. QED
    BY <2>2, LenProperties
<1>6. Len(Args(ns, n)) > 0 => TypeIn(ns1, n) = TypeIn(ns, n)
  <2>1. Len(Args(ns, n)) > 0 => 1 \in 1 .. Len(Args(ns, n))
    BY <1>5
  <2>2. QED
    BY <1>2, <1>4, <2>1 DEF TypeIn
<1>7. QED
  BY <1>2, <1>3, <1>4, <1>6

LEMMA ArgCounts ==
    ASSUME NEW ns, NodesOk(ns), NEW n \in 1 .. Len(ns)
    PROVE  /\ Len(Args(ns, n)) \in Nat
           /\ ns[n].op \in {"part", "cast"} => Len(Args(ns, n)) = 1
           /\ ns[n].op \in TwoOps => Len(Args(ns, n)) = 2
           /\ ns[n].type \in Types /\ ns[n].op \in NodeOps /\ ns[n].spill \in Nat
<1>1. ns[n] \in NodeRecord
  BY ElementOfSeq DEF NodesOk
<1>2. Args(ns, n) \in Seq(Nat)
  BY <1>1 DEF Args, NodeRecord
<1>3. Len(Args(ns, n)) \in Nat
  BY <1>2, LenProperties
<1>4. QED
  BY <1>1, <1>3 DEF NodesOk, TwoOps, NodeRecord

LEMMA ArgIndex ==
    ASSUME NEW ns, NodesOk(ns), NEW n \in 1 .. Len(ns)
    PROVE  /\ ns[n].op \in {"part", "cast"} => 1 \in 1 .. Len(Args(ns, n))
           /\ ns[n].op \in TwoOps =>
                 /\ 1 \in 1 .. Len(Args(ns, n)) /\ 2 \in 1 .. Len(Args(ns, n))
                 /\ Len(Args(ns, n)) > 0
<1>1. ASSUME ns[n].op \in {"part", "cast"} PROVE 1 \in 1 .. Len(Args(ns, n))
  <2>1. Len(Args(ns, n)) = 1
    BY <1>1, ArgCounts
  <2>2. QED
    BY <2>1
<1>2. ASSUME ns[n].op \in TwoOps
      PROVE  /\ 1 \in 1 .. Len(Args(ns, n)) /\ 2 \in 1 .. Len(Args(ns, n))
             /\ Len(Args(ns, n)) > 0
  <2>1. Len(Args(ns, n)) = 2
    BY <1>2, ArgCounts
  <2>2. QED
    BY <2>1
<1>3. QED
  BY <1>1, <1>2

\* Items stay in their places when nodes are visited that hold none.
LEMMA PlacedKept ==
    ASSUME NEW ns, NodesOk(ns), NEW ns1, NEW N, N \subseteq Unseen(ns), Grown(ns, ns1, N),
           NEW S, NEW S1, \A n \in 1 .. Len(ns) : S1[n] = S[n],
           NEW it, NEW t, NEW p, Placed(ns, S, it, t, p)
    PROVE  Placed(ns1, S1, it, t, p) /\ ns1[it.owner].op = ns[it.owner].op
<1>1. it.owner \in 1 .. Len(ns) /\ ns[it.owner].op # "none"
  BY DEF Placed, TwoOps
<1>2. /\ ns1[it.owner].op = ns[it.owner].op
      /\ Len(Args(ns, it.owner)) > 0 => TypeIn(ns1, it.owner) = TypeIn(ns, it.owner)
  BY <1>1, TypeInKept
<1>3. ns[it.owner].op \in TwoOps => Len(Args(ns, it.owner)) > 0
  <2>1. ns[it.owner].op \in TwoOps => Len(Args(ns, it.owner)) = 2
    BY <1>1, ArgCounts
  <2>2. QED
    BY <2>1
<1>4. Len(ns) \in Nat /\ Len(ns1) \in Nat /\ Len(ns) <= Len(ns1)
  BY LenProperties DEF NodesOk, Grown
<1>5. it.owner \in 1 .. Len(ns1)
  BY <1>1, <1>4
<1>6. Height(S1[it.owner], t) = p - 1
  BY <1>1 DEF Placed
<1>7. QED
  BY <1>2, <1>3, <1>5, <1>6 DEF Placed

\* Recording a spill changes nothing else.
LEMMA ShapeKept ==
    ASSUME NEW ns, NodesOk(ns), NEW ns1, Grown(ns, ns1, {}), Len(ns1) = Len(ns), NEW S,
           Shape(ns, S), Flags(ns1)
    PROVE  Shape(ns1, S)
<1>1. {} \subseteq Unseen(ns)
  OBVIOUS
<1>2. \A n \in 1 .. Len(ns) : /\ ns1[n].op = ns[n].op /\ ns1[n].type = ns[n].type
                              /\ Args(ns1, n) = Args(ns, n)
  BY DEF Grown, Args
<1>3. \A n \in 1 .. Len(ns) : \A k \in 1 .. Len(Args(ns, n)) : Args(ns, n)[k] \in 1 .. Len(ns)
  BY DEF NodesOk
<1>4. \A n \in 1 .. Len(ns) : ns[n].op \in {"part", "cast"} \cup TwoOps =>
                                 1 \in 1 .. Len(Args(ns, n))
  BY ArgIndex
<1>5. \A n \in 1 .. Len(ns) : ns[n].op \in TwoOps => 2 \in 1 .. Len(Args(ns, n))
  BY ArgIndex
<1>6. \A n \in 1 .. Len(ns) : ns[n].op \in {"part", "cast"} \cup TwoOps =>
                                 TypeIn(ns1, n) = TypeIn(ns, n)
  BY <1>2, <1>3, <1>4 DEF TypeIn
<1>7. PathOf(ns1, S)
  BY <1>2, <1>6 DEF Shape, PathOf
<1>8. Typed(ns1)
  <2>1. ASSUME NEW n \in 1 .. Len(ns)
        PROVE  /\ ns1[n].op = "leaf" => Len(Args(ns1, n)) = 0
               /\ ns1[n].op = "part" => TypeIn(ns1, n) = ns1[n].type
               /\ ns1[n].op = "cast" => TypeIn(ns1, n) = "i" /\ ns1[n].type = "f"
               /\ ns1[n].op = "arith" => TypeIn(ns1, n) = ns1[n].type
               /\ ns1[n].op = "cmp" => ns1[n].type = "i"
    BY <1>2, <1>6 DEF Shape, Typed, TwoOps
  <2>2. ASSUME NEW n \in 1 .. Len(ns), ns1[n].op \in TwoOps
        PROVE  ns1[Args(ns1, n)[2]].type = TypeIn(ns1, n)
    <3>1. ns[n].op \in TwoOps
      BY <1>2, <2>2
    <3>2. Args(ns, n)[2] \in 1 .. Len(ns)
      BY <1>3, <1>5, <3>1
    <3>3. ns[Args(ns, n)[2]].type = TypeIn(ns, n)
      BY <3>1 DEF Shape, Typed
    <3>4. QED
      BY <1>2, <1>6, <3>1, <3>2, <3>3
  <2>3. QED
    BY <2>1, <2>2 DEF Typed
<1>9. ItemsOk(ns1, S)
  <2> SUFFICES ASSUME NEW n \in 1 .. Len(ns), NEW t \in Types, NEW p \in 1 .. Height(S[n], t)
               PROVE  LET it == ItemAt(S[n], t, p)
                      IN  /\ Placed(ns1, S, it, t, p)
                          /\ ns1[it.owner].op = "call" => it.k > 0
    BY DEF ItemsOk
  <2>1. PICK it : it = ItemAt(S[n], t, p)
    OBVIOUS
  <2>2. Placed(ns, S, it, t, p) /\ (ns[it.owner].op = "call" => it.k > 0)
    BY <2>1 DEF Shape, ItemsOk
  <2>3. Placed(ns1, S, it, t, p) /\ ns1[it.owner].op = ns[it.owner].op
    BY <1>1, <2>2, PlacedKept
  <2>4. QED
    BY <2>1, <2>2, <2>3
<1>10. QED
  BY <1>7, <1>8, <1>9 DEF Shape


(***************************************************************************)
(* A visit of the first pass: node n gets operator op and operands of the  *)
(* given types, which are new nodes.                                       *)
(***************************************************************************)
Visited(ns, ns1, n, op, types) ==
    /\ n \in Unseen(ns) /\ op \in NodeOps \ {"none"} /\ types \in Seq(Types)
    /\ NodesOk(ns1) /\ Grown(ns, ns1, {n}) /\ Len(ns1) = Len(ns) + Len(types)
    /\ ns1[n].op = op /\ Len(Args(ns1, n)) = Len(types)
    /\ \A m \in 1 .. Len(ns) : ns1[m].spill = ns[m].spill
    /\ \A k \in 1 .. Len(types) :
          /\ Args(ns1, n)[k] = Len(ns) + k
          /\ ns1[Len(ns) + k].op = "none" /\ ns1[Len(ns) + k].type = types[k]
          /\ ns1[Len(ns) + k].spill = 0

\* As many operands, and of the types, as the operator takes.
OperandsFit(ns, n, op, types) ==
    /\ op = "leaf" => Len(types) = 0
    /\ op \in {"part", "cast"} => Len(types) = 1
    /\ op = "part" => types[1] = ns[n].type
    /\ op = "cast" => types[1] = "i" /\ ns[n].type = "f"
    /\ op \in TwoOps => Len(types) = 2 /\ types[2] = types[1]
    /\ op = "arith" => types[1] = ns[n].type
    /\ op = "cmp" => ns[n].type = "i"

LEMMA VisitedIs ==
    ASSUME NEW ns, NodesOk(ns), NEW ns1, NEW n, NEW op, NEW types,
           Visited(ns, ns1, n, op, types)
    PROVE  /\ n \in 1 .. Len(ns) /\ n \in Nat /\ ns[n].op = "none" /\ ns1[n].type = ns[n].type
           /\ Len(ns) \in Nat /\ Len(types) \in Nat /\ \A k \in 1 .. Len(types) : types[k] \in Types
           /\ {n} \subseteq Unseen(ns)
           /\ \A m \in 1 .. Len(ns) : m \in 1 .. Len(ns1)
           /\ \A m \in 1 .. Len(ns1) :
                 m \in 1 .. Len(ns) \/ \E k \in 1 .. Len(types) : m = Len(ns) + k
           /\ \A k \in 1 .. Len(types) :
                 Len(ns) + k \in 1 .. Len(ns1) /\ Len(ns) + k \notin 1 .. Len(ns)
           /\ \A m \in 1 .. Len(ns) : m # n => ns1[m].op = ns[m].op /\ Args(ns1, m) = Args(ns, m)
           /\ Len(types) > 0 => TypeIn(ns1, n) = types[1] /\ types[1] \in Types
<1>1. /\ n \in Unseen(ns) /\ types \in Seq(Types) /\ Len(ns1) = Len(ns) + Len(types)
      /\ Grown(ns, ns1, {n})
  BY DEF Visited
<1>2. PICK l \in Nat : l = Len(ns)
  BY LenProperties DEF NodesOk
<1>3. PICK c \in Nat : c = Len(types)
  BY <1>1, LenProperties
<1>4. \A k \in 1 .. c : types[k] \in Types
  BY <1>1, <1>3, ElementOfSeq
<1>5. n \in 1 .. l /\ n \in Nat /\ ns[n].op = "none"
  BY <1>1, <1>2 DEF Unseen
<1>6. ns1[n].type = ns[n].type
  BY <1>1, <1>2, <1>5 DEF Grown
<1>7. \A m \in 1 .. l : m \in 1 .. (l + c)
  OBVIOUS
<1>8. ASSUME NEW m \in 1 .. (l + c), m \notin 1 .. l
      PROVE  \E k \in 1 .. c : m = l + k
  <2>1. m - l \in 1 .. c /\ m = l + (m - l)
    BY <1>8
  <2>2. QED
    BY <2>1
<1>9. \A k \in 1 .. c : l + k \in 1 .. (l + c) /\ l + k \notin 1 .. l
  OBVIOUS
<1>10. \A m \in 1 .. l : m # n => ns1[m].op = ns[m].op /\ Args(ns1, m) = Args(ns, m)
  BY <1>1, <1>2 DEF Grown, Args
<1>11. c > 0 => TypeIn(ns1, n) = types[1] /\ types[1] \in Types
  <2>1. SUFFICES ASSUME c > 0 PROVE TypeIn(ns1, n) = types[1] /\ types[1] \in Types
    OBVIOUS
  <2>2. 1 \in 1 .. c
    BY <2>1
  <2>3. Args(ns1, n)[1] = l + 1 /\ ns1[l + 1].type = types[1]
    BY <1>2, <1>3, <2>2 DEF Visited
  <2>4. QED
    BY <1>4, <2>2, <2>3 DEF TypeIn
<1>12. QED
  BY <1>1, <1>2, <1>3, <1>4, <1>5, <1>6, <1>7, <1>8, <1>9, <1>10, <1>11

\* What the new nodes find on the stacks is chosen so that the shape is kept.
LEMMA VisitedShape ==
    ASSUME NEW ns, NodesOk(ns), NEW ns1, NEW n, NEW op, NEW types,
           Visited(ns, ns1, n, op, types), OperandsFit(ns, n, op, types),
           NEW S \in [Nat -> Held], Shape(ns, S)
    PROVE  \E S1 \in [Nat -> Held] : (\A m \in 1 .. Len(ns) : S1[m] = S[m]) /\ Shape(ns1, S1)
<1>1. PICK l \in Nat : l = Len(ns) /\ n \in 1 .. l /\ n \in Nat /\ ns[n].op = "none"
  BY VisitedIs
<1>2. PICK c \in Nat : c = Len(types)
  BY VisitedIs
<1>3. /\ Len(ns1) = l + c /\ ns1[n].op = op /\ ns1[n].type = ns[n].type
      /\ Len(Args(ns1, n)) = c /\ Grown(ns, ns1, {n})
      /\ \A k \in 1 .. c : /\ Args(ns1, n)[k] = l + k /\ ns1[l + k].op = "none"
                           /\ ns1[l + k].type = types[k] /\ ns1[l + k].spill = 0
      /\ \A m \in 1 .. l : ns1[m].spill = ns[m].spill
  <2>1. ns1[n].type = ns[n].type
    BY VisitedIs
  <2>2. QED
    BY <1>1, <1>2, <2>1 DEF Visited
<1>4. /\ \A m \in 1 .. (l + c) : m \in 1 .. l \/ \E k \in 1 .. c : m = l + k
      /\ \A k \in 1 .. c : l + k \in 1 .. (l + c) /\ l + k \notin 1 .. l
      /\ \A m \in 1 .. l : m # n => ns1[m].op = ns[m].op /\ Args(ns1, m) = Args(ns, m)
      /\ c > 0 => TypeIn(ns1, n) = types[1] /\ types[1] \in Types
      /\ {n} \subseteq Unseen(ns)
  <2>1. /\ \A m \in 1 .. Len(ns1) :
                 m \in 1 .. Len(ns) \/ \E k \in 1 .. Len(types) : m = Len(ns) + k
        /\ \A k \in 1 .. Len(types) :
                 Len(ns) + k \in 1 .. Len(ns1) /\ Len(ns) + k \notin 1 .. Len(ns)
    BY VisitedIs
  <2>2. /\ \A m \in 1 .. Len(ns) : m # n => ns1[m].op = ns[m].op /\ Args(ns1, m) = Args(ns, m)
        /\ Len(types) > 0 => TypeIn(ns1, n) = types[1] /\ types[1] \in Types
        /\ {n} \subseteq Unseen(ns)
    BY VisitedIs
  <2>3. QED
    BY <1>1, <1>2, <1>3, <2>1, <2>2
<1>5. op \in TwoOps => c = 2 /\ TypeIn(ns1, n) = types[1] /\ types[1] \in Types
  BY <1>2, <1>4 DEF OperandsFit
<1>6. S[n] \in Held
  BY <1>1
<1> DEFINE Found(m) == IF op = "call" THEN On(S[n], "i", ItemOf(n, m - l))
                       ELSE IF op \in TwoOps /\ m = l + 2 THEN On(S[n], types[1], ItemOf(n, 0))
                       ELSE S[n]
<1>7. PICK S1 : S1 = [m \in Nat |-> IF m <= l THEN S[m] ELSE Found(m)]
  OBVIOUS
<1>8. \A m \in Nat : ItemOf(n, m - l) \in Items /\ ItemOf(n, 0) \in Items
  BY <1>1 DEF ItemOf, Items
<1>9. \A m \in Nat : Found(m) \in Held
  <2>1. ASSUME NEW m \in Nat PROVE Found(m) \in Held
    <3>1. CASE op = "call"
      <4>1. On(S[n], "i", ItemOf(n, m - l)) \in Held
        BY <1>6, <1>8, OnIs DEF Types
      <4>2. QED
        BY <3>1, <4>1
    <3>2. CASE op # "call" /\ op \in TwoOps /\ m = l + 2
      <4>1. On(S[n], types[1], ItemOf(n, 0)) \in Held
        BY <1>5, <1>6, <1>8, <2>1, <3>2, OnIs
      <4>2. QED
        BY <3>2, <4>1
    <3>3. CASE op # "call" /\ ~(op \in TwoOps /\ m = l + 2)
      BY <1>6, <3>3
    <3>4. QED
      BY <3>1, <3>2, <3>3
  <2>2. QED
    BY <2>1
<1>10. S1 \in [Nat -> Held]
  <2> HIDE DEF Found
  <2>1. QED
    BY <1>7, <1>9
<1>11. \A m \in 1 .. l : S1[m] = S[m]
  <2> HIDE DEF Found
  <2>1. QED
    BY <1>7
<1>12. \A k \in 1 .. c : S1[l + k] = Found(l + k)
  <2> HIDE DEF Found
  <2>1. ASSUME NEW k \in 1 .. c PROVE S1[l + k] = Found(l + k)
    <3>1. l + k \in Nat /\ ~(l + k <= l)
      OBVIOUS
    <3>2. QED
      BY <1>7, <3>1
  <2>2. QED
    BY <2>1
<1>13. S1[n] = S[n]
  BY <1>1, <1>11
<1>14. PathOf(ns1, S1)
  <2> DEFINE Ok(m) ==
        /\ ns1[m].op \in {"part", "cast"} => S1[Args(ns1, m)[1]] = S1[m]
        /\ ns1[m].op \in TwoOps =>
              /\ S1[Args(ns1, m)[1]] = S1[m]
              /\ S1[Args(ns1, m)[2]] = On(S1[m], TypeIn(ns1, m), ItemOf(m, 0))
        /\ ns1[m].op = "call" =>
              \A k \in 1 .. Len(Args(ns1, m)) : S1[Args(ns1, m)[k]] = On(S1[m], "i", ItemOf(m, k))
  <2>1. ASSUME NEW m \in 1 .. l, m # n PROVE Ok(m)
    <3>1. ns1[m].op = ns[m].op /\ Args(ns1, m) = Args(ns, m) /\ S1[m] = S[m]
      BY <1>4, <1>11, <2>1
    <3>2. \A k \in 1 .. Len(Args(ns, m)) : S1[Args(ns, m)[k]] = S[Args(ns, m)[k]]
      BY <1>1, <1>11 DEF NodesOk
    <3>3. /\ ns[m].op \in {"part", "cast"} => 1 \in 1 .. Len(Args(ns, m))
          /\ ns[m].op \in TwoOps => 1 \in 1 .. Len(Args(ns, m)) /\ 2 \in 1 .. Len(Args(ns, m))
      <4>1. m \in 1 .. Len(ns)
        BY <1>1
      <4>2. QED
        BY <4>1, ArgIndex
    <3>4. ns[m].op \in TwoOps => TypeIn(ns1, m) = TypeIn(ns, m)
      <4>1. SUFFICES ASSUME ns[m].op \in TwoOps PROVE TypeIn(ns1, m) = TypeIn(ns, m)
        OBVIOUS
      <4>2. m \in 1 .. Len(ns)
        BY <1>1
      <4>3. ns[m].op # "none" /\ Len(Args(ns, m)) > 0
        BY <4>1, <4>2, ArgIndex DEF TwoOps
      <4>4. QED
        BY <1>3, <1>4, <4>2, <4>3, TypeInKept
    <3>5. /\ ns[m].op \in {"part", "cast"} => S[Args(ns, m)[1]] = S[m]
          /\ ns[m].op \in TwoOps =>
                /\ S[Args(ns, m)[1]] = S[m]
                /\ S[Args(ns, m)[2]] = On(S[m], TypeIn(ns, m), ItemOf(m, 0))
          /\ ns[m].op = "call" =>
                \A k \in 1 .. Len(Args(ns, m)) : S[Args(ns, m)[k]] = On(S[m], "i", ItemOf(m, k))
      BY <1>1 DEF Shape, PathOf
    <3>6. QED
      BY <3>1, <3>2, <3>3, <3>4, <3>5
  <2>2. Ok(n)
    <3>1. \A k \in 1 .. c : S1[Args(ns1, n)[k]] = Found(l + k)
      <4> HIDE DEF Found
      <4>1. QED
        BY <1>3, <1>12
    <3>2. CASE op \in {"part", "cast"}
      <4>1. c = 1 /\ 1 \in 1 .. c /\ op # "call" /\ op \notin TwoOps
        BY <1>2, <3>2 DEF OperandsFit, TwoOps
      <4>2. Found(l + 1) = S[n]
        BY <4>1
      <4>3. S1[Args(ns1, n)[1]] = S1[n]
        BY <1>13, <3>1, <4>1, <4>2
      <4>4. QED
        BY <1>3, <4>1, <4>3
    <3>3. CASE op \in TwoOps
      <4>1. c = 2 /\ 1 \in 1 .. c /\ 2 \in 1 .. c /\ op # "call" /\ l + 1 # l + 2
        BY <1>5, <3>3 DEF TwoOps
      <4>2. Found(l + 1) = S[n] /\ Found(l + 2) = On(S[n], types[1], ItemOf(n, 0))
        BY <3>3, <4>1
      <4>3. S1[Args(ns1, n)[1]] = S1[n] /\ S1[Args(ns1, n)[2]] = On(S[n], types[1], ItemOf(n, 0))
        BY <1>13, <3>1, <4>1, <4>2
      <4>4. op \notin {"part", "cast"}
        BY <3>3 DEF TwoOps
      <4>5. QED
        BY <1>3, <1>5, <1>13, <3>3, <4>1, <4>3, <4>4
    <3>4. CASE op = "call"
      <4>1. \A k \in 1 .. c : Found(l + k) = On(S[n], "i", ItemOf(n, k))
        <5>1. \A k \in 1 .. c : (l + k) - l = k
          OBVIOUS
        <5>2. QED
          BY <3>4, <5>1
      <4>2. \A k \in 1 .. c : S1[Args(ns1, n)[k]] = On(S1[n], "i", ItemOf(n, k))
        BY <1>13, <3>1, <4>1
      <4>3. op \notin {"part", "cast"} /\ op \notin TwoOps
        BY <3>4 DEF TwoOps
      <4>4. QED
        BY <1>3, <4>2, <4>3
    <3>5. CASE op \notin {"part", "cast", "call"} \cup TwoOps
      BY <1>3, <3>5
    <3>6. QED
      BY <3>2, <3>3, <3>4, <3>5
  <2>3. ASSUME NEW k \in 1 .. c PROVE Ok(l + k)
    BY <1>3, <2>3 DEF TwoOps
  <2> HIDE DEF Ok
  <2>4. \A m \in 1 .. Len(ns1) : Ok(m)
    BY <1>3, <1>4, <2>1, <2>2, <2>3
  <2> USE DEF Ok
  <2>5. QED
    BY <2>4 DEF PathOf
<1> HIDE DEF Found
<1>15. Typed(ns1)
  <2> DEFINE Ok(m) ==
        /\ ns1[m].op = "leaf" => Len(Args(ns1, m)) = 0
        /\ ns1[m].op = "part" => TypeIn(ns1, m) = ns1[m].type
        /\ ns1[m].op = "cast" => TypeIn(ns1, m) = "i" /\ ns1[m].type = "f"
        /\ ns1[m].op = "arith" => TypeIn(ns1, m) = ns1[m].type
        /\ ns1[m].op = "cmp" => ns1[m].type = "i"
        /\ ns1[m].op \in TwoOps => ns1[Args(ns1, m)[2]].type = TypeIn(ns1, m)
  <2>1. ASSUME NEW m \in 1 .. l, m # n PROVE Ok(m)
    <3>1. ns1[m].op = ns[m].op /\ Args(ns1, m) = Args(ns, m) /\ ns1[m].type = ns[m].type
      BY <1>1, <1>3, <1>4, <2>1 DEF Grown
    <3>2. \A k \in 1 .. Len(Args(ns, m)) : ns1[Args(ns, m)[k]].type = ns[Args(ns, m)[k]].type
      BY <1>1, <1>3 DEF Grown, NodesOk
    <3>3. /\ ns[m].op \in {"part", "cast"} => 1 \in 1 .. Len(Args(ns, m))
          /\ ns[m].op \in TwoOps => 1 \in 1 .. Len(Args(ns, m)) /\ 2 \in 1 .. Len(Args(ns, m))
      <4>1. m \in 1 .. Len(ns)
        BY <1>1
      <4>2. QED
        BY <4>1, ArgIndex
    <3>4. ns[m].op \in {"part", "cast"} \cup TwoOps => TypeIn(ns1, m) = TypeIn(ns, m)
      BY <3>1, <3>2, <3>3 DEF TypeIn
    <3>5. /\ ns[m].op = "leaf" => Len(Args(ns, m)) = 0
          /\ ns[m].op = "part" => TypeIn(ns, m) = ns[m].type
          /\ ns[m].op = "cast" => TypeIn(ns, m) = "i" /\ ns[m].type = "f"
          /\ ns[m].op = "arith" => TypeIn(ns, m) = ns[m].type
          /\ ns[m].op = "cmp" => ns[m].type = "i"
          /\ ns[m].op \in TwoOps => ns[Args(ns, m)[2]].type = TypeIn(ns, m)
      BY <1>1 DEF Shape, Typed
    <3>6. ns[m].op = "arith" => ns[m].op \in TwoOps
      BY DEF TwoOps
    <3>7. QED
      BY <3>1, <3>2, <3>3, <3>4, <3>5, <3>6
  <2>2. Ok(n)
    <3>1. op \in TwoOps => ns1[Args(ns1, n)[2]].type = TypeIn(ns1, n)
      <4>1. SUFFICES ASSUME op \in TwoOps PROVE ns1[Args(ns1, n)[2]].type = TypeIn(ns1, n)
        OBVIOUS
      <4>2. 2 \in 1 .. c
        BY <1>5, <4>1
      <4>3. types[2] = types[1]
        BY <4>1 DEF OperandsFit
      <4>4. QED
        BY <1>3, <1>5, <4>1, <4>2, <4>3
    <3>2. op \in {"part", "cast"} => c > 0
      BY <1>2 DEF OperandsFit
    <3>3. op \in {"part", "cast", "arith"} => TypeIn(ns1, n) = types[1]
      BY <1>4, <1>5, <3>2 DEF TwoOps
    <3>4. QED
      BY <1>2, <1>3, <3>1, <3>3 DEF OperandsFit
  <2>3. ASSUME NEW k \in 1 .. c PROVE Ok(l + k)
    BY <1>3, <2>3 DEF TwoOps
  <2> HIDE DEF Ok
  <2>4. \A m \in 1 .. Len(ns1) : Ok(m)
    BY <1>3, <1>4, <2>1, <2>2, <2>3
  <2> USE DEF Ok
  <2>5. QED
    BY <2>4 DEF Typed
<1>16. Flags(ns1)
  <2>1. ASSUME NEW m \in 1 .. l, m # n, ns1[m].op \notin TwoOps \cup {"call"}
        PROVE  ns1[m].spill = 0
    BY <1>1, <1>3, <1>4, <2>1 DEF Shape, Flags
  <2>2. ns1[n].spill = 0
    <3>1. ns[n].op \notin TwoOps \cup {"call"}
      BY <1>1 DEF TwoOps
    <3>2. QED
      BY <1>1, <1>3, <3>1 DEF Shape, Flags
  <2>3. ASSUME NEW m \in 1 .. Len(ns1), ns1[m].op \notin TwoOps \cup {"call"}
        PROVE  ns1[m].spill = 0
    <3>1. CASE m \in 1 .. l
      BY <2>1, <2>2, <2>3, <3>1
    <3>2. CASE \E k \in 1 .. c : m = l + k
      BY <1>3, <3>2
    <3>3. QED
      BY <1>3, <1>4, <3>1, <3>2
  <2>4. QED
    BY <2>3 DEF Flags
<1>17. ItemsOk(ns1, S1)
  <2> DEFINE Fine(s) == \A t \in Types : \A p \in 1 .. Height(s, t) :
                           LET it == ItemAt(s, t, p)
                           IN  /\ Placed(ns1, S1, it, t, p)
                               /\ ns1[it.owner].op = "call" => it.k > 0
  <2>1. ASSUME NEW m \in 1 .. l PROVE Fine(S[m])
    <3> SUFFICES ASSUME NEW t \in Types, NEW p \in 1 .. Height(S[m], t)
                 PROVE  LET it == ItemAt(S[m], t, p)
                        IN  /\ Placed(ns1, S1, it, t, p)
                            /\ ns1[it.owner].op = "call" => it.k > 0
      OBVIOUS
    <3>1. PICK it : it = ItemAt(S[m], t, p)
      OBVIOUS
    <3>2. Placed(ns, S, it, t, p) /\ (ns[it.owner].op = "call" => it.k > 0)
      BY <1>1, <3>1 DEF Shape, ItemsOk
    <3>3. \A x \in 1 .. Len(ns) : S1[x] = S[x]
      BY <1>1, <1>11
    <3>4. Placed(ns1, S1, it, t, p) /\ ns1[it.owner].op = ns[it.owner].op
      <4>1. {n} \subseteq Unseen(ns) /\ Grown(ns, ns1, {n})
        BY <1>3, <1>4
      <4>2. Placed(ns, S, it, t, p)
        BY <3>2
      <4>3. QED
        BY <3>3, <4>1, <4>2, PlacedKept
    <3>5. QED
      BY <3>1, <3>2, <3>4
  <2>2. Fine(S[n])
    BY <1>1, <2>1
  <2>3. ASSUME NEW t \in Types, NEW it \in Items, Placed(ns1, S1, it, t, Height(S[n], t) + 1),
               ns1[it.owner].op = "call" => it.k > 0
        PROVE  Fine(On(S[n], t, it))
    <3> SUFFICES ASSUME NEW u \in Types, NEW p \in 1 .. Height(On(S[n], t, it), u)
                 PROVE  LET i == ItemAt(On(S[n], t, it), u, p)
                        IN  Placed(ns1, S1, i, u, p) /\ (ns1[i.owner].op = "call" => i.k > 0)
      OBVIOUS
    <3>1. PICK r : r = On(S[n], t, it)
      OBVIOUS
    <3>2. /\ Height(r, t) = Height(S[n], t) + 1 /\ ItemAt(r, t, Height(S[n], t) + 1) = it
          /\ \A q \in 1 .. Height(S[n], t) : ItemAt(r, t, q) = ItemAt(S[n], t, q)
          /\ \A v \in Types \ {t} : /\ Height(r, v) = Height(S[n], v)
                                    /\ \A q : ItemAt(r, v, q) = ItemAt(S[n], v, q)
      BY <1>6, <3>1, OnIs
    <3>3. Height(S[n], t) \in Nat
      BY <1>6, HeldType
    <3>4. CASE u = t /\ p = Height(S[n], t) + 1
      BY <2>3, <3>1, <3>2, <3>4
    <3>5. CASE ~(u = t /\ p = Height(S[n], t) + 1)
      <4>1. p \in 1 .. Height(S[n], u) /\ ItemAt(r, u, p) = ItemAt(S[n], u, p)
        BY <3>1, <3>2, <3>3, <3>5
      <4>2. QED
        BY <2>2, <3>1, <4>1
    <3>6. QED
      BY <3>4, <3>5
  <2>4. ASSUME NEW k \in 1 .. c PROVE Fine(S1[l + k])
    <3>1. ItemOf(n, k).owner = n /\ ItemOf(n, 0).owner = n /\ ItemOf(n, k).k = k /\ ItemOf(n, 0).k = 0
      BY DEF ItemOf
    <3>2. ItemOf(n, k) \in Items /\ ItemOf(n, 0) \in Items
      BY <1>1 DEF ItemOf, Items
    <3>3. n \in 1 .. Len(ns1) /\ \A t \in Types : Height(S[n], t) \in Nat
      BY <1>1, <1>3, <1>6, HeldType
    <3>4. CASE op = "call"
      <4>1. "i" \in Types /\ (l + k) - l = k
        BY DEF Types
      <4>2. S1[l + k] = On(S[n], "i", ItemOf(n, k))
        BY <1>12, <3>4, <4>1 DEF Found
      <4>3. Placed(ns1, S1, ItemOf(n, k), "i", Height(S[n], "i") + 1)
        BY <1>3, <1>13, <3>1, <3>3, <3>4, <4>1 DEF Placed
      <4>4. QED
        BY <2>3, <3>1, <3>2, <4>1, <4>2, <4>3
    <3>5. CASE op # "call" /\ op \in TwoOps /\ k = 2
      <4>1. types[1] \in Types /\ TypeIn(ns1, n) = types[1]
        BY <1>5, <3>5
      <4>2. S1[l + k] = On(S[n], types[1], ItemOf(n, 0))
        BY <1>12, <3>5 DEF Found
      <4>3. Placed(ns1, S1, ItemOf(n, 0), types[1], Height(S[n], types[1]) + 1)
        BY <1>3, <1>13, <3>1, <3>3, <3>5, <4>1 DEF Placed
      <4>4. QED
        BY <1>3, <2>3, <3>1, <3>2, <3>5, <4>1, <4>2, <4>3
    <3>6. CASE op # "call" /\ ~(op \in TwoOps /\ k = 2)
      <4>1. S1[l + k] = S[n]
        BY <1>12, <3>6 DEF Found
      <4>2. QED
        BY <2>2, <4>1
    <3>7. QED
      BY <3>4, <3>5, <3>6
  <2>5. ASSUME NEW m \in 1 .. l PROVE Fine(S1[m])
    BY <1>11, <2>1
  <2> HIDE DEF Fine
  <2>6. ASSUME NEW m \in 1 .. Len(ns1) PROVE Fine(S1[m])
    <3>1. CASE m \in 1 .. l
      BY <2>5, <3>1
    <3>2. CASE \E k \in 1 .. c : m = l + k
      BY <2>4, <3>2
    <3>3. QED
      BY <1>3, <1>4, <3>1, <3>2
  <2> USE DEF Fine
  <2>7. QED
    BY <2>6 DEF ItemsOk
<1>18. Shape(ns1, S1)
  BY <1>14, <1>15, <1>16, <1>17 DEF Shape
<1>19. QED
  BY <1>1, <1>10, <1>11, <1>18

(***************************************************************************)
(* What the first pass announces.  An item is marked when its owner says   *)
(* it is spilled by the time the item is on the stack.                     *)
(***************************************************************************)
Marked(ns, it) ==
    IF ns[it.owner].op = "call" THEN ns[it.owner].spill \in 1 .. it.k
                                ELSE ns[it.owner].spill = 1

\* The frame f holds s.
Matches(f, s) ==
    \A t \in Types : /\ Depth(f, t) = Height(s, t)
                     /\ \A p \in 1 .. Height(s, t) : Owner(f, t, p) = ItemAt(s, t, p).owner

\* The p-th item on stack t is on the frame, and spilled.
Live(f, s, it, t, p) == p <= Height(s, t) /\ ItemAt(s, t, p) = it /\ p <= First(f, t)

Settled(ns, f, s, it, t, p) == Marked(ns, it) \/ Live(f, s, it, t, p)

\* The first pass has come to node n, or comes to it now.
Begun(ns, w, n) == ns[n].op # "none" \/ (w # <<>> /\ w[1].call = "setup" /\ w[1].n = n)

\* The visit of node n needs the p-th of h items on stack t spilled: for the
\* register of its result, for its call, or because its own item is.
Wants(ns, w, n, t, p, h) ==
    \/ Begun(ns, w, n) /\ t = ns[n].type /\ p <= h + 1 - Limit[t]
    \/ ns[n].op = "call"
    \/ ns[n].op \in TwoOps /\ t = TypeIn(ns, n) /\ ns[n].spill = 1

\* What a visit needs spilled is marked, or will be when it is popped.
SpillLaw(ns, S, w, f, s) ==
    \A n \in 1 .. Len(ns), t \in Types : \A p \in 1 .. Height(S[n], t) :
        Wants(ns, w, n, t, p, Height(S[n], t)) => Settled(ns, f, s, ItemAt(S[n], t, p), t, p)

\* In the second pass exactly the marked items are spilled.
Exact(ns, f, s) ==
    \A t \in Types : \A p \in 1 .. Height(s, t) :
        p <= First(f, t) <=> Marked(ns, ItemAt(s, t, p))

LEMMA LawStep ==
    ASSUME NEW ns, NEW ns1, NEW S, NEW S1, NEW w, NEW w1, NEW f, NEW f1, NEW s, NEW s1,
           SpillLaw(ns, S, w, f, s),
           \A n \in 1 .. Len(ns) : S1[n] = S[n],
           \A n \in 1 .. Len(ns), t \in Types : \A p \in 1 .. Height(S[n], t) :
              Settled(ns, f, s, ItemAt(S[n], t, p), t, p)
                 => Settled(ns1, f1, s1, ItemAt(S[n], t, p), t, p),
           \A n \in 1 .. Len(ns1), t \in Types : \A p \in 1 .. Height(S1[n], t) :
              Wants(ns1, w1, n, t, p, Height(S1[n], t)) =>
                 \/ n \in 1 .. Len(ns) /\ Wants(ns, w, n, t, p, Height(S1[n], t))
                 \/ Settled(ns1, f1, s1, ItemAt(S1[n], t, p), t, p)
    PROVE  SpillLaw(ns1, S1, w1, f1, s1)
<1> SUFFICES ASSUME NEW n \in 1 .. Len(ns1), NEW t \in Types, NEW p \in 1 .. Height(S1[n], t),
                    Wants(ns1, w1, n, t, p, Height(S1[n], t))
             PROVE  Settled(ns1, f1, s1, ItemAt(S1[n], t, p), t, p)
  BY DEF SpillLaw
<1>1. CASE n \in 1 .. Len(ns) /\ Wants(ns, w, n, t, p, Height(S1[n], t))
  <2>1. S1[n] = S[n]
    BY <1>1
  <2>2. Settled(ns, f, s, ItemAt(S[n], t, p), t, p)
    BY <1>1, <2>1 DEF SpillLaw
  <2>3. QED
    BY <1>1, <2>1, <2>2
<1>2. QED
  BY <1>1

\* The node of call w1[1], if that visits one, finds s1 on the stacks, and what
\* its register needs spilled is.
Reserved(ns1, S1, w1, f1, s1) ==
    (w1 # <<>> /\ w1[1].call = "setup") =>
        LET m == w1[1].n
            t == ns1[m].type
        IN  S1[m] = s1 /\ \A p \in 1 .. Height(s1, t) :
                             p <= Height(s1, t) + 1 - Limit[t] => p <= First(f1, t)

LEMMA ReservedIs ==
    ASSUME NEW ns1, NEW S1, NEW w1, NEW f1, NEW s1, Reserved(ns1, S1, w1, f1, s1),
           w1 # <<>>, w1[1].call = "setup",
           NEW p \in 1 .. Height(s1, ns1[w1[1].n].type),
           p <= Height(s1, ns1[w1[1].n].type) + 1 - Limit[ns1[w1[1].n].type]
    PROVE  S1[w1[1].n] = s1
           /\ Live(f1, s1, ItemAt(s1, ns1[w1[1].n].type, p), ns1[w1[1].n].type, p)
<1>1. PICK t : t = ns1[w1[1].n].type
  OBVIOUS
<1>2. S1[w1[1].n] = s1 /\ p <= First(f1, t)
  BY <1>1 DEF Reserved
<1>3. p <= Height(s1, t)
  BY <1>1
<1>4. QED
  BY <1>1, <1>2, <1>3 DEF Live

\* A visit of node n that pushes and spills, and its next call.
VisitSpills(ns, ns1, n, op, types, S, S1, w, w1, f, f1, s, s1) ==
    /\ NodesOk(ns) /\ Visited(ns, ns1, n, op, types)
    /\ S \in [Nat -> Held] /\ Shape(ns, S) /\ \A m \in 1 .. Len(ns) : S1[m] = S[m]
    /\ w # <<>> /\ w[1].call = "setup" /\ w[1].n = n
    /\ (w1 # <<>> /\ w1[1].call = "setup") => w1[1].n \notin 1 .. Len(ns)
    /\ \A t \in Types : First(f, t) \in Nat /\ First(f1, t) \in Nat
                         /\ First(f, t) <= First(f1, t)
    /\ s \in Held /\ S[n] = s /\ s1 \in Held /\ Within(s, s1)
    /\ Reserved(ns1, S1, w1, f1, s1)
    /\ op = "call" => \A t \in Types : \A p \in 1 .. Height(s, t) : p <= First(f1, t)

\* It keeps the law.
LEMMA VisitedLaw ==
    ASSUME NEW ns, NEW ns1, NEW n, NEW op, NEW types, NEW S, NEW S1, NEW w, NEW w1,
           NEW f, NEW f1, NEW s, NEW s1,
           VisitSpills(ns, ns1, n, op, types, S, S1, w, w1, f, f1, s, s1),
           SpillLaw(ns, S, w, f, s)
    PROVE  SpillLaw(ns1, S1, w1, f1, s1)
<1> USE DEF VisitSpills
<1>1. /\ n \in 1 .. Len(ns) /\ ns[n].op = "none" /\ ns1[n].type = ns[n].type
      /\ {n} \subseteq Unseen(ns)
      /\ \A m \in 1 .. Len(ns) : m # n => ns1[m].op = ns[m].op
      /\ \A m \in 1 .. Len(ns1) :
            m \in 1 .. Len(ns) \/ \E k \in 1 .. Len(types) : m = Len(ns) + k
      /\ \A k \in 1 .. Len(types) : Len(ns) + k \notin 1 .. Len(ns)
  BY VisitedIs
<1>2. /\ Grown(ns, ns1, {n}) /\ ns1[n].op = op
      /\ \A m \in 1 .. Len(ns) : ns1[m].spill = ns[m].spill
      /\ \A k \in 1 .. Len(types) : ns1[Len(ns) + k].op = "none"
  BY DEF Visited
<1>3. ASSUME NEW m \in 1 .. Len(ns), NEW t \in Types, NEW p \in 1 .. Height(S[m], t),
             Settled(ns, f, s, ItemAt(S[m], t, p), t, p)
      PROVE  Settled(ns1, f1, s1, ItemAt(S[m], t, p), t, p)
  <2>1. PICK it : it = ItemAt(S[m], t, p)
    OBVIOUS
  <2>2. Placed(ns, S, it, t, p)
    BY <2>1 DEF Shape, ItemsOk
  <2>3. ns1[it.owner].op = ns[it.owner].op /\ it.owner \in 1 .. Len(ns)
    <3>1. {n} \subseteq Unseen(ns) /\ Grown(ns, ns1, {n})
      BY <1>1, <1>2
    <3>2. ns1[it.owner].op = ns[it.owner].op
      BY <2>2, <3>1, PlacedKept
    <3>3. QED
      BY <2>2, <3>2 DEF Placed
  <2>4. CASE Marked(ns, it)
    <3>1. Marked(ns1, it)
      BY <1>2, <2>3, <2>4 DEF Marked
    <3>2. QED
      BY <2>1, <3>1 DEF Settled
  <2>5. CASE Live(f, s, it, t, p)
    <3>1. p <= Height(s, t) /\ ItemAt(s, t, p) = it /\ p <= First(f, t)
      BY <2>5 DEF Live
    <3>2. p \in 1 .. Height(s, t)
      <4>1. Height(s, t) \in Nat /\ Height(S[m], t) \in Int
        <5>1. S[m] \in Held
          BY LenProperties DEF NodesOk
        <5>2. QED
          BY <5>1, HeldType
      <4>2. QED
        BY <3>1, <4>1
    <3>3. ItemAt(s1, t, p) = it /\ Height(s, t) <= Height(s1, t)
      BY <3>1, <3>2 DEF Within
    <3>4. Height(s, t) \in Nat /\ Height(s1, t) \in Nat
      BY HeldType
    <3>5. p <= Height(s1, t)
      BY <3>2, <3>3, <3>4
    <3>6. p <= First(f1, t)
      <4>1. First(f, t) \in Nat /\ First(f1, t) \in Nat /\ First(f, t) <= First(f1, t)
        OBVIOUS
      <4>2. QED
        BY <3>1, <3>2, <3>4, <4>1
    <3>7. QED
      BY <2>1, <3>3, <3>5, <3>6 DEF Live, Settled
  <2>6. QED
    BY <1>3, <2>1, <2>4, <2>5 DEF Settled
<1>4. ASSUME NEW m \in 1 .. Len(ns1), NEW t \in Types, NEW p \in 1 .. Height(S1[m], t),
             Wants(ns1, w1, m, t, p, Height(S1[m], t))
      PROVE  \/ m \in 1 .. Len(ns) /\ Wants(ns, w, m, t, p, Height(S1[m], t))
             \/ Settled(ns1, f1, s1, ItemAt(S1[m], t, p), t, p)
  <2>1. PICK h : h = Height(S1[m], t)
    OBVIOUS
  <2>2. CASE m \in 1 .. Len(ns) /\ m # n
    <3>1. ns1[m].op = ns[m].op /\ ns1[m].spill = ns[m].spill /\ ns1[m].type = ns[m].type
      BY <1>1, <1>2, <2>2 DEF Grown
    <3>2. Begun(ns1, w1, m) => Begun(ns, w, m)
      BY <2>2, <3>1 DEF Begun
    <3>3. ns[m].op \in TwoOps => TypeIn(ns1, m) = TypeIn(ns, m)
      <4>1. SUFFICES ASSUME ns[m].op \in TwoOps PROVE TypeIn(ns1, m) = TypeIn(ns, m)
        OBVIOUS
      <4>2. m \in 1 .. Len(ns) /\ ns[m].op # "none" /\ Len(Args(ns, m)) > 0
        BY <2>2, <4>1, ArgIndex DEF TwoOps
      <4>3. QED
        BY <1>1, <1>2, <4>2, TypeInKept
    <3>4. Wants(ns, w, m, t, p, h)
      BY <1>4, <2>1, <3>1, <3>2, <3>3 DEF Wants
    <3>5. QED
      BY <2>1, <2>2, <3>4
  <2>3. CASE m = n
    <3>1. Begun(ns, w, n)
      BY DEF Begun
    <3>2. ns1[n].spill = 0
      <4>1. ns[n].op \notin TwoOps \cup {"call"}
        BY <1>1 DEF TwoOps
      <4>2. QED
        BY <1>1, <1>2, <4>1 DEF Shape, Flags
    <3>3. CASE Begun(ns1, w1, m) /\ t = ns1[m].type /\ p <= h + 1 - Limit[t]
      <4>1. Wants(ns, w, n, t, p, h)
        BY <1>1, <2>3, <3>1, <3>3 DEF Wants
      <4>2. QED
        BY <1>1, <2>1, <2>3, <4>1
    <3>4. CASE op = "call"
      <4>1. S1[m] = s /\ p \in 1 .. Height(s, t)
        BY <1>1, <2>3
      <4>2. p <= First(f1, t) /\ ItemAt(s1, t, p) = ItemAt(s, t, p)
            /\ Height(s, t) <= Height(s1, t)
        BY <3>4, <4>1 DEF Within
      <4>3. Height(s, t) \in Nat /\ Height(s1, t) \in Nat
        BY HeldType
      <4>4. p <= Height(s1, t)
        BY <4>1, <4>2, <4>3
      <4>5. QED
        BY <4>1, <4>2, <4>4 DEF Live, Settled
    <3>5. QED
      BY <1>2, <1>4, <2>1, <2>3, <3>2, <3>3, <3>4 DEF Wants
  <2>4. CASE \E k \in 1 .. Len(types) : m = Len(ns) + k
    <3>1. ns1[m].op = "none"
      BY <1>2, <2>4
    <3>2. Begun(ns1, w1, m) /\ t = ns1[m].type /\ p <= h + 1 - Limit[t]
      BY <1>4, <2>1, <3>1 DEF Wants, TwoOps
    <3>3. w1 # <<>> /\ w1[1].call = "setup" /\ w1[1].n = m
      BY <3>1, <3>2 DEF Begun
    <3>4. S1[m] = s1
      BY <3>3 DEF Reserved
    <3>5. Live(f1, s1, ItemAt(s1, t, p), t, p)
      BY <2>1, <3>2, <3>3, <3>4, ReservedIs
    <3>6. QED
      BY <3>4, <3>5 DEF Settled
  <2>5. QED
    BY <1>1, <2>2, <2>3, <2>4
<1>5. QED
  BY <1>3, <1>4, LawStep

\* A visit that records at node n what was spilled: an item that is popped, or
\* that is another one from now on, is marked if it was spilled.
RecordSpills(ns, ns1, n, S, w, w1, f, f1, s, s1) ==
    /\ NodesOk(ns) /\ Grown(ns, ns1, {}) /\ Len(ns1) = Len(ns)
    /\ n \in 1 .. Len(ns) /\ \A m \in 1 .. Len(ns) : m # n => ns1[m].spill = ns[m].spill
    /\ S \in [Nat -> Held] /\ Shape(ns, S) /\ w # <<>> /\ w[1].call # "setup"
    /\ \A it : Marked(ns, it) /\ it.owner = n => Marked(ns1, it)
    /\ \A m \in 1 .. Len(ns), t \in Types : \A p \in 1 .. Height(S[m], t) :
          Live(f, s, ItemAt(S[m], t, p), t, p) =>
             \/ Live(f1, s1, ItemAt(S[m], t, p), t, p)
             \/ Marked(ns1, ItemAt(S[m], t, p))
    /\ Reserved(ns1, S, w1, f1, s1)
    /\ ns[n].op \in TwoOps /\ ns1[n].spill = 1 =>
          \A p \in 1 .. Height(S[n], TypeIn(ns, n)) :
             Live(f1, s1, ItemAt(S[n], TypeIn(ns, n), p), TypeIn(ns, n), p)

\* It keeps the law.
LEMMA RecordedLaw ==
    ASSUME NEW ns, NEW ns1, NEW n, NEW S, NEW w, NEW w1, NEW f, NEW f1, NEW s, NEW s1,
           RecordSpills(ns, ns1, n, S, w, w1, f, f1, s, s1),
           SpillLaw(ns, S, w, f, s)
    PROVE  SpillLaw(ns1, S, w1, f1, s1)
<1> USE DEF RecordSpills
<1>1. \A m \in 1 .. Len(ns) : /\ ns1[m].op = ns[m].op /\ ns1[m].type = ns[m].type
                              /\ Args(ns1, m) = Args(ns, m)
  BY DEF Grown, Args
<1>2. ASSUME NEW m \in 1 .. Len(ns), ns[m].op \in TwoOps PROVE TypeIn(ns1, m) = TypeIn(ns, m)
  <2>1. 1 \in 1 .. Len(Args(ns, m))
    BY <1>2, ArgIndex
  <2>2. Args(ns, m)[1] \in 1 .. Len(ns)
    BY <2>1 DEF NodesOk
  <2>3. QED
    BY <1>1, <2>2 DEF TypeIn
<1>3. ASSUME NEW m \in 1 .. Len(ns), NEW t \in Types, NEW p \in 1 .. Height(S[m], t),
             Settled(ns, f, s, ItemAt(S[m], t, p), t, p)
      PROVE  Settled(ns1, f1, s1, ItemAt(S[m], t, p), t, p)
  <2>1. PICK it : it = ItemAt(S[m], t, p)
    OBVIOUS
  <2>2. it.owner \in 1 .. Len(ns)
    BY <2>1 DEF Shape, ItemsOk, Placed
  <2>3. CASE Marked(ns, it)
    <3>1. Marked(ns1, it)
      <4>1. CASE it.owner = n
        BY <2>3, <4>1
      <4>2. CASE it.owner # n
        BY <1>1, <2>2, <2>3, <4>2 DEF Marked
      <4>3. QED
        BY <4>1, <4>2
    <3>2. QED
      BY <2>1, <3>1 DEF Settled
  <2>4. CASE Live(f, s, it, t, p)
    BY <2>1, <2>4 DEF Settled
  <2>5. QED
    BY <1>3, <2>1, <2>3, <2>4 DEF Settled
<1>4. ASSUME NEW m \in 1 .. Len(ns1), NEW t \in Types, NEW p \in 1 .. Height(S[m], t),
             Wants(ns1, w1, m, t, p, Height(S[m], t))
      PROVE  \/ m \in 1 .. Len(ns) /\ Wants(ns, w, m, t, p, Height(S[m], t))
             \/ Settled(ns1, f1, s1, ItemAt(S[m], t, p), t, p)
  <2>1. PICK h : h = Height(S[m], t)
    OBVIOUS
  <2>2. m \in 1 .. Len(ns)
    OBVIOUS
  <2>3. CASE Begun(ns1, w1, m) /\ t = ns1[m].type /\ p <= h + 1 - Limit[t]
    <3>1. CASE ns1[m].op # "none"
      <4>1. Wants(ns, w, m, t, p, h)
        BY <1>1, <2>2, <2>3, <3>1 DEF Wants, Begun
      <4>2. QED
        BY <2>1, <2>2, <4>1
    <3>2. CASE ns1[m].op = "none"
      <4>1. w1 # <<>> /\ w1[1].call = "setup" /\ w1[1].n = m
        BY <2>3, <3>2 DEF Begun
      <4>2. S[m] = s1
        BY <4>1 DEF Reserved
      <4>3. Live(f1, s1, ItemAt(s1, t, p), t, p)
        BY <2>1, <2>3, <4>1, <4>2, ReservedIs
      <4>4. QED
        BY <4>2, <4>3 DEF Settled
    <3>3. QED
      BY <3>1, <3>2
  <2>4. CASE ns1[m].op = "call"
    <3>1. Wants(ns, w, m, t, p, h)
      BY <1>1, <2>2, <2>4 DEF Wants
    <3>2. QED
      BY <2>1, <2>2, <3>1
  <2>5. CASE ns1[m].op \in TwoOps /\ t = TypeIn(ns1, m) /\ ns1[m].spill = 1
    <3>1. ns[m].op \in TwoOps /\ t = TypeIn(ns, m)
      BY <1>1, <1>2, <2>2, <2>5
    <3>2. CASE m = n
      BY <2>5, <3>1, <3>2 DEF Settled
    <3>3. CASE m # n
      <4>1. Wants(ns, w, m, t, p, h)
        BY <2>2, <2>5, <3>1, <3>3 DEF Wants
      <4>2. QED
        BY <2>1, <2>2, <4>1
    <3>4. QED
      BY <3>2, <3>3
  <2>6. QED
    BY <1>4, <2>1, <2>3, <2>4, <2>5 DEF Wants
<1>5. QED
  BY <1>3, <1>4, LawStep

(***************************************************************************)
(* The frame holds what the walk holds.                                    *)
(***************************************************************************)
LEMMA MatchSame ==
    ASSUME NEW f, NEW g, NEW s, Matches(f, s), SameDepths(f, g), SameOwners(f, g)
    PROVE  Matches(g, s)
<1>1. \A t \in Types : Depth(g, t) = Depth(f, t) /\ Depth(f, t) = Height(s, t)
  BY DEF Matches, SameDepths
<1>2. \A t \in Types : \A p \in 1 .. Height(s, t) : Owner(g, t, p) = Owner(f, t, p)
  BY <1>1 DEF SameOwners
<1>3. QED
  BY <1>1, <1>2 DEF Matches

LEMMA MatchPush ==
    ASSUME NEW f, NEW s \in Held, Matches(f, s), NEW g, NEW t \in Types, NEW it \in Items,
           Depth(g, t) = Depth(f, t) + 1, \A u \in Types \ {t} : Depth(g, u) = Depth(f, u),
           SameOwners(f, g), Owner(g, t, Depth(f, t) + 1) = it.owner
    PROVE  Matches(g, On(s, t, it))
<1>1. PICK r : r = On(s, t, it)
  OBVIOUS
<1>2. /\ Height(r, t) = Height(s, t) + 1
      /\ ItemAt(r, t, Height(s, t) + 1) = it
      /\ \A p \in 1 .. Height(s, t) : ItemAt(r, t, p) = ItemAt(s, t, p)
      /\ \A u \in Types \ {t} : /\ Height(r, u) = Height(s, u)
                                /\ \A p : ItemAt(r, u, p) = ItemAt(s, u, p)
  BY <1>1, OnIs
<1>3. \A u \in Types : Depth(f, u) = Height(s, u) /\ Height(s, u) \in Nat
  BY HeldType DEF Matches
<1>4. \A u \in Types : \A p \in 1 .. Height(s, u) : Owner(g, u, p) = ItemAt(s, u, p).owner
  BY <1>3 DEF Matches, SameOwners
<1>5. \A p \in 1 .. Height(r, t) : Owner(g, t, p) = ItemAt(r, t, p).owner
  <2>1. ASSUME NEW p \in 1 .. Height(r, t) PROVE Owner(g, t, p) = ItemAt(r, t, p).owner
    <3>1. p \in 1 .. Height(s, t) \/ p = Height(s, t) + 1
      BY <1>2, <1>3
    <3>2. CASE p \in 1 .. Height(s, t)
      BY <1>2, <1>4, <3>2
    <3>3. CASE p = Height(s, t) + 1
      BY <1>2, <1>3, <3>3
    <3>4. QED
      BY <3>1, <3>2, <3>3
  <2>2. QED
    BY <2>1
<1>6. \A u \in Types \ {t} : /\ Depth(g, u) = Height(r, u)
                             /\ \A p \in 1 .. Height(r, u) : Owner(g, u, p) = ItemAt(r, u, p).owner
  BY <1>2, <1>3, <1>4
<1>7. Depth(g, t) = Height(r, t)
  BY <1>2, <1>3
<1>8. Matches(g, r)
  BY <1>5, <1>6, <1>7 DEF Matches
<1>9. QED
  BY <1>1, <1>8

LEMMA MatchPop ==
    ASSUME NEW f, NEW s \in Held, NEW t \in Types, NEW it \in Items, Matches(f, On(s, t, it)),
           Good(f)
    PROVE  /\ Depth(f, t) > 0 /\ Depth(f, t) = Height(s, t) + 1 /\ Height(s, t) \in Nat
           /\ Matches(PopTemp(f, t), s)
<1>1. PICK r : r = On(s, t, it)
  OBVIOUS
<1>2. /\ Height(r, t) = Height(s, t) + 1
      /\ \A p \in 1 .. Height(s, t) : ItemAt(r, t, p) = ItemAt(s, t, p)
      /\ \A u \in Types \ {t} : /\ Height(r, u) = Height(s, u)
                                /\ \A p : ItemAt(r, u, p) = ItemAt(s, u, p)
  BY <1>1, OnIs
<1>3. \A u \in Types : /\ Depth(f, u) = Height(r, u) /\ Height(s, u) \in Nat
                       /\ \A p \in 1 .. Height(r, u) : Owner(f, u, p) = ItemAt(r, u, p).owner
  BY <1>1, HeldType DEF Matches
<1>4. Depth(f, t) > 0 /\ Depth(f, t) = Height(s, t) + 1
  BY <1>2, <1>3
<1>5. PICK g : g = PopTemp(f, t)
  OBVIOUS
<1>6. /\ Depth(g, t) = Depth(f, t) - 1 /\ \A u \in Types \ {t} : Depth(g, u) = Depth(f, u)
  BY <1>4, <1>5, PopTempKeeps
<1>7. \A u \in Types : \A k \in 1 .. Depth(g, u) : Owner(g, u, k) = Owner(f, u, k)
  BY <1>4, <1>5, PopTempFirst
<1>8. Depth(g, t) = Height(s, t) /\ \A u \in Types \ {t} : Depth(g, u) = Height(s, u)
  BY <1>2, <1>3, <1>4, <1>6
<1>9. ASSUME NEW u \in Types, NEW p \in 1 .. Height(s, u)
      PROVE  Owner(g, u, p) = ItemAt(s, u, p).owner
  <2>1. Owner(g, u, p) = Owner(f, u, p)
    BY <1>7, <1>8
  <2>2. p \in 1 .. Height(r, u) /\ ItemAt(r, u, p) = ItemAt(s, u, p)
    BY <1>2, <1>3
  <2>3. QED
    BY <1>3, <2>1, <2>2
<1>10. Matches(g, s)
  BY <1>8, <1>9 DEF Matches
<1>11. QED
  BY <1>3, <1>4, <1>5, <1>10

LEMMA MatchReserve ==
    ASSUME NEW f, NEW s \in Held, Matches(f, s), Good(f), NEW t \in Types
    PROVE  LET g == ReserveTemp(f, t)
           IN  /\ Matches(g, s) /\ Keeps(f, g)
               /\ First(g, t) = Larger(First(f, t), Height(s, t) + 1 - Limit[t])
               /\ \A u \in Types \ {t} : First(g, u) = First(f, u)
<1>1. PICK g : g = ReserveTemp(f, t)
  OBVIOUS
<1>2. Keeps(f, g) /\ SameDepths(f, g)
  BY <1>1, ReserveTempKeeps
<1>3. /\ First(g, t) = Larger(First(f, t), Depth(f, t) + 1 - Limit[t])
      /\ \A u \in Types \ {t} : First(g, u) = First(f, u)
      /\ SameOwners(f, g)
  BY <1>1, ReserveTempFirst
<1>4. Matches(g, s)
  BY <1>2, <1>3, MatchSame
<1>5. Depth(f, t) = Height(s, t)
  BY DEF Matches
<1>6. QED
  BY <1>1, <1>2, <1>3, <1>4, <1>5

LEMMA MatchPushTemp ==
    ASSUME NEW f, NEW s \in Held, Matches(f, s), Good(f), NEW t \in Types, NEW it \in Items,
           NEW spill \in BOOLEAN
    PROVE  LET g == PushTemp(f, t, it.owner, spill)
           IN  /\ Matches(g, On(s, t, it)) /\ Keeps(f, g)
               /\ First(g, t) = Larger(First(f, t), IF spill THEN Height(s, t) + 1
                                                    ELSE Height(s, t) + 1 - Limit[t])
               /\ \A u \in Types \ {t} : First(g, u) = First(f, u)
<1>1. PICK owner \in Nat : owner = it.owner
  BY DEF Items
<1>2. PICK g : g = PushTemp(f, t, owner, spill)
  OBVIOUS
<1>3. /\ Keeps(f, g) /\ Depth(g, t) = Depth(f, t) + 1
      /\ \A u \in Types \ {t} : Depth(g, u) = Depth(f, u)
  BY <1>2, PushTempKeeps, Zenon
<1>4. /\ First(g, t) = Larger(First(f, t), IF spill THEN Depth(f, t) + 1
                                           ELSE Depth(f, t) + 1 - Limit[t])
      /\ \A u \in Types \ {t} : First(g, u) = First(f, u)
      /\ SameOwners(f, g) /\ Owner(g, t, Depth(f, t) + 1) = owner
  BY <1>2, PushTempFirst, Zenon
<1>5. Matches(g, On(s, t, it))
  BY <1>1, <1>3, <1>4, MatchPush
<1>6. Depth(f, t) = Height(s, t)
  BY DEF Matches
<1>7. First(g, t) = Larger(First(f, t), IF spill THEN Height(s, t) + 1
                                        ELSE Height(s, t) + 1 - Limit[t])
  <2>1. CASE spill
    BY <1>4, <1>6, <2>1
  <2>2. CASE ~spill
    BY <1>4, <1>6, <2>2
  <2>3. QED
    BY <2>1, <2>2
<1>8. QED
  BY <1>1, <1>2, <1>3, <1>4, <1>5, <1>7, Zenon

LEMMA MatchCall ==
    ASSUME NEW f, NEW s \in Held, Matches(f, s), Good(f), NEW it \in Items
    PROVE  LET g == PushTemp(ForceSpillAll(f), "i", it.owner, FALSE)
           IN  /\ Matches(g, On(s, "i", it)) /\ Keeps(f, g)
               /\ \A t \in Types : First(g, t) = Height(s, t)
<1>1. PICK owner \in Nat : owner = it.owner
  BY DEF Items
<1>2. PICK g : g = PushTemp(ForceSpillAll(f), "i", owner, FALSE)
  OBVIOUS
<1>3. /\ Keeps(f, g) /\ Depth(g, "i") = Depth(f, "i") + 1
      /\ \A t \in Types \ {"i"} : Depth(g, t) = Depth(f, t)
  BY <1>2, CallPushes
<1>4. /\ \A t \in Types : First(g, t) = Depth(f, t)
      /\ SameOwners(f, g) /\ Owner(g, "i", Depth(f, "i") + 1) = owner
  BY <1>2, CallFirst
<1>5. "i" \in Types /\ \A t \in Types : Depth(f, t) = Height(s, t)
  BY DEF Matches, Types
<1>6. Matches(g, On(s, "i", it))
  BY <1>1, <1>3, <1>4, <1>5, MatchPush
<1>7. QED
  BY <1>1, <1>2, <1>3, <1>4, <1>5, <1>6, Zenon

LEMMA MatchAddress ==
    ASSUME NEW f, NEW s \in Held, NEW it \in Items, NEW it1 \in Items, it1.owner = it.owner,
           NEW t \in Types, Matches(f, On(s, t, it))
    PROVE  Matches(f, On(s, t, it1))
<1>1. PICK r : r = On(s, t, it)
  OBVIOUS
<1>2. PICK r1 : r1 = On(s, t, it1)
  OBVIOUS
<1>3. /\ Height(r, t) = Height(s, t) + 1 /\ ItemAt(r, t, Height(s, t) + 1) = it
      /\ \A p \in 1 .. Height(s, t) : ItemAt(r, t, p) = ItemAt(s, t, p)
      /\ \A u \in Types \ {t} : /\ Height(r, u) = Height(s, u)
                                /\ \A p : ItemAt(r, u, p) = ItemAt(s, u, p)
  BY <1>1, OnIs
<1>4. /\ Height(r1, t) = Height(s, t) + 1 /\ ItemAt(r1, t, Height(s, t) + 1) = it1
      /\ \A p \in 1 .. Height(s, t) : ItemAt(r1, t, p) = ItemAt(s, t, p)
      /\ \A u \in Types \ {t} : /\ Height(r1, u) = Height(s, u)
                                /\ \A p : ItemAt(r1, u, p) = ItemAt(s, u, p)
  BY <1>2, OnIs
<1>5. Height(s, t) \in Nat
  BY HeldType
<1>6. \A u \in Types : Height(r1, u) = Height(r, u)
  BY <1>3, <1>4
<1>7. \A u \in Types : \A p \in 1 .. Height(r, u) : ItemAt(r1, u, p).owner = ItemAt(r, u, p).owner
  <2>1. ASSUME NEW u \in Types, NEW p \in 1 .. Height(r, u)
        PROVE  ItemAt(r1, u, p).owner = ItemAt(r, u, p).owner
    <3>1. CASE u # t
      BY <1>3, <1>4, <3>1
    <3>2. CASE u = t
      <4>1. p \in 1 .. Height(s, t) \/ p = Height(s, t) + 1
        BY <1>3, <1>5, <3>2
      <4>2. CASE p \in 1 .. Height(s, t)
        BY <1>3, <1>4, <3>2, <4>2
      <4>3. CASE p = Height(s, t) + 1
        BY <1>3, <1>4, <3>2, <4>3
      <4>4. QED
        BY <4>1, <4>2, <4>3
    <3>3. QED
      BY <3>1, <3>2
  <2>2. QED
    BY <2>1
<1>8. Matches(f, r1)
  BY <1>1, <1>6, <1>7 DEF Matches
<1>9. QED
  BY <1>2, <1>8

(***************************************************************************)
(* What the first pass's pending calls have still to do.                   *)
(***************************************************************************)
\* The call's node has not been told about more spills than the call has seen.
Own(ns, x) == /\ x.call = "setupLeft" => ns[x.n].spill = 0
              /\ x.call = "setupParam" => ns[x.n].spill < x.k

\* Only the innermost call comes to a node.
Waiting(ns, w) == \A i \in 1 .. Len(w) : w[i].call # "setup" /\ Own(ns, w[i])
Pending(ns, w) == \A i \in 1 .. Len(w) : (i > 1 => w[i].call # "setup") /\ Own(ns, w[i])

Expects(ns, w, m) == \E i \in 1 .. Len(w) : m \in Await(ns, w[i])

LEMMA Consed ==
    ASSUME NEW T, NEW x \in T, NEW w \in Seq(T)
    PROVE  LET v == <<x>> \o w
           IN  /\ v \in Seq(T) /\ Len(w) \in Nat /\ Len(v) = Len(w) + 1 /\ v[1] = x
               /\ v # <<>> /\ \A i \in 2 .. (Len(w) + 1) : v[i] = w[i - 1]
<1>1. PICK l \in Nat : l = Len(w)
  BY LenProperties
<1>2. PICK a \in Seq(T) : a = <<x>> /\ Len(a) = 1 /\ a[1] = x
  <2>1. <<x>> \in Seq(T) /\ Len(<<x>>) = 1 /\ <<x>>[1] = x
    OBVIOUS
  <2>2. QED
    BY <2>1
<1>3. PICK v : v = a \o w
  OBVIOUS
<1>4. /\ v \in Seq(T) /\ Len(v) = Len(a) + Len(w)
      /\ \A i \in 1 .. Len(a) + Len(w) : v[i] = IF i <= Len(a) THEN a[i] ELSE w[i - Len(a)]
  BY <1>2, <1>3, ConcatProperties
<1>5. Len(v) = l + 1 /\ \A i \in 1 .. (l + 1) : v[i] = IF i <= 1 THEN a[i] ELSE w[i - 1]
  BY <1>1, <1>2, <1>4
<1>6. v[1] = x
  <2>1. 1 \in 1 .. (l + 1)
    OBVIOUS
  <2>2. QED
    BY <1>2, <1>5, <2>1
<1>7. \A i \in 2 .. (l + 1) : v[i] = w[i - 1]
  BY <1>5
<1>8. v # <<>>
  <2>1. Len(<<>>) = 0
    BY EmptySeq
  <2>2. Len(v) # 0
    BY <1>1, <1>5
  <2>3. QED
    BY <2>1, <2>2
<1>9. QED
  BY <1>1, <1>2, <1>3, <1>4, <1>5, <1>6, <1>7, <1>8

LEMMA Tailed ==
    ASSUME NEW T, NEW w \in Seq(T), w # <<>>
    PROVE  /\ Tail(w) \in Seq(T) /\ Len(w) \in Nat \ {0} /\ Len(Tail(w)) = Len(w) - 1
           /\ \A i \in 1 .. (Len(w) - 1) : Tail(w)[i] = w[i + 1] /\ i + 1 \in 1 .. Len(w)
<1>1. PICK l \in Nat \ {0} : l = Len(w)
  BY EmptySeq
<1>2. PICK v : v = Tail(w)
  OBVIOUS
<1>3. v \in Seq(T) /\ Len(v) = l - 1 /\ \A i \in 1 .. Len(v) : v[i] = w[i + 1]
  BY <1>1, <1>2, HeadTailProperties
<1>4. \A i \in 1 .. (l - 1) : v[i] = w[i + 1] /\ i + 1 \in 1 .. l
  BY <1>1, <1>3
<1>5. QED
  BY <1>1, <1>2, <1>3, <1>4

LEMMA WorkParts ==
    ASSUME NEW ns, NEW p, NEW x \in TaskRecord, NEW w \in Seq(TaskRecord),
           WorkOk(ns, p, <<x>> \o w)
    PROVE  TaskOk(ns, p, x) /\ WorkOk(ns, p, w)
<1>1. PICK l \in Nat : l = Len(w)
  BY LenProperties
<1>2. PICK v : v = <<x>> \o w
  OBVIOUS
<1>3. Len(v) = l + 1 /\ v[1] = x /\ \A i \in 2 .. (l + 1) : v[i] = w[i - 1]
  <2>1. /\ Len(v) = Len(w) + 1 /\ v[1] = x
        /\ \A i \in 2 .. (Len(w) + 1) : v[i] = w[i - 1]
    BY <1>2, Consed
  <2>2. QED
    BY <1>1, <2>1
<1>4. /\ \A i \in 1 .. (l + 1) : TaskOk(ns, p, v[i])
      /\ \A i, j \in 1 .. (l + 1) : i # j => Await(ns, v[i]) \cap Await(ns, v[j]) = {}
  BY <1>2, <1>3 DEF WorkOk
<1>5. 1 \in 1 .. (l + 1) /\ \A i \in 1 .. l : /\ i + 1 \in 1 .. (l + 1)
                                              /\ i + 1 \in 2 .. (l + 1) /\ (i + 1) - 1 = i
  OBVIOUS
<1>6. TaskOk(ns, p, x)
  BY <1>3, <1>4, <1>5
<1>7. \A i \in 1 .. l : v[i + 1] = w[i]
  BY <1>3, <1>5
<1>8. \A i \in 1 .. l : TaskOk(ns, p, w[i])
  BY <1>4, <1>5, <1>7
<1>9. \A i, j \in 1 .. l : i # j => Await(ns, w[i]) \cap Await(ns, w[j]) = {}
  <2>1. ASSUME NEW i \in 1 .. l, NEW j \in 1 .. l, i # j
        PROVE  Await(ns, w[i]) \cap Await(ns, w[j]) = {}
    <3>1. i + 1 # j + 1
      BY <2>1
    <3>2. Await(ns, v[i + 1]) \cap Await(ns, v[j + 1]) = {}
      BY <1>4, <1>5, <3>1
    <3>3. QED
      BY <1>7, <3>2
  <2>2. QED
    BY <2>1
<1>10. QED
  BY <1>1, <1>6, <1>8, <1>9 DEF WorkOk

\* What is expected is expected by the innermost call or by the others.
LEMMA ExpectsCall ==
    ASSUME NEW ns, NEW x \in TaskRecord, NEW w \in Seq(TaskRecord), NEW m
    PROVE  Expects(ns, <<x>> \o w, m) <=> m \in Await(ns, x) \/ Expects(ns, w, m)
<1>1. PICK l \in Nat : l = Len(w)
  BY LenProperties
<1>2. PICK v : v = <<x>> \o w
  OBVIOUS
<1>3. Len(v) = l + 1 /\ v[1] = x /\ \A i \in 2 .. (l + 1) : v[i] = w[i - 1]
  <2>1. /\ Len(v) = Len(w) + 1 /\ v[1] = x
        /\ \A i \in 2 .. (Len(w) + 1) : v[i] = w[i - 1]
    BY <1>2, Consed
  <2>2. QED
    BY <1>1, <2>1
<1>4. 1 \in 1 .. (l + 1) /\ \A i \in 1 .. l : /\ i + 1 \in 1 .. (l + 1)
                                              /\ i + 1 \in 2 .. (l + 1) /\ (i + 1) - 1 = i
  OBVIOUS
<1>5. \A i \in 1 .. (l + 1) : i = 1 \/ (i \in 2 .. (l + 1) /\ i - 1 \in 1 .. l)
  OBVIOUS
<1>6. ASSUME Expects(ns, v, m) PROVE m \in Await(ns, x) \/ Expects(ns, w, m)
  <2>1. PICK i \in 1 .. (l + 1) : m \in Await(ns, v[i])
    BY <1>3, <1>6 DEF Expects
  <2>2. CASE i = 1
    BY <1>3, <2>1, <2>2
  <2>3. CASE i \in 2 .. (l + 1) /\ i - 1 \in 1 .. l
    <3>1. m \in Await(ns, w[i - 1])
      BY <1>3, <2>1, <2>3
    <3>2. QED
      BY <1>1, <2>3, <3>1 DEF Expects
  <2>4. QED
    BY <1>5, <2>2, <2>3
<1>7. ASSUME m \in Await(ns, x) PROVE Expects(ns, v, m)
  BY <1>3, <1>4, <1>7 DEF Expects
<1>8. ASSUME Expects(ns, w, m) PROVE Expects(ns, v, m)
  <2>1. PICK i \in 1 .. l : m \in Await(ns, w[i])
    BY <1>1, <1>8 DEF Expects
  <2>2. v[i + 1] = w[i]
    BY <1>3, <1>4
  <2>3. QED
    BY <1>3, <1>4, <2>1, <2>2 DEF Expects
<1>9. QED
  BY <1>2, <1>6, <1>7, <1>8

\* What the innermost call does not visit is left to the others.
LEMMA ExpectsRest ==
    ASSUME NEW ns, NodesOk(ns), NEW p, NEW w, WorkOk(ns, p, w), w # <<>>,
           NEW ns1, NEW N, N \subseteq Await(ns, w[1]), Grown(ns, ns1, N),
           NEW m, Expects(ns, w, m), m \notin Await(ns, w[1])
    PROVE  Expects(ns1, Tail(w), m)
<1>1. w \in Seq(TaskRecord)
  BY DEF WorkOk
<1>2. PICK l \in Nat \ {0} : /\ l = Len(w) /\ Len(Tail(w)) = l - 1
                             /\ \A i \in 1 .. (l - 1) : Tail(w)[i] = w[i + 1]
  BY <1>1, Tailed
<1>3. PICK i \in 1 .. l : m \in Await(ns, w[i])
  BY <1>2 DEF Expects
<1>4. i # 1 /\ 1 \in 1 .. l /\ i - 1 \in 1 .. (l - 1) /\ (i - 1) + 1 = i
  <2>1. i # 1
    BY <1>3
  <2>2. QED
    BY <2>1
<1>5. TaskOk(ns, p, w[i]) /\ Await(ns, w[i]) \cap Await(ns, w[1]) = {} /\ TaskOk(ns, p, w[1])
  BY <1>2, <1>4 DEF WorkOk
<1>6. N \subseteq Unseen(ns)
  BY <1>5 DEF TaskOk
<1>7. Await(ns, w[i]) \cap N = {}
  BY <1>5
<1>8. Await(ns1, w[i]) = Await(ns, w[i])
  BY <1>5, <1>6, <1>7, TaskKept
<1>9. Tail(w)[i - 1] = w[i]
  BY <1>2, <1>4
<1>10. m \in Await(ns1, Tail(w)[i - 1])
  BY <1>3, <1>8, <1>9
<1>11. QED
  BY <1>2, <1>4, <1>10 DEF Expects

\* Recording a spill does not disturb the calls around.
LEMMA WaitingRest ==
    ASSUME NEW ns, NodesOk(ns), NEW p, NEW w, WorkOk(ns, p, w), w # <<>>, NEW S,
           Paths(ns, S, w), Pending(ns, w), NEW ns1,
           \A m \in 1 .. Len(ns) : m # w[1].n => ns1[m].spill = ns[m].spill
    PROVE  Waiting(ns1, Tail(w))
<1>1. w \in Seq(TaskRecord)
  BY DEF WorkOk
<1>2. PICK l \in Nat \ {0} : /\ l = Len(w) /\ Len(Tail(w)) = l - 1
                             /\ \A i \in 1 .. (l - 1) : Tail(w)[i] = w[i + 1] /\ i + 1 \in 1 .. l
  BY <1>1, Tailed
<1>3. ASSUME NEW i \in 1 .. (l - 1) PROVE Tail(w)[i].call # "setup" /\ Own(ns1, Tail(w)[i])
  <2>1. PICK x : x = w[i + 1] /\ x = Tail(w)[i]
    BY <1>2
  <2>2. i + 1 \in 1 .. l /\ 1 \in 1 .. l /\ i + 1 > 1 /\ 1 < i + 1
    BY <1>2
  <2>3. x.call # "setup" /\ Own(ns, x)
    BY <1>2, <2>1, <2>2 DEF Pending
  <2>4. x.n \in 1 .. Len(ns)
    BY <1>2, <2>1, <2>2 DEF WorkOk, TaskOk
  <2>5. CASE x.call \in {"setupLeft", "setupParam"}
    <3>1. w[i + 1].call \in {"setupLeft", "left", "setupParam", "param", "store"}
      BY <2>1, <2>5
    <3>2. w[1].n # x.n
      BY <1>2, <2>1, <2>2, <3>1, HoldersDiffer
    <3>3. ns1[x.n].spill = ns[x.n].spill
      BY <2>4, <3>2
    <3>4. QED
      BY <2>1, <2>3, <3>3 DEF Own
  <2>6. CASE x.call \notin {"setupLeft", "setupParam"}
    BY <2>1, <2>3, <2>6 DEF Own
  <2>7. QED
    BY <2>5, <2>6
<1>4. QED
  BY <1>2, <1>3 DEF Waiting

LEMMA PendingCall ==
    ASSUME NEW ns, NEW x \in TaskRecord, NEW w \in Seq(TaskRecord), Waiting(ns, w), Own(ns, x)
    PROVE  /\ Pending(ns, <<x>> \o w) /\ Pending(ns, w)
           /\ x.call # "setup" => Waiting(ns, <<x>> \o w)
<1>1. PICK l \in Nat : l = Len(w)
  BY LenProperties
<1>2. PICK v : v = <<x>> \o w
  OBVIOUS
<1>3. Len(v) = l + 1 /\ v[1] = x /\ \A i \in 2 .. (l + 1) : v[i] = w[i - 1]
  <2>1. /\ Len(v) = Len(w) + 1 /\ v[1] = x
        /\ \A i \in 2 .. (Len(w) + 1) : v[i] = w[i - 1]
    BY <1>2, Consed
  <2>2. QED
    BY <1>1, <2>1
<1>4. \A i \in 1 .. (l + 1) : i = 1 \/ (i \in 2 .. (l + 1) /\ i - 1 \in 1 .. l)
  OBVIOUS
<1>5. \A i \in 1 .. (l + 1) : Own(ns, v[i]) /\ (i > 1 => v[i].call # "setup")
  <2>1. ASSUME NEW i \in 1 .. (l + 1) PROVE Own(ns, v[i]) /\ (i > 1 => v[i].call # "setup")
    <3>1. CASE i = 1
      BY <1>3, <3>1
    <3>2. CASE i \in 2 .. (l + 1) /\ i - 1 \in 1 .. l
      <4>1. v[i] = w[i - 1]
        BY <1>3, <3>2
      <4>2. QED
        BY <1>1, <3>2, <4>1 DEF Waiting
    <3>3. QED
      BY <1>4, <3>1, <3>2
  <2>2. QED
    BY <2>1
<1>6. Pending(ns, v)
  BY <1>3, <1>5 DEF Pending
<1>7. Pending(ns, w)
  BY DEF Pending, Waiting
<1>8. x.call # "setup" => Waiting(ns, v)
  <2>1. ASSUME x.call # "setup", NEW i \in 1 .. (l + 1) PROVE v[i].call # "setup"
    <3>1. CASE i = 1
      BY <1>3, <2>1, <3>1
    <3>2. CASE i \in 2 .. (l + 1) /\ i - 1 \in 1 .. l
      BY <1>5, <3>2
    <3>3. QED
      BY <1>4, <3>1, <3>2
  <2>2. QED
    BY <1>3, <1>5, <2>1 DEF Waiting
<1>9. QED
  BY <1>2, <1>6, <1>7, <1>8

LEMMA PendingEmpty ==
    ASSUME NEW ns
    PROVE  Waiting(ns, <<>>) /\ Pending(ns, <<>>) /\ \A m : ~Expects(ns, <<>>, m)
<1>1. PICK w : w = <<>> /\ Len(w) = 0
  BY EmptySeq
<1>2. 1 .. 0 = {}
  OBVIOUS
<1>3. Waiting(ns, w) /\ Pending(ns, w) /\ \A m : ~Expects(ns, w, m)
  BY <1>1, <1>2 DEF Waiting, Pending, Expects
<1>4. QED
  BY <1>1, <1>3

(***************************************************************************)
(* What the walks know in between: S says what they find on the stacks at  *)
(* each node.  The first pass marks what will be spilled; in the second    *)
(* pass the marked items, and no others, are.                              *)
(***************************************************************************)
\* A statement starts with empty stacks.
Roots(ss, S) == \A j \in 1 .. Len(ss) : S[ss[j].root] = Nothing

SetupPlan(ns, w, f, S) ==
    /\ Pending(ns, w)
    /\ \A m \in Unseen(ns) : Expects(ns, w, m)
    /\ SpillLaw(ns, S, w, f, Tops(ns, S, w))

\* Everything a visit needs spilled is marked.
Announced(ns, S) ==
    \A n \in 1 .. Len(ns), t \in Types : \A p \in 1 .. Height(S[n], t) :
        Wants(ns, <<>>, n, t, p, Height(S[n], t)) => Marked(ns, ItemAt(S[n], t, p))

PreparePlan(ns, w, f, S) ==
    Unseen(ns) = {} /\ Announced(ns, S) /\ Exact(ns, f, Tops(ns, S, w))

Plan(ns, ss, w, f, p, S) ==
    /\ Paths(ns, S, w) /\ Shape(ns, S) /\ Roots(ss, S) /\ Matches(f, Tops(ns, S, w))
    /\ p = "setup" => SetupPlan(ns, w, f, S)
    /\ p # "setup" => PreparePlan(ns, w, f, S)

SpillInvariant ==
    WalkInvariant /\ \E S : Plan(nodes, stmts, work, fm, phase, S)

LEMMA WaitingHead ==
    ASSUME NEW ns, NEW w \in Seq(TaskRecord), Waiting(ns, w), w # <<>>
    PROVE  w[1].call # "setup"
<1>1. Len(w) \in Nat \ {0}
  BY EmptySeq
<1>2. 1 \in 1 .. Len(w)
  BY <1>1
<1>3. QED
  BY <1>2 DEF Waiting

LEMMA VisitIs ==
    ASSUME WalkInvariant, Doing("setup"), NEW op \in NodeOps \ {"none"},
           NEW types \in Seq(Types), Grow(Node, op, types),
           op \in {"part", "cast"} => Len(types) = 1, op \in TwoOps => Len(types) = 2
    PROVE  Visited(nodes, nodes', Node, op, types)
<1>1. /\ Node \in 1 .. Len(nodes) /\ work[1].call = "setup" /\ TaskOk(nodes, phase, work[1])
      /\ NodesOk(nodes)
  BY NowDoing DEF WalkInvariant
<1>2. Await(nodes, work[1]) = {Node}
  BY <1>1, AwaitIs DEF Node
<1>3. Node \in Unseen(nodes)
  BY <1>1, <1>2 DEF TaskOk
<1>4. op \in NodeOps /\ (op \in {"arith", "cmp"} => Len(types) = 2)
  BY DEF TwoOps
<1>5. /\ NodesOk(nodes') /\ Grown(nodes, nodes', {Node})
      /\ Len(nodes') = Len(nodes) + Len(types)
      /\ nodes'[Node].op = op /\ Len(Args(nodes', Node)) = Len(types)
      /\ \A m \in 1 .. Len(nodes) : nodes'[m].spill = nodes[m].spill
      /\ \A k \in 1 .. Len(types) :
            /\ Args(nodes', Node)[k] = Len(nodes) + k
            /\ Len(nodes) + k \in Unseen(nodes')
            /\ nodes'[Len(nodes) + k].type = types[k]
            /\ nodes'[Len(nodes) + k].spill = 0
  <2>1. /\ op \in {"part", "cast"} => Len(types) = 1
        /\ op \in {"arith", "cmp"} => Len(types) = 2
    BY <1>4
  <2>2. PICK n : n = Node /\ n \in 1 .. Len(nodes) /\ Grow(n, op, types)
    BY <1>1, Zenon
  <2>3. /\ NodesOk(nodes') /\ Grown(nodes, nodes', {n})
        /\ Len(nodes') = Len(nodes) + Len(types)
        /\ nodes'[n].op = op /\ Len(Args(nodes', n)) = Len(types)
        /\ \A m \in 1 .. Len(nodes) : nodes'[m].spill = nodes[m].spill
        /\ \A k \in 1 .. Len(types) :
              /\ Args(nodes', n)[k] = Len(nodes) + k
              /\ Len(nodes) + k \in Unseen(nodes')
              /\ nodes'[Len(nodes) + k].type = types[k]
              /\ nodes'[Len(nodes) + k].spill = 0
    BY <1>1, <1>4, <2>1, <2>2, GrowOk, ZenonT(60)
  <2>4. QED
    BY <2>2, <2>3, Zenon
<1>6. \A k \in 1 .. Len(types) : nodes'[Len(nodes) + k].op = "none"
  BY <1>5 DEF Unseen
<1>7. QED
  BY <1>3, <1>5, <1>6 DEF Visited

\* A visit leaves everything around it as it was.
LEMMA VisitStep ==
    ASSUME WalkInvariant, Doing("setup"), NEW S, Plan(nodes, stmts, work, fm, phase, S),
           NEW op, NEW types, Visited(nodes, nodes', Node, op, types),
           OperandsFit(nodes, Node, op, types)
    PROVE  /\ S \in [Nat -> Held] /\ S[Node] \in Held /\ Tops(nodes, S, work) = S[Node]
           /\ nodes'[Node].spill = 0 /\ Matches(fm, S[Node]) /\ Good(fm)
           /\ \E S1 \in [Nat -> Held] :
                 /\ \A m \in 1 .. Len(nodes) : S1[m] = S[m]
                 /\ S1[Node] = S[Node]
                 /\ Shape(nodes', S1)
                 /\ Paths(nodes', S1, Rest) /\ Tops(nodes', S1, Rest) = S[Node]
                 /\ Waiting(nodes', Rest) /\ Roots(stmts, S1)
                 /\ \A m \in Unseen(nodes') :
                       Expects(nodes', Rest, m) \/ \E k \in 1 .. Len(types) : m = Len(nodes) + k
<1>1. /\ work # <<>> /\ work[1].call = "setup" /\ TaskOk(nodes, phase, work[1])
      /\ Node \in 1 .. Len(nodes) /\ Node \in Nat /\ phase = "setup" /\ Node = work[1].n
      /\ NodesOk(nodes) /\ WorkOk(nodes, phase, work) /\ Good(fm)
      /\ stmts \in Seq(Statement) /\ \A j \in 1 .. Len(stmts) : stmts[j].root \in 1 .. Len(nodes)
  BY NowDoing DEF SetupCalls, WalkInvariant, Node
<1>2. /\ Paths(nodes, S, work) /\ Shape(nodes, S) /\ Roots(stmts, S)
      /\ Matches(fm, Tops(nodes, S, work)) /\ SetupPlan(nodes, work, fm, S)
      /\ S \in [Nat -> Held]
  BY <1>1 DEF Plan, Paths
<1>3. Tops(nodes, S, work) = S[Node]
  <2>1. Before(nodes, S, work[1]) = S[Node]
    BY <1>1, BeforeCases
  <2>2. QED
    BY <1>1, <2>1 DEF Tops
<1>4. /\ nodes[Node].op = "none" /\ {Node} \subseteq Unseen(nodes)
      /\ \A m \in 1 .. Len(nodes') :
            m \in 1 .. Len(nodes) \/ \E k \in 1 .. Len(types) : m = Len(nodes) + k
      /\ \A m \in 1 .. Len(nodes) : m # Node => nodes'[m].op = nodes[m].op
  BY <1>1, VisitedIs
<1>5. /\ Grown(nodes, nodes', {Node}) /\ nodes'[Node].op = op /\ op # "none"
      /\ \A m \in 1 .. Len(nodes) : nodes'[m].spill = nodes[m].spill
  BY DEF Visited
<1>6. nodes'[Node].spill = 0
  <2>1. nodes[Node].op \notin TwoOps \cup {"call"}
    BY <1>4 DEF TwoOps
  <2>2. QED
    BY <1>1, <1>2, <1>5, <2>1 DEF Shape, Flags
<1>7. PICK S1 \in [Nat -> Held] : (\A m \in 1 .. Len(nodes) : S1[m] = S[m]) /\ Shape(nodes', S1)
  BY <1>1, <1>2, VisitedShape
<1>8. Paths(nodes', S1, Rest) /\ Tops(nodes', S1, Rest) = S[Node]
  <2>1. {Node} \subseteq Unseen(nodes) /\ Grown(nodes, nodes', {Node})
    BY <1>4, <1>5
  <2>2. QED
    BY <1>1, <1>2, <1>7, <2>1, PathsRest DEF Rest
<1>9. Waiting(nodes', Rest)
  <2>1. Pending(nodes, work)
    BY <1>2 DEF SetupPlan
  <2>2. QED
    BY <1>1, <1>2, <1>5, <2>1, WaitingRest DEF Rest
<1>10. Roots(stmts, S1)
  BY <1>1, <1>2, <1>7 DEF Roots
<1>11. ASSUME NEW m \in Unseen(nodes'), m \in 1 .. Len(nodes) PROVE Expects(nodes', Rest, m)
  <2>1. nodes'[m].op = "none"
    BY DEF Unseen
  <2>2. m # Node
    BY <1>5, <2>1
  <2>3. m \in Unseen(nodes)
    BY <1>4, <1>11, <2>1, <2>2 DEF Unseen
  <2>4. Expects(nodes, work, m)
    BY <1>2, <2>3 DEF SetupPlan
  <2>5. Await(nodes, work[1]) = {Node}
    BY <1>1, AwaitIs
  <2>6. {Node} \subseteq Await(nodes, work[1]) /\ m \notin Await(nodes, work[1])
        /\ Grown(nodes, nodes', {Node})
    BY <1>5, <2>2, <2>5
  <2>7. QED
    BY <1>1, <2>4, <2>6, ExpectsRest DEF Rest
<1>12. \A m \in Unseen(nodes') : m \in 1 .. Len(nodes')
  BY DEF Unseen
<1>13. \A m \in Unseen(nodes') :
          Expects(nodes', Rest, m) \/ \E k \in 1 .. Len(types) : m = Len(nodes) + k
  BY <1>4, <1>11, <1>12
<1>14. S[Node] \in Held /\ S1[Node] = S[Node]
  BY <1>1, <1>2, <1>7
<1>15. QED
  BY <1>1, <1>2, <1>3, <1>6, <1>7, <1>8, <1>9, <1>10, <1>13, <1>14

\* What a visit has to see to.
LEMMA VisitEnds ==
    ASSUME WalkInvariant, Doing("setup"), NEW S, Plan(nodes, stmts, work, fm, phase, S),
           NEW op, NEW types, Visited(nodes, nodes', Node, op, types),
           NEW S1 \in [Nat -> Held], \A m \in 1 .. Len(nodes) : S1[m] = S[m],
           Shape(nodes', S1), Roots(stmts, S1), stmts' = stmts, phase' = phase,
           Good(fm'), \A t \in Types : First(fm, t) <= First(fm', t),
           Paths(nodes', S1, work'), Pending(nodes', work'),
           \A m \in Unseen(nodes') : Expects(nodes', work', m),
           NEW s1 \in Held, Tops(nodes', S1, work') = s1, Matches(fm', s1), Within(S[Node], s1),
           (work' # <<>> /\ work'[1].call = "setup") => work'[1].n \notin 1 .. Len(nodes),
           Reserved(nodes', S1, work', fm', s1),
           op = "call" => \A t \in Types : First(fm', t) = Height(S[Node], t)
    PROVE  Plan(nodes', stmts', work', fm', phase', S1)
<1>1. /\ work # <<>> /\ work[1].call = "setup" /\ work[1].n = Node /\ Node \in Nat
      /\ phase = "setup" /\ NodesOk(nodes) /\ Good(fm)
  BY NowDoing DEF SetupCalls, WalkInvariant, Node
<1>2. /\ Shape(nodes, S) /\ S \in [Nat -> Held]
      /\ SpillLaw(nodes, S, work, fm, Tops(nodes, S, work))
  BY <1>1 DEF Plan, Paths, SetupPlan
<1>3. PICK s \in Held : s = S[Node]
  BY <1>1, <1>2
<1>4. SpillLaw(nodes, S, work, fm, s)
  <2>1. Before(nodes, S, work[1]) = S[Node]
    BY <1>1, BeforeCases
  <2>2. Tops(nodes, S, work) = s
    BY <1>1, <1>3, <2>1 DEF Tops
  <2>3. QED
    BY <1>2, <2>2
<1>5. \A t \in Types : First(fm, t) \in Nat /\ First(fm', t) \in Nat
                       /\ First(fm, t) <= First(fm', t)
  BY <1>1, GoodStacks
<1>6. op = "call" => \A t \in Types : \A p \in 1 .. Height(s, t) : p <= First(fm', t)
  <2>1. SUFFICES ASSUME op = "call", NEW t \in Types, NEW p \in 1 .. Height(s, t)
                 PROVE  p <= First(fm', t)
    OBVIOUS
  <2>2. First(fm', t) = Height(s, t) /\ First(fm', t) \in Nat
    BY <1>3, <1>5, <2>1
  <2>3. QED
    BY <2>2
<1>7. S[Node] = s /\ Within(s, s1)
  BY <1>3
<1>8. SpillLaw(nodes', S1, work', fm', s1)
  <2>1. VisitSpills(nodes, nodes', Node, op, types, S, S1, work, work', fm, fm', s, s1)
    BY <1>1, <1>2, <1>5, <1>6, <1>7 DEF VisitSpills
  <2>2. QED
    BY <1>4, <2>1, VisitedLaw
<1>9. SetupPlan(nodes', work', fm', S1)
  BY <1>8 DEF SetupPlan
<1>10. QED
  BY <1>1, <1>9 DEF Plan

(***************************************************************************)
(* The first pass.                                                         *)
(***************************************************************************)
Planned == \E S : Plan(nodes, stmts, work, fm, phase, S)

LEMMA LeafPlan ==
    ASSUME WalkInvariant, WalkInvariant', Planned, SetupLeaf
    PROVE  Planned'
<1>1. PICK S : Plan(nodes, stmts, work, fm, phase, S)
  BY DEF Planned
<1>2. /\ Doing("setup") /\ Grow(Node, "leaf", <<>>) /\ work' = Rest /\ fm' = fm
      /\ stmts' = stmts /\ phase' = phase
  BY DEF SetupLeaf
<1>3. PICK types \in Seq(Types) : types = <<>> /\ Len(types) = 0
  BY EmptySeq
<1>4. "leaf" \in NodeOps \ {"none"} /\ "leaf" \notin {"part", "cast"} /\ "leaf" \notin TwoOps
      /\ "leaf" # "call"
  BY DEF NodeOps, TwoOps
<1>5. Visited(nodes, nodes', Node, "leaf", types)
  BY <1>2, <1>3, <1>4, VisitIs
<1>6. OperandsFit(nodes, Node, "leaf", types)
  BY <1>3, <1>4 DEF OperandsFit
<1>7. /\ S \in [Nat -> Held] /\ S[Node] \in Held /\ Matches(fm, S[Node]) /\ Good(fm)
  BY <1>1, <1>2, <1>5, <1>6, VisitStep
<1>8. PICK S1 \in [Nat -> Held] :
         /\ \A m \in 1 .. Len(nodes) : S1[m] = S[m]
         /\ Shape(nodes', S1)
         /\ Paths(nodes', S1, Rest) /\ Tops(nodes', S1, Rest) = S[Node]
         /\ Waiting(nodes', Rest) /\ Roots(stmts, S1)
         /\ \A m \in Unseen(nodes') :
               Expects(nodes', Rest, m) \/ \E k \in 1 .. Len(types) : m = Len(nodes) + k
  BY <1>1, <1>2, <1>5, <1>6, VisitStep
<1>9. Rest \in Seq(TaskRecord)
  BY <1>2, NowDoing
<1>10. Pending(nodes', Rest) /\ (Rest # <<>> => Rest[1].call # "setup")
  <2>1. Pending(nodes', Rest)
    BY <1>8 DEF Waiting, Pending
  <2>2. QED
    BY <1>8, <1>9, <2>1, WaitingHead
<1>11. Reserved(nodes', S1, Rest, fm', S[Node])
  BY <1>10 DEF Reserved
<1>12. /\ \A t \in Types : First(fm, t) <= First(fm', t)
       /\ Within(S[Node], S[Node]) /\ Good(fm')
  <2>1. \A t \in Types : First(fm, t) \in Nat
    BY <1>7, GoodStacks
  <2>2. \A t \in Types : First(fm, t) <= First(fm', t)
    BY <1>2, <2>1
  <2>3. QED
    BY <1>2, <1>7, <2>2, WithinItself
<1>13. \A m \in Unseen(nodes') : Expects(nodes', Rest, m)
  BY <1>3, <1>8
<1>14. Plan(nodes', stmts', work', fm', phase', S1)
  BY <1>1, <1>2, <1>4, <1>5, <1>7, <1>8, <1>10, <1>11, <1>12, <1>13, VisitEnds
<1>15. QED
  BY <1>14 DEF Planned

\* The next visit's call.
LEMMA SetupTask ==
    ASSUME NEW m \in Nat
    PROVE  LET x == Task("setup", m, NoSpill, 0)
           IN  /\ x \in TaskRecord /\ x.call = "setup" /\ x.n = m
               /\ \A ns : Await(ns, x) = {m} /\ Own(ns, x)
               /\ \A ns, S : Before(ns, S, x) = S[m]
<1>1. PICK x : x = Task("setup", m, NoSpill, 0)
  OBVIOUS
<1>2. x \in TaskRecord /\ x.call = "setup" /\ x.n = m
  <2>1. "setup" \in SetupCalls \cup PrepareCalls /\ NoSpill \in Int /\ 0 \in Int
    BY DEF SetupCalls, NoSpill
  <2>2. QED
    BY <1>1, <2>1, TaskIs
<1>3. \A ns : Await(ns, x) = {m} /\ Own(ns, x)
  BY <1>2 DEF Await, Own
<1>4. \A ns, S : Before(ns, S, x) = S[m]
  BY <1>2 DEF Before
<1>5. QED
  BY <1>1, <1>2, <1>3, <1>4

\* The innermost call comes to a node with what is on the stacks.
LEMMA NextVisit ==
    ASSUME NEW ns, NodesOk(ns), NEW x \in TaskRecord, x.call = "setup",
           NEW w \in Seq(TaskRecord), WorkOk(ns, "setup", <<x>> \o w),
           NEW S, Paths(ns, S, w), S[x.n] = Tops(ns, S, w), Waiting(ns, w)
    PROVE  /\ Paths(ns, S, <<x>> \o w) /\ Tops(ns, S, <<x>> \o w) = S[x.n]
           /\ Pending(ns, <<x>> \o w)
           /\ <<x>> \o w # <<>> /\ (<<x>> \o w)[1] = x
<1>1. TaskOk(ns, "setup", x) /\ WorkOk(ns, "setup", w)
  BY WorkParts
<1>2. Before(ns, S, x) = S[x.n] /\ Own(ns, x)
  BY DEF Before, Own
<1>3. Paths(ns, S, <<x>> \o w) /\ Tops(ns, S, <<x>> \o w) = S[x.n]
  BY <1>1, <1>2, PathsCall
<1>4. Pending(ns, <<x>> \o w)
  BY <1>2, PendingCall
<1>5. QED
  BY <1>3, <1>4, Consed, Zenon

\* The register its result needs has been reserved.
LEMMA ReservedFor ==
    ASSUME NEW ns1, NEW S1, NEW w1, NEW f1, NEW s1 \in Held, NEW x, w1[1] = x, S1[x.n] = s1,
           NEW t \in Types, ns1[x.n].type = t, First(f1, t) \in Int,
           First(f1, t) >= Height(s1, t) + 1 - Limit[t]
    PROVE  Reserved(ns1, S1, w1, f1, s1)
<1>1. Height(s1, t) \in Nat /\ Limit[t] \in Nat
  BY HeldType, FrameAssumption
<1>2. PICK h \in Nat : h = Height(s1, t)
  BY <1>1
<1>3. PICK l \in Nat : l = Limit[t]
  BY <1>1
<1>4. PICK q \in Int : q = First(f1, t)
  OBVIOUS
<1>5. \A p \in 1 .. h : p <= h + 1 - l => p <= q
  BY <1>2, <1>3, <1>4
<1>6. QED
  BY <1>2, <1>3, <1>4, <1>5 DEF Reserved

LEMMA OneOperandPlan ==
    ASSUME WalkInvariant, WalkInvariant', Planned, SetupOneOperand
    PROVE  Planned'
<1>1. PICK S : Plan(nodes, stmts, work, fm, phase, S)
  BY DEF Planned
<1>2. /\ Doing("setup") /\ stmts' = stmts /\ phase' = phase /\ phase = "setup"
      /\ Rest \in Seq(TaskRecord) /\ Len(nodes) \in Nat /\ nodes[Node].type \in Types
      /\ Node \in 1 .. Len(nodes)
  BY NowDoing DEF SetupOneOperand, SetupCalls
<1>3. PICK op \in {"part", "cast"}, t0 \in Types :
         /\ op = "part" => t0 = nodes[Node].type
         /\ op = "cast" => t0 = "i" /\ nodes[Node].type = "f"
         /\ Grow(Node, op, <<t0>>)
         /\ fm' = ReserveTemp(fm, t0)
         /\ work' = <<Task("setup", Len(nodes) + 1, NoSpill, 0)>> \o Rest
  BY <1>2 DEF SetupOneOperand, Types
<1>4. PICK types \in Seq(Types) : types = <<t0>> /\ Len(types) = 1 /\ types[1] = t0
  <2>1. <<t0>> \in Seq(Types) /\ Len(<<t0>>) = 1 /\ <<t0>>[1] = t0
    OBVIOUS
  <2>2. QED
    BY <2>1
<1>5. op \in NodeOps \ {"none"} /\ op \notin TwoOps /\ op # "call" /\ op # "leaf"
  BY DEF NodeOps, TwoOps
<1>6. Visited(nodes, nodes', Node, op, types)
  BY <1>2, <1>3, <1>4, <1>5, VisitIs
<1>7. OperandsFit(nodes, Node, op, types)
  BY <1>3, <1>4, <1>5 DEF OperandsFit, TwoOps
<1>8. /\ S \in [Nat -> Held] /\ S[Node] \in Held /\ Matches(fm, S[Node]) /\ Good(fm)
  BY <1>1, <1>2, <1>6, <1>7, VisitStep
<1>9. PICK S1 \in [Nat -> Held] :
         /\ \A m \in 1 .. Len(nodes) : S1[m] = S[m]
         /\ S1[Node] = S[Node]
         /\ Shape(nodes', S1)
         /\ Paths(nodes', S1, Rest) /\ Tops(nodes', S1, Rest) = S[Node]
         /\ Waiting(nodes', Rest) /\ Roots(stmts, S1)
         /\ \A m \in Unseen(nodes') :
               Expects(nodes', Rest, m) \/ \E k \in 1 .. Len(types) : m = Len(nodes) + k
  BY <1>1, <1>2, <1>6, <1>7, VisitStep
<1>10. PICK x \in TaskRecord : /\ x = Task("setup", Len(nodes) + 1, NoSpill, 0)
                               /\ x.call = "setup" /\ x.n = Len(nodes) + 1
                               /\ Await(nodes', x) = {Len(nodes) + 1}
  <2>1. Len(nodes) + 1 \in Nat
    BY <1>2
  <2>2. QED
    BY <2>1, SetupTask
<1>11. /\ NodesOk(nodes') /\ WorkOk(nodes', "setup", work') /\ Good(fm')
       /\ work' = <<x>> \o Rest
  BY <1>2, <1>3, <1>10 DEF WalkInvariant
<1>12. /\ Node \in 1 .. Len(nodes') /\ Args(nodes', Node)[1] = Len(nodes) + 1
       /\ nodes'[Len(nodes) + 1].type = t0 /\ nodes'[Node].op = op
  <2>1. 1 \in 1 .. Len(types)
    BY <1>4
  <2>2. Node \in 1 .. Len(nodes')
    BY <1>2, <1>6, VisitedIs DEF WalkInvariant
  <2>3. QED
    BY <1>4, <1>6, <2>1, <2>2 DEF Visited
<1>13. S1[x.n] = S[Node]
  BY <1>9, <1>10, <1>12 DEF Shape, PathOf
<1>14. /\ Paths(nodes', S1, work') /\ Tops(nodes', S1, work') = S[Node]
       /\ Pending(nodes', work') /\ work'[1] = x
  BY <1>2, <1>9, <1>10, <1>11, <1>13, NextVisit
<1>15. /\ Matches(fm', S[Node])
       /\ First(fm', t0) = Larger(First(fm, t0), Height(S[Node], t0) + 1 - Limit[t0])
       /\ \A u \in Types \ {t0} : First(fm', u) = First(fm, u)
  BY <1>3, <1>8, MatchReserve, Zenon
<1>16. /\ \A t \in Types : First(fm, t) <= First(fm', t)
       /\ First(fm', t0) \in Int /\ First(fm', t0) >= Height(S[Node], t0) + 1 - Limit[t0]
  <2>1. \A t \in Types : First(fm, t) \in Nat /\ Limit[t] \in Nat /\ Height(S[Node], t) \in Nat
    BY <1>8, GoodStacks, HeldType
  <2>2. QED
    BY <1>15, <2>1 DEF Larger
<1>17. Reserved(nodes', S1, work', fm', S[Node])
  BY <1>8, <1>10, <1>12, <1>13, <1>14, <1>16, ReservedFor
<1>18. \A m \in Unseen(nodes') : Expects(nodes', work', m)
  <2>1. \A m : Expects(nodes', work', m) <=> m \in Await(nodes', x) \/ Expects(nodes', Rest, m)
    BY <1>2, <1>11, ExpectsCall
  <2>2. \A k \in 1 .. Len(types) : k = 1
    BY <1>4
  <2>3. QED
    BY <1>9, <1>10, <2>1, <2>2
<1>19. work'[1].n \notin 1 .. Len(nodes) /\ Within(S[Node], S[Node])
  <2>1. Len(nodes) + 1 \notin 1 .. Len(nodes)
    BY <1>2
  <2>2. QED
    BY <1>8, <1>10, <1>14, <2>1, WithinItself
<1>20. Plan(nodes', stmts', work', fm', phase', S1)
  BY <1>1, <1>2, <1>5, <1>6, <1>8, <1>9, <1>11, <1>14, <1>15, <1>16, <1>17, <1>18, <1>19, VisitEnds
<1>21. QED
  BY <1>20 DEF Planned

LEMMA TwoTasks ==
    ASSUME NEW a \in TaskRecord, NEW b \in TaskRecord, NEW w \in Seq(TaskRecord)
    PROVE  <<a, b>> \o w = <<a>> \o (<<b>> \o w)
<1>1. PICK T : T = TaskRecord
  OBVIOUS
<1>2. a \in T /\ b \in T /\ w \in Seq(T)
  BY <1>1
<1>3. QED
  BY <1>2, TwoCalls

LEMMA TwoOperandsPlan ==
    ASSUME WalkInvariant, WalkInvariant', Planned, SetupTwoOperands
    PROVE  Planned'
<1>1. PICK S : Plan(nodes, stmts, work, fm, phase, S)
  BY DEF Planned
<1>2. /\ Doing("setup") /\ stmts' = stmts /\ phase' = phase /\ phase = "setup"
      /\ Rest \in Seq(TaskRecord) /\ Len(nodes) \in Nat /\ Node \in Nat
      /\ Node \in 1 .. Len(nodes)
  BY NowDoing DEF SetupTwoOperands, SetupCalls
<1>3. PICK op \in TwoOps, t0 \in Types :
         /\ op = "arith" => t0 = nodes[Node].type
         /\ op = "cmp" => nodes[Node].type = "i"
         /\ Grow(Node, op, <<t0, t0>>)
         /\ fm' = ReserveTemp(PushTemp(fm, t0, Node, FALSE), t0)
         /\ work' = <<Task("setup", Len(nodes) + 2, NoSpill, 0),
                      Task("setupLeft", Node, NoSpill, 0)>> \o Rest
  BY DEF SetupTwoOperands, TwoOps
<1>4. PICK types \in Seq(Types) :
         types = <<t0, t0>> /\ Len(types) = 2 /\ types[1] = t0 /\ types[2] = t0
  <2>1. <<t0, t0>> \in Seq(Types) /\ Len(<<t0, t0>>) = 2 /\ <<t0, t0>>[1] = t0
        /\ <<t0, t0>>[2] = t0
    OBVIOUS
  <2>2. QED
    BY <2>1
<1>5. op \in NodeOps \ {"none"} /\ op \notin {"part", "cast"} /\ op # "call" /\ op # "leaf"
  BY DEF NodeOps, TwoOps
<1>6. Visited(nodes, nodes', Node, op, types)
  BY <1>2, <1>3, <1>4, <1>5, VisitIs
<1>7. OperandsFit(nodes, Node, op, types)
  BY <1>3, <1>4, <1>5 DEF OperandsFit, TwoOps
<1>8. /\ S \in [Nat -> Held] /\ S[Node] \in Held /\ Matches(fm, S[Node]) /\ Good(fm)
      /\ nodes'[Node].spill = 0
  BY <1>1, <1>2, <1>6, <1>7, VisitStep
<1>9. PICK S1 \in [Nat -> Held] :
         /\ \A m \in 1 .. Len(nodes) : S1[m] = S[m]
         /\ S1[Node] = S[Node]
         /\ Shape(nodes', S1)
         /\ Paths(nodes', S1, Rest) /\ Tops(nodes', S1, Rest) = S[Node]
         /\ Waiting(nodes', Rest) /\ Roots(stmts, S1)
         /\ \A m \in Unseen(nodes') :
               Expects(nodes', Rest, m) \/ \E k \in 1 .. Len(types) : m = Len(nodes) + k
  BY <1>1, <1>2, <1>6, <1>7, VisitStep
<1>10. PICK a \in TaskRecord : /\ a = Task("setup", Len(nodes) + 2, NoSpill, 0)
                               /\ a.call = "setup" /\ a.n = Len(nodes) + 2
                               /\ Await(nodes', a) = {Len(nodes) + 2}
  <2>1. Len(nodes) + 2 \in Nat
    BY <1>2
  <2>2. QED
    BY <2>1, SetupTask
<1>11. PICK b \in TaskRecord : /\ b = Task("setupLeft", Node, NoSpill, 0)
                               /\ b.call = "setupLeft" /\ b.n = Node
  <2>1. "setupLeft" \in SetupCalls \cup PrepareCalls /\ NoSpill \in Int /\ 0 \in Int
    BY DEF SetupCalls, NoSpill
  <2>2. QED
    BY <1>2, <2>1, TaskIs
<1>12. PICK w \in Seq(TaskRecord) : w = <<b>> \o Rest /\ work' = <<a>> \o w
  <2>1. <<b>> \o Rest \in Seq(TaskRecord)
    BY <1>2
  <2>2. <<a, b>> \o Rest = <<a>> \o (<<b>> \o Rest)
    <3>1. a \in TaskRecord /\ b \in TaskRecord /\ Rest \in Seq(TaskRecord)
      BY <1>2
    <3>2. QED
      BY <3>1, TwoTasks, Zenon
  <2>3. work' = <<a, b>> \o Rest
    BY <1>3, <1>10, <1>11
  <2>4. QED
    BY <2>1, <2>2, <2>3
<1>13. /\ NodesOk(nodes') /\ WorkOk(nodes', "setup", <<a>> \o w) /\ Good(fm')
  BY <1>2, <1>12 DEF WalkInvariant
<1>14. /\ Node \in 1 .. Len(nodes') /\ Args(nodes', Node)[1] = Len(nodes) + 1
       /\ Args(nodes', Node)[2] = Len(nodes) + 2
       /\ nodes'[Len(nodes) + 2].type = t0 /\ nodes'[Node].op = op
       /\ TypeIn(nodes', Node) = t0
  <2>1. 1 \in 1 .. Len(types) /\ 2 \in 1 .. Len(types) /\ Len(types) > 0
    BY <1>4
  <2>2. Node \in 1 .. Len(nodes') /\ TypeIn(nodes', Node) = t0
    <3>1. NodesOk(nodes)
      BY DEF WalkInvariant
    <3>2. /\ \A m \in 1 .. Len(nodes) : m \in 1 .. Len(nodes')
          /\ Len(types) > 0 => TypeIn(nodes', Node) = types[1]
      BY <1>6, <3>1, VisitedIs
    <3>3. QED
      BY <1>2, <1>4, <2>1, <3>2
  <2>3. QED
    BY <1>4, <1>6, <2>1, <2>2 DEF Visited
<1>15. PICK s1 \in Held : s1 = On(S[Node], t0, ItemOf(Node, 0)) /\ ItemOf(Node, 0) \in Items
  <2>1. ItemOf(Node, 0) \in Items
    BY <1>2 DEF ItemOf, Items
  <2>2. QED
    BY <1>8, <2>1, OnIs
<1>16. /\ Paths(nodes', S1, w) /\ Tops(nodes', S1, w) = s1 /\ Waiting(nodes', w)
  <2>1. TaskOk(nodes', "setup", b) /\ WorkOk(nodes', "setup", Rest)
    <3>1. WorkOk(nodes', "setup", w)
      BY <1>13, WorkParts
    <3>2. QED
      BY <1>2, <1>12, <3>1, WorkParts
  <2>2. Before(nodes', S1, b) = s1
    BY <1>9, <1>11, <1>14, <1>15, BeforeCases
  <2>3. Paths(nodes', S1, w) /\ Tops(nodes', S1, w) = s1
    BY <1>9, <1>11, <1>12, <1>13, <2>1, <2>2, PathsCall
  <2>4. Own(nodes', b) /\ b.call # "setup"
    BY <1>8, <1>11 DEF Own
  <2>5. QED
    BY <1>2, <1>9, <1>12, <2>3, <2>4, PendingCall
<1>17. S1[a.n] = s1
  <2>1. PathOf(nodes', S1) /\ nodes'[Node].op \in TwoOps
    BY <1>3, <1>9, <1>14 DEF Shape
  <2>2. S1[Args(nodes', Node)[2]] = On(S1[Node], TypeIn(nodes', Node), ItemOf(Node, 0))
    BY <1>14, <2>1 DEF PathOf
  <2>3. QED
    BY <1>9, <1>10, <1>14, <1>15, <2>2
<1>18. /\ Paths(nodes', S1, work') /\ Tops(nodes', S1, work') = s1
       /\ Pending(nodes', work') /\ work'[1] = a
  <2>1. S1[a.n] = Tops(nodes', S1, w) /\ Paths(nodes', S1, w) /\ Waiting(nodes', w)
    BY <1>16, <1>17
  <2>2. /\ Paths(nodes', S1, <<a>> \o w) /\ Tops(nodes', S1, <<a>> \o w) = S1[a.n]
        /\ Pending(nodes', <<a>> \o w) /\ (<<a>> \o w)[1] = a
    BY <1>10, <1>13, <2>1, NextVisit
  <2>3. QED
    BY <1>12, <1>17, <2>2
<1>19. PICK g : g = PushTemp(fm, t0, Node, FALSE)
  OBVIOUS
<1>20. /\ Matches(g, s1) /\ Keeps(fm, g)
       /\ First(g, t0) = Larger(First(fm, t0), Height(S[Node], t0) + 1 - Limit[t0])
       /\ \A u \in Types \ {t0} : First(g, u) = First(fm, u)
  <2>1. PICK it \in Items : it = ItemOf(Node, 0) /\ it.owner = Node
    BY <1>15 DEF ItemOf
  <2>2. PICK spill \in BOOLEAN : ~spill /\ g = PushTemp(fm, t0, it.owner, spill)
    BY <1>19, <2>1
  <2>3. LET h == PushTemp(fm, t0, it.owner, spill)
        IN  /\ Matches(h, On(S[Node], t0, it)) /\ Keeps(fm, h)
            /\ First(h, t0) = Larger(First(fm, t0), IF spill THEN Height(S[Node], t0) + 1
                                                    ELSE Height(S[Node], t0) + 1 - Limit[t0])
            /\ \A u \in Types \ {t0} : First(h, u) = First(fm, u)
    <3>1. S[Node] \in Held /\ Matches(fm, S[Node]) /\ Good(fm) /\ it \in Items /\ spill \in BOOLEAN
      BY <1>8, <2>1, <2>2
    <3>2. PICK s \in Held : s = S[Node]
      BY <3>1
    <3>3. Matches(fm, s) /\ Good(fm) /\ it \in Items /\ spill \in BOOLEAN /\ t0 \in Types
      BY <3>1, <3>2
    <3>4. LET h == PushTemp(fm, t0, it.owner, spill)
          IN  /\ Matches(h, On(s, t0, it)) /\ Keeps(fm, h)
              /\ First(h, t0) = Larger(First(fm, t0), IF spill THEN Height(s, t0) + 1
                                                      ELSE Height(s, t0) + 1 - Limit[t0])
              /\ \A u \in Types \ {t0} : First(h, u) = First(fm, u)
      BY <3>3, MatchPushTemp
    <3>5. QED
      BY <3>2, <3>4
  <2>4. QED
    BY <1>15, <2>1, <2>2, <2>3
<1>21. /\ Matches(fm', s1)
       /\ First(fm', t0) = Larger(First(g, t0), Height(s1, t0) + 1 - Limit[t0])
       /\ \A u \in Types \ {t0} : First(fm', u) = First(g, u)
  <2>1. Good(g) /\ fm' = ReserveTemp(g, t0)
    BY <1>3, <1>19, <1>20 DEF Keeps
  <2>2. QED
    BY <1>20, <2>1, MatchReserve, Zenon
<1>22. /\ \A t \in Types : First(fm, t) <= First(fm', t)
       /\ First(fm', t0) \in Int /\ First(fm', t0) >= Height(s1, t0) + 1 - Limit[t0]
  <2>1. \A t \in Types : /\ First(fm, t) \in Nat /\ Limit[t] \in Nat /\ First(g, t) \in Nat
                         /\ Height(S[Node], t) \in Nat /\ Height(s1, t) \in Nat
    BY <1>8, <1>20, GoodStacks, HeldType DEF Keeps
  <2>2. First(fm, t0) <= First(g, t0) /\ First(g, t0) <= First(fm', t0)
        /\ First(fm', t0) \in Int /\ First(fm', t0) >= Height(s1, t0) + 1 - Limit[t0]
    BY <1>20, <1>21, <2>1 DEF Larger
  <2>3. ASSUME NEW t \in Types PROVE First(fm, t) <= First(fm', t)
    <3>1. CASE t = t0
      BY <2>1, <2>2, <3>1
    <3>2. CASE t # t0
      BY <1>20, <1>21, <2>1, <3>2
    <3>3. QED
      BY <3>1, <3>2
  <2>4. QED
    BY <2>2, <2>3
<1>23. Reserved(nodes', S1, work', fm', s1)
  BY <1>10, <1>14, <1>17, <1>18, <1>22, ReservedFor
<1>24. \A m \in Unseen(nodes') : Expects(nodes', work', m)
  <2>1. \A m : /\ Expects(nodes', work', m) <=> m \in Await(nodes', a) \/ Expects(nodes', w, m)
               /\ Expects(nodes', w, m) <=> m \in Await(nodes', b) \/ Expects(nodes', Rest, m)
    BY <1>2, <1>12, ExpectsCall
  <2>2. Await(nodes', b) = {Len(nodes) + 1}
    BY <1>11, <1>14, AwaitIs
  <2>3. \A k \in 1 .. Len(types) : k = 1 \/ k = 2
    BY <1>4
  <2>4. QED
    BY <1>9, <1>10, <2>1, <2>2, <2>3
<1>25. work'[1].n \notin 1 .. Len(nodes) /\ Within(S[Node], s1)
  <2>1. Len(nodes) + 2 \notin 1 .. Len(nodes)
    BY <1>2
  <2>2. QED
    BY <1>8, <1>10, <1>15, <1>18, <2>1, WithinOn
<1>26. Plan(nodes', stmts', work', fm', phase', S1)
  BY <1>1, <1>2, <1>5, <1>6, <1>9, <1>13, <1>18, <1>21, <1>22, <1>23, <1>24, <1>25, VisitEnds
<1>27. QED
  BY <1>26 DEF Planned

LEMMA CallPlan ==
    ASSUME WalkInvariant, WalkInvariant', Planned, SetupCall
    PROVE  Planned'
<1>1. PICK S : Plan(nodes, stmts, work, fm, phase, S)
  BY DEF Planned
<1>2. /\ Doing("setup") /\ stmts' = stmts /\ phase' = phase /\ phase = "setup"
      /\ Rest \in Seq(TaskRecord) /\ Len(nodes) \in Nat /\ Node \in Nat
      /\ Node \in 1 .. Len(nodes)
      /\ fm' = PushTemp(ForceSpillAll(fm), "i", Node, FALSE)
      /\ work' = <<Task("setupParam", Node, NoSpill, 1)>> \o Rest
  BY NowDoing DEF SetupCall, SetupCalls
<1>3. PICK types \in Seq(Types) : Grow(Node, "call", types) /\ Len(types) \in Nat
  <2>1. PICK n \in 0 .. MaxParams : \E types \in [1 .. n -> Types] : Grow(Node, "call", types)
    BY DEF SetupCall
  <2>2. n \in Nat
    BY FrameAssumption
  <2>3. PICK types \in [1 .. n -> Types] : Grow(Node, "call", types)
    BY <2>1
  <2>4. types \in Seq(Types)
    BY <2>2, IsSeq
  <2>5. QED
    BY <2>3, <2>4, LenProperties
<1>4. /\ "call" \in NodeOps \ {"none"} /\ "call" \notin {"part", "cast"} /\ "call" \notin TwoOps
      /\ "call" # "leaf" /\ "call" # "arith" /\ "call" # "cmp" /\ "call" # "part"
      /\ "call" # "cast"
  BY DEF NodeOps, TwoOps
<1>5. Visited(nodes, nodes', Node, "call", types)
  BY <1>2, <1>3, <1>4, VisitIs
<1>6. OperandsFit(nodes, Node, "call", types)
  BY <1>4 DEF OperandsFit
<1>7. /\ S \in [Nat -> Held] /\ S[Node] \in Held /\ Matches(fm, S[Node]) /\ Good(fm)
      /\ nodes'[Node].spill = 0
  BY <1>1, <1>2, <1>5, <1>6, VisitStep
<1>8. PICK S1 \in [Nat -> Held] :
         /\ \A m \in 1 .. Len(nodes) : S1[m] = S[m]
         /\ S1[Node] = S[Node]
         /\ Shape(nodes', S1)
         /\ Paths(nodes', S1, Rest) /\ Tops(nodes', S1, Rest) = S[Node]
         /\ Waiting(nodes', Rest) /\ Roots(stmts, S1)
         /\ \A m \in Unseen(nodes') :
               Expects(nodes', Rest, m) \/ \E k \in 1 .. Len(types) : m = Len(nodes) + k
  BY <1>1, <1>2, <1>5, <1>6, VisitStep
<1>9. PICK b \in TaskRecord : /\ b = Task("setupParam", Node, NoSpill, 1)
                              /\ b.call = "setupParam" /\ b.n = Node /\ b.k = 1
  <2>1. "setupParam" \in SetupCalls \cup PrepareCalls /\ NoSpill \in Int /\ 1 \in Int
    BY DEF SetupCalls, NoSpill
  <2>2. QED
    BY <1>2, <2>1, TaskIs
<1>10. /\ NodesOk(nodes') /\ WorkOk(nodes', "setup", <<b>> \o Rest) /\ Good(fm')
       /\ work' = <<b>> \o Rest
  <2>1. work' = <<b>> \o Rest
    BY <1>2, <1>9
  <2>2. NodesOk(nodes') /\ WorkOk(nodes', phase', work') /\ Good(fm')
    BY DEF WalkInvariant
  <2>3. QED
    BY <1>2, <2>1, <2>2
<1>11. PICK it \in Items : it = ItemOf(Node, 0) /\ it.owner = Node
  <2>1. ItemOf(Node, 0) \in Items
    BY <1>2 DEF ItemOf, Items
  <2>2. ItemOf(Node, 0).owner = Node
    BY DEF ItemOf
  <2>3. QED
    BY <2>1, <2>2
<1>12. PICK s1 \in Held : s1 = On(S[Node], "i", it) /\ Within(S[Node], s1)
  <2>1. "i" \in Types
    BY DEF Types
  <2>2. QED
    BY <1>7, <2>1, OnIs, WithinOn
<1>13. /\ Paths(nodes', S1, work') /\ Tops(nodes', S1, work') = s1 /\ Pending(nodes', work')
       /\ work'[1] = b
  <2>1. TaskOk(nodes', "setup", b) /\ WorkOk(nodes', "setup", Rest)
    BY <1>2, <1>10, WorkParts
  <2>2. Before(nodes', S1, b) = s1
    <3>1. b.k - 1 = 0
      BY <1>9
    <3>2. Before(nodes', S1, b) = On(S1[b.n], "i", ItemOf(b.n, b.k - 1))
      BY <1>9, BeforeCases
    <3>3. QED
      BY <1>8, <1>9, <1>11, <1>12, <3>1, <3>2
  <2>3. Paths(nodes', S1, work') /\ Tops(nodes', S1, work') = s1
    BY <1>8, <1>9, <1>10, <2>1, <2>2, PathsCall
  <2>4. Own(nodes', b)
    BY <1>7, <1>9 DEF Own
  <2>5. Pending(nodes', work')
    BY <1>2, <1>8, <1>10, <2>4, PendingCall
  <2>6. QED
    BY <1>2, <1>10, <2>3, <2>5, Consed
<1>14. Matches(fm', s1) /\ \A t \in Types : First(fm', t) = Height(S[Node], t)
  <2>1. fm' = PushTemp(ForceSpillAll(fm), "i", it.owner, FALSE)
    BY <1>2, <1>11
  <2>2. QED
    BY <1>7, <1>12, <2>1, MatchCall
<1>15. \A t \in Types : First(fm, t) <= First(fm', t)
  BY <1>7, <1>14, GoodStacks DEF Matches
<1>16. Reserved(nodes', S1, work', fm', s1) /\ work'[1].call # "setup"
  BY <1>9, <1>13 DEF Reserved
<1>17. \A m \in Unseen(nodes') : Expects(nodes', work', m)
  <2>1. \A m : Expects(nodes', work', m) <=> m \in Await(nodes', b) \/ Expects(nodes', Rest, m)
    BY <1>2, <1>10, ExpectsCall
  <2>2. Len(Args(nodes', Node)) = Len(types)
        /\ \A k \in 1 .. Len(types) : Args(nodes', Node)[k] = Len(nodes) + k
    BY <1>5 DEF Visited
  <2>3. Await(nodes', b) = {Args(nodes', Node)[j] : j \in 1 .. Len(types)}
    BY <1>9, <2>2, AwaitIs
  <2>4. \A k \in 1 .. Len(types) : Len(nodes) + k \in Await(nodes', b)
    BY <2>2, <2>3
  <2>5. QED
    BY <1>8, <2>1, <2>4
<1>18. Plan(nodes', stmts', work', fm', phase', S1)
  BY <1>1, <1>2, <1>5, <1>8, <1>10, <1>12, <1>13, <1>14, <1>15, <1>16, <1>17, VisitEnds
<1>19. QED
  BY <1>18 DEF Planned

\* A visit that records leaves everything around it as it was.
LEMMA RecordStep ==
    ASSUME WalkInvariant, NEW c \in {"setupLeft", "setupParam"}, Doing(c),
           NEW S, Plan(nodes, stmts, work, fm, phase, S),
           NodesOk(nodes'), Grown(nodes, nodes', {}), Len(nodes') = Len(nodes),
           \A m \in 1 .. Len(nodes) : m # Node => nodes'[m].spill = nodes[m].spill
    PROVE  /\ S \in [Nat -> Held] /\ S[Node] \in Held /\ Shape(nodes, S) /\ Good(fm)
           /\ Tops(nodes, S, work) = Before(nodes, S, work[1])
           /\ Matches(fm, Tops(nodes, S, work)) /\ Own(nodes, work[1])
           /\ Paths(nodes', S, Rest) /\ Tops(nodes', S, Rest) = S[Node]
           /\ Waiting(nodes', Rest) /\ Shape(nodes', S)
           /\ \A m \in 1 .. Len(nodes) : /\ nodes'[m].op = nodes[m].op
                                         /\ nodes'[m].type = nodes[m].type
                                         /\ Args(nodes', m) = Args(nodes, m)
           /\ \A m \in Unseen(nodes') :
                 m \in Await(nodes, work[1]) \/ Expects(nodes', Rest, m)
<1>1. /\ work # <<>> /\ work[1].call = c /\ TaskOk(nodes, phase, work[1])
      /\ Node \in 1 .. Len(nodes) /\ Node \in Nat /\ phase = "setup" /\ Node = work[1].n
      /\ NodesOk(nodes) /\ WorkOk(nodes, phase, work) /\ Good(fm)
      /\ work \in Seq(TaskRecord)
  BY NowDoing DEF SetupCalls, WalkInvariant, Node, WorkOk
<1>2. /\ Paths(nodes, S, work) /\ Shape(nodes, S) /\ Pending(nodes, work)
      /\ Matches(fm, Tops(nodes, S, work)) /\ S \in [Nat -> Held]
      /\ \A m \in Unseen(nodes) : Expects(nodes, work, m)
  BY <1>1 DEF Plan, Paths, SetupPlan
<1>3. \A m \in 1 .. Len(nodes) : /\ nodes'[m].op = nodes[m].op
                                 /\ nodes'[m].type = nodes[m].type
                                 /\ Args(nodes', m) = Args(nodes, m)
  BY DEF Grown, Args
<1>4. Own(nodes, work[1])
  <2>1. Len(work) \in Nat \ {0}
    BY <1>1, EmptySeq
  <2>2. 1 \in 1 .. Len(work)
    BY <2>1
  <2>3. QED
    BY <1>2, <2>2 DEF Pending
<1>5. Paths(nodes', S, Rest) /\ Tops(nodes', S, Rest) = S[Node]
  <2>1. {} \subseteq Unseen(nodes)
    OBVIOUS
  <2>2. QED
    BY <1>1, <1>2, <2>1, PathsRest DEF Rest
<1>6. Waiting(nodes', Rest)
  BY <1>1, <1>2, WaitingRest DEF Rest
<1>7. Flags(nodes')
  <2>1. nodes[Node].op \in TwoOps \cup {"call"}
    <3>1. CASE c = "setupLeft"
      BY <1>1, <3>1 DEF TaskOk, TwoOps
    <3>2. CASE c = "setupParam"
      BY <1>1, <3>2 DEF TaskOk
    <3>3. QED
      BY <3>1, <3>2
  <2>2. ASSUME NEW m \in 1 .. Len(nodes), nodes'[m].op \notin TwoOps \cup {"call"}
        PROVE  nodes'[m].spill = 0
    <3>1. m # Node /\ nodes[m].op \notin TwoOps \cup {"call"}
      BY <1>3, <2>1, <2>2
    <3>2. QED
      BY <1>2, <3>1 DEF Shape, Flags
  <2>3. QED
    BY <2>2 DEF Flags
<1>8. Shape(nodes', S)
  BY <1>1, <1>2, <1>7, ShapeKept
<1>9. ASSUME NEW m \in Unseen(nodes')
      PROVE  m \in Await(nodes, work[1]) \/ Expects(nodes', Rest, m)
  <2>1. m \in Unseen(nodes)
    BY <1>3 DEF Unseen
  <2>2. Expects(nodes, work, m) /\ {} \subseteq Await(nodes, work[1])
    BY <1>2, <2>1
  <2>3. QED
    BY <1>1, <2>2, ExpectsRest DEF Rest
<1>10. S[Node] \in Held /\ Tops(nodes, S, work) = Before(nodes, S, work[1])
  BY <1>1, <1>2 DEF Tops
<1>11. QED
  BY <1>1, <1>2, <1>3, <1>4, <1>5, <1>6, <1>8, <1>9, <1>10

\* What it has to see to.
LEMMA RecordEnds ==
    ASSUME phase = "setup", NEW S, Plan(nodes, stmts, work, fm, phase, S),
           stmts' = stmts, phase' = phase, NEW n,
           RecordSpills(nodes, nodes', n, S, work, work', fm, fm', Tops(nodes, S, work),
                        Tops(nodes', S, work')),
           Shape(nodes', S), Paths(nodes', S, work'), Pending(nodes', work'),
           \A m \in Unseen(nodes') : Expects(nodes', work', m),
           Matches(fm', Tops(nodes', S, work'))
    PROVE  Planned'
<1>1. SpillLaw(nodes, S, work, fm, Tops(nodes, S, work)) /\ Roots(stmts, S)
  BY DEF Plan, SetupPlan
<1>2. SpillLaw(nodes', S, work', fm', Tops(nodes', S, work'))
  BY <1>1, RecordedLaw
<1>3. Plan(nodes', stmts', work', fm', phase', S)
  BY <1>1, <1>2 DEF Plan, SetupPlan
<1>4. QED
  BY <1>3 DEF Planned

LEMMA LeftPlan ==
    ASSUME WalkInvariant, WalkInvariant', Planned, SetupLeft
    PROVE  Planned'
<1>1. PICK S : Plan(nodes, stmts, work, fm, phase, S)
  BY DEF Planned
<1>2. /\ Doing("setupLeft") /\ stmts' = stmts /\ phase' = phase /\ phase = "setup"
      /\ Rest \in Seq(TaskRecord) /\ Node \in Nat /\ Node \in 1 .. Len(nodes)
      /\ work # <<>> /\ work[1].call = "setupLeft" /\ work[1].n = Node
      /\ nodes[Node].op \in TwoOps /\ NodesOk(nodes)
  BY NowDoing DEF SetupLeft, SetupCalls, TaskOk, Node, TwoOps, WalkInvariant
<1>3. PICK T \in Types : T = OperandType(Node) /\ T = TypeIn(nodes, Node)
  BY <1>2, SidesOk DEF TwoOps
<1>4. PICK v \in Nat : /\ v = IF PeekTopTemp(fm, T) = NoSpill THEN 0 ELSE 1
                       /\ nodes' = [nodes EXCEPT ![Node].spill = v]
                       /\ v = 1 <=> PeekTopTemp(fm, T) # NoSpill
  <2>1. PICK v : v = IF PeekTopTemp(fm, T) = NoSpill THEN 0 ELSE 1
    OBVIOUS
  <2>2. v \in Nat /\ (v = 1 <=> PeekTopTemp(fm, T) # NoSpill)
    BY <2>1
  <2>3. nodes' = [nodes EXCEPT ![Node].spill = v]
    BY <1>3, <2>1 DEF SetupLeft
  <2>4. QED
    BY <2>1, <2>2, <2>3
<1>5. /\ NodesOk(nodes') /\ Grown(nodes, nodes', {}) /\ Len(nodes') = Len(nodes)
      /\ nodes'[Node].spill = v
      /\ \A m \in 1 .. Len(nodes) : m # Node => nodes'[m].spill = nodes[m].spill
  BY <1>2, <1>4, NodeRecorded
<1>6. /\ S \in [Nat -> Held] /\ S[Node] \in Held /\ Shape(nodes, S) /\ Good(fm)
      /\ Tops(nodes, S, work) = Before(nodes, S, work[1])
      /\ Matches(fm, Tops(nodes, S, work)) /\ Own(nodes, work[1])
      /\ Paths(nodes', S, Rest) /\ Tops(nodes', S, Rest) = S[Node]
      /\ Waiting(nodes', Rest) /\ Shape(nodes', S)
      /\ \A m \in 1 .. Len(nodes) : /\ nodes'[m].op = nodes[m].op
                                    /\ nodes'[m].type = nodes[m].type
                                    /\ Args(nodes', m) = Args(nodes, m)
      /\ \A m \in Unseen(nodes') : m \in Await(nodes, work[1]) \/ Expects(nodes', Rest, m)
  <2>1. "setupLeft" \in {"setupLeft", "setupParam"}
    OBVIOUS
  <2>2. QED
    BY <1>1, <1>2, <1>5, <2>1, RecordStep
<1>7. PICK s \in Held : s = S[Node]
  BY <1>6
<1>8. PICK it \in Items : it = ItemOf(Node, 0) /\ it.owner = Node
  <2>1. ItemOf(Node, 0) \in Items
    BY <1>2 DEF ItemOf, Items
  <2>2. ItemOf(Node, 0).owner = Node
    BY DEF ItemOf
  <2>3. QED
    BY <2>1, <2>2
<1>9. PICK s0 \in Held : s0 = On(s, T, it) /\ Tops(nodes, S, work) = s0
  <2>1. Before(nodes, S, work[1]) = On(s, T, it)
    BY <1>2, <1>3, <1>7, <1>8, BeforeCases
  <2>2. On(s, T, it) \in Held
    BY <1>8, OnIs
  <2>3. QED
    BY <1>6, <2>1, <2>2
<1>10. /\ Height(s0, T) = Height(s, T) + 1 /\ ItemAt(s0, T, Height(s, T) + 1) = it
       /\ \A p \in 1 .. Height(s, T) : ItemAt(s0, T, p) = ItemAt(s, T, p)
       /\ \A u \in Types \ {T} : /\ Height(s0, u) = Height(s, u)
                                 /\ \A p : ItemAt(s0, u, p) = ItemAt(s, u, p)
       /\ \A u \in Types : Height(s, u) \in Nat
  BY <1>8, <1>9, OnIs, HeldType
<1>11. fm' = PopTemp(fm, T)
  BY <1>3 DEF SetupLeft
<1>12. /\ Depth(fm, T) > 0 /\ Depth(fm, T) = Height(s, T) + 1 /\ Matches(fm', s)
  <2>1. Matches(fm, On(s, T, it))
    BY <1>6, <1>9
  <2>2. QED
    BY <1>6, <1>8, <1>11, <2>1, MatchPop
<1>13. /\ First(fm', T) = IF First(fm, T) = Depth(fm, T) THEN Depth(fm, T) - 1 ELSE First(fm, T)
       /\ \A u \in Types \ {T} : First(fm', u) = First(fm, u)
  BY <1>6, <1>11, <1>12, PopTempFirst, Zenon
<1>14. v = 1 <=> First(fm, T) = Height(s, T) + 1
  BY <1>4, <1>6, <1>12, PeekIs
<1>15. PICK h \in Nat : h = Height(s, T)
  BY <1>10
<1>16. PICK l \in Nat \ {0} : l = Limit[T]
  BY FrameAssumption
<1>17. PICK q \in Nat : q = First(fm, T) /\ q <= h + 1 /\ h + 1 - q <= l
  BY <1>6, <1>12, <1>15, <1>16, GoodStacks
<1>18. PICK q1 \in Nat : /\ q1 = First(fm', T) /\ q1 = IF q = h + 1 THEN h ELSE q
  <2>1. First(fm', T) = IF q = h + 1 THEN h ELSE q
    BY <1>12, <1>13, <1>15, <1>17
  <2>2. QED
    BY <1>15, <1>17, <2>1
<1>19. PICK x \in TaskRecord : /\ x.call = "setup" /\ x.n = nodes[Node].args[1]
                               /\ x.n = Args(nodes', Node)[1] /\ x.n \in 1 .. Len(nodes)
                               /\ Await(nodes', x) = {x.n} /\ work' = <<x>> \o Rest
  <2>1. PICK m \in Nat : m = nodes[Node].args[1] /\ m \in 1 .. Len(nodes)
    BY <1>2, SidesOk DEF TwoOps
  <2>2. PICK x \in TaskRecord : /\ x = Task("setup", m, NoSpill, 0) /\ x.call = "setup"
                                /\ x.n = m /\ Await(nodes', x) = {m}
    BY SetupTask
  <2>3. work' = <<x>> \o Rest
    BY <2>1, <2>2 DEF SetupLeft
  <2>4. Args(nodes', Node)[1] = m
    BY <1>2, <1>6, <2>1 DEF Args
  <2>5. QED
    BY <2>1, <2>2, <2>3, <2>4
<1>20. S[x.n] = s /\ nodes'[x.n].type = T
  <2>1. PathOf(nodes', S) /\ nodes'[Node].op \in TwoOps
    BY <1>2, <1>6 DEF Shape
  <2>2. S[x.n] = s
    BY <1>2, <1>5, <1>7, <1>19, <2>1 DEF PathOf
  <2>3. QED
    BY <1>3, <1>6, <1>19, <2>2 DEF TypeIn, Args
<1>21. /\ Paths(nodes', S, work') /\ Tops(nodes', S, work') = s
       /\ Pending(nodes', work') /\ work'[1] = x
  <2>1. WorkOk(nodes', "setup", <<x>> \o Rest)
    <3>1. WorkOk(nodes', phase', work')
      BY DEF WalkInvariant
    <3>2. QED
      BY <1>2, <1>19, <3>1
  <2>2. /\ Paths(nodes', S, <<x>> \o Rest) /\ Tops(nodes', S, <<x>> \o Rest) = S[x.n]
        /\ Pending(nodes', <<x>> \o Rest) /\ (<<x>> \o Rest)[1] = x
    BY <1>2, <1>5, <1>6, <1>7, <1>19, <1>20, <2>1, NextVisit
  <2>3. QED
    BY <1>19, <1>20, <2>2
<1>22. \A m \in Unseen(nodes') : Expects(nodes', work', m)
  <2>1. \A m : Expects(nodes', work', m) <=> m \in Await(nodes', x) \/ Expects(nodes', Rest, m)
    BY <1>2, <1>19, ExpectsCall
  <2>2. Await(nodes, work[1]) = {x.n}
    <3>1. Await(nodes, work[1]) = {Args(nodes, work[1].n)[1]}
      BY <1>2, AwaitIs
    <3>2. Args(nodes, Node)[1] = x.n
      BY <1>19 DEF Args
    <3>3. QED
      BY <1>2, <3>1, <3>2
  <2>3. QED
    BY <1>6, <1>19, <2>1, <2>2
<1>23. \A i : Marked(nodes, i) /\ i.owner = Node => Marked(nodes', i)
  <2>1. nodes[Node].spill = 0 /\ nodes[Node].op # "call"
    BY <1>2, <1>6 DEF Own, TwoOps
  <2>2. QED
    BY <2>1 DEF Marked
<1>24. ASSUME NEW m \in 1 .. Len(nodes), NEW t \in Types, NEW p \in 1 .. Height(S[m], t),
              Live(fm, s0, ItemAt(S[m], t, p), t, p)
       PROVE  Live(fm', s, ItemAt(S[m], t, p), t, p) \/ Marked(nodes', ItemAt(S[m], t, p))
  <2>1. PICK i : i = ItemAt(S[m], t, p)
    OBVIOUS
  <2>2. p <= Height(s0, t) /\ ItemAt(s0, t, p) = i /\ p <= First(fm, t)
    BY <1>24, <2>1 DEF Live
  <2>3. CASE t # T
    BY <1>10, <1>13, <2>1, <2>2, <2>3 DEF Live
  <2>4. CASE t = T /\ p <= h
    <3>1. p \in 1 .. h /\ p <= q1
      BY <1>17, <1>18, <2>2, <2>4
    <3>2. QED
      BY <1>10, <1>15, <1>18, <2>1, <2>2, <2>4, <3>1 DEF Live
  <2>5. CASE t = T /\ ~(p <= h)
    <3>1. p = h + 1 /\ q = h + 1
      BY <1>10, <1>15, <1>17, <2>2, <2>5
    <3>2. i = ItemOf(Node, 0) /\ v = 1
      BY <1>8, <1>10, <1>14, <1>15, <1>17, <2>2, <2>5, <3>1
    <3>3. Marked(nodes', i)
      BY <1>2, <1>5, <1>6, <1>8, <3>2 DEF Marked, TwoOps
    <3>4. QED
      BY <2>1, <3>3
  <2>6. QED
    BY <2>3, <2>4, <2>5
<1>25. Reserved(nodes', S, work', fm', s)
  <2>1. q1 >= h + 1 - l
    BY <1>16, <1>17, <1>18
  <2>2. First(fm', T) \in Int /\ First(fm', T) >= Height(s, T) + 1 - Limit[T]
    BY <1>15, <1>16, <1>18, <2>1
  <2>3. QED
    BY <1>20, <1>21, <2>2, ReservedFor
<1>26. ASSUME nodes'[Node].spill = 1, NEW p \in 1 .. Height(S[Node], TypeIn(nodes, Node))
       PROVE  Live(fm', s, ItemAt(S[Node], TypeIn(nodes, Node), p), TypeIn(nodes, Node), p)
  <2>1. q = h + 1 /\ q1 = h /\ p \in 1 .. h
    BY <1>3, <1>5, <1>7, <1>14, <1>15, <1>17, <1>18, <1>26
  <2>2. p <= Height(s, T) /\ p <= First(fm', T)
    BY <1>15, <1>18, <2>1
  <2>3. QED
    BY <1>3, <1>7, <2>2 DEF Live
<1>27. RecordSpills(nodes, nodes', Node, S, work, work', fm, fm', s0, s)
  BY <1>2, <1>5, <1>6, <1>23, <1>24, <1>25, <1>26 DEF RecordSpills
<1>28. QED
  BY <1>1, <1>2, <1>6, <1>9, <1>12, <1>21, <1>22, <1>27, RecordEnds

\* Before parameter k, what address k - 1 needed is recorded.
LEMMA ParamRecords ==
    ASSUME WalkInvariant, SetupParam, NEW k \in Nat \ {0}, k = work[1].k,
           nodes[Node].spill < k
    PROVE  /\ NodesOk(nodes') /\ Grown(nodes, nodes', {}) /\ Len(nodes') = Len(nodes)
           /\ \A m \in 1 .. Len(nodes) : m # Node => nodes'[m].spill = nodes[m].spill
           /\ \A i : Marked(nodes, i) /\ i.owner = Node => Marked(nodes', i)
           /\ nodes'[Node].spill \in Nat /\ nodes'[Node].spill < k
           /\ (k > 1 /\ PeekTopTemp(fm, "i") # NoSpill) => nodes'[Node].spill \in 1 .. (k - 1)
<1>1. /\ work # <<>> /\ work[1].call = "setupParam" /\ work[1].n = Node
      /\ Node \in 1 .. Len(nodes) /\ NodesOk(nodes) /\ nodes[Node].op = "call"
  BY NowDoing DEF SetupParam, WalkInvariant, Node, TaskOk
<1>2. nodes[Node].spill \in Nat
  BY <1>1, ArgCounts
<1>3. PICK peek \in BOOLEAN : peek <=> PeekTopTemp(fm, "i") # NoSpill
  OBVIOUS
<1>4. PICK moved \in BOOLEAN :
         /\ moved <=> (k > 1 /\ nodes[Node].spill = 0 /\ peek)
         /\ nodes' = IF moved THEN [nodes EXCEPT ![Node].spill = k - 1] ELSE nodes
  <2>1. PICK moved : /\ moved = (k > 1 /\ nodes[Node].spill = 0 /\ PeekTopTemp(fm, "i") # NoSpill)
                     /\ nodes' = IF moved THEN [nodes EXCEPT ![Node].spill = k - 1] ELSE nodes
    BY DEF SetupParam
  <2>2. moved \in BOOLEAN
    BY <2>1
  <2>3. moved <=> (k > 1 /\ nodes[Node].spill = 0 /\ peek)
    BY <1>3, <2>1
  <2>4. QED
    BY <2>1, <2>2, <2>3
<1>5. CASE moved
  <2>1. PICK v \in Nat : v = k - 1
    OBVIOUS
  <2>2. nodes' = [nodes EXCEPT ![Node].spill = v]
    BY <1>4, <1>5, <2>1
  <2>3. /\ NodesOk(nodes') /\ Grown(nodes, nodes', {}) /\ Len(nodes') = Len(nodes)
        /\ nodes'[Node].spill = v
        /\ \A m \in 1 .. Len(nodes) : m # Node => nodes'[m].spill = nodes[m].spill
    BY <1>1, <2>2, NodeRecorded
  <2>4. ASSUME NEW i, Marked(nodes, i), i.owner = Node PROVE Marked(nodes', i)
    <3>1. nodes[Node].spill \in 1 .. i.k
      BY <1>1, <2>4 DEF Marked
    <3>2. nodes[Node].spill # 0
      BY <3>1
    <3>3. QED
      BY <1>4, <1>5, <3>2
  <2>5. k > 1
    BY <1>4, <1>5
  <2>6. v < k /\ v \in 1 .. (k - 1)
    BY <2>1, <2>5
  <2>7. QED
    BY <2>3, <2>4, <2>6
<1>6. CASE ~moved
  <2>1. nodes' = nodes
    BY <1>4, <1>6
  <2>2. Grown(nodes, nodes, {})
    <3>1. nodes \in Seq(NodeRecord) /\ Len(nodes) \in Nat
      BY <1>1, LenProperties DEF NodesOk
    <3>2. QED
      BY <3>1 DEF Grown
  <2>3. k > 1 /\ peek => nodes[Node].spill \in 1 .. (k - 1)
    BY <1>2, <1>4, <1>6
  <2>4. QED
    BY <1>1, <1>2, <1>3, <2>1, <2>2, <2>3
<1>7. QED
  BY <1>5, <1>6

\* A spilled item stays on the frame unless it was the uppermost one.
LEMMA AddressLive ==
    ASSUME NEW s \in Held, NEW it \in Items, NEW it1 \in Items, NEW s0 \in Held,
           s0 = On(s, "i", it), NEW s1 \in Held, s1 = s \/ s1 = On(s, "i", it1),
           NEW f, NEW f1,
           \A u \in Types : \A q \in 1 .. Height(s, u) : q <= First(f, u) => q <= First(f1, u),
           NEW i, NEW t \in Types, NEW p \in Nat \ {0}, Live(f, s0, i, t, p)
    PROVE  Live(f1, s1, i, t, p) \/ (t = "i" /\ p = Height(s, "i") + 1 /\ i = it)
<1>1. p <= Height(s0, t) /\ ItemAt(s0, t, p) = i /\ p <= First(f, t)
  BY DEF Live
<1>2. "i" \in Types /\ Height(s, t) \in Nat
  BY HeldType DEF Types
<1>3. PICK h \in Nat : h = Height(s, t)
  BY <1>2
<1>4. /\ t = "i" => Height(s0, t) = h + 1 /\ ItemAt(s0, t, h + 1) = it
      /\ t # "i" => Height(s0, t) = h
      /\ \A q \in 1 .. h : ItemAt(s0, t, q) = ItemAt(s, t, q)
  BY <1>2, <1>3, OnIs
<1>5. /\ h <= Height(s1, t) /\ Height(s1, t) \in Nat
      /\ \A q \in 1 .. h : ItemAt(s1, t, q) = ItemAt(s, t, q)
  <2>1. CASE s1 = s
    BY <1>3, <2>1
  <2>2. CASE s1 = On(s, "i", it1)
    <3>1. CASE t = "i"
      BY <1>3, <2>2, <3>1, OnIs
    <3>2. CASE t # "i"
      BY <1>2, <1>3, <2>2, <3>2, OnIs
    <3>3. QED
      BY <3>1, <3>2
  <2>3. QED
    BY <2>1, <2>2
<1>6. CASE p <= h
  <2>1. p \in 1 .. h
    BY <1>6
  <2>2. p <= First(f1, t)
    BY <1>1, <1>3, <2>1
  <2>3. ItemAt(s1, t, p) = i
    BY <1>1, <1>4, <1>5, <2>1
  <2>4. p <= Height(s1, t)
    BY <1>5, <1>6
  <2>5. QED
    BY <2>2, <2>3, <2>4 DEF Live
<1>7. CASE ~(p <= h)
  <2>1. t = "i" /\ p = h + 1
    BY <1>1, <1>4, <1>7
  <2>2. QED
    BY <1>1, <1>3, <1>4, <2>1
<1>8. QED
  BY <1>6, <1>7

LEMMA ParamPlan ==
    ASSUME WalkInvariant, WalkInvariant', Planned, SetupParam
    PROVE  Planned'
<1>1. PICK S : Plan(nodes, stmts, work, fm, phase, S)
  BY DEF Planned
<1>2. /\ Doing("setupParam") /\ stmts' = stmts /\ phase' = phase /\ phase = "setup"
      /\ Rest \in Seq(TaskRecord) /\ Node \in Nat /\ Node \in 1 .. Len(nodes)
      /\ work # <<>> /\ work[1].call = "setupParam" /\ work[1].n = Node
      /\ nodes[Node].op = "call" /\ NodesOk(nodes) /\ "i" \in Types
  BY NowDoing DEF SetupParam, SetupCalls, TaskOk, Node, WalkInvariant, Types
<1>3. PICK k \in Nat \ {0} : k = work[1].k
  <2>1. work[1].k \in Int /\ work[1].k > 0
    BY <1>2, NowDoing DEF TaskOk
  <2>2. QED
    BY <2>1
<1>4. "setupParam" \in {"setupLeft", "setupParam"}
  OBVIOUS
<1>5. nodes[Node].spill < k
  <2>1. Pending(nodes, work) /\ work \in Seq(TaskRecord)
    BY <1>1, <1>2 DEF Plan, SetupPlan, WalkInvariant, WorkOk
  <2>2. Len(work) \in Nat \ {0}
    BY <1>2, <2>1, EmptySeq
  <2>3. 1 \in 1 .. Len(work)
    BY <2>2
  <2>4. Own(nodes, work[1])
    BY <2>1, <2>3 DEF Pending
  <2>5. QED
    BY <1>2, <1>3, <2>4 DEF Own
<1>6. /\ NodesOk(nodes') /\ Grown(nodes, nodes', {}) /\ Len(nodes') = Len(nodes)
      /\ \A m \in 1 .. Len(nodes) : m # Node => nodes'[m].spill = nodes[m].spill
      /\ \A i : Marked(nodes, i) /\ i.owner = Node => Marked(nodes', i)
      /\ nodes'[Node].spill \in Nat /\ nodes'[Node].spill < k
      /\ (k > 1 /\ PeekTopTemp(fm, "i") # NoSpill) => nodes'[Node].spill \in 1 .. (k - 1)
  BY <1>3, <1>5, ParamRecords
<1>7. /\ S \in [Nat -> Held] /\ S[Node] \in Held /\ Shape(nodes, S) /\ Good(fm)
      /\ Tops(nodes, S, work) = Before(nodes, S, work[1])
      /\ Matches(fm, Tops(nodes, S, work))
      /\ Paths(nodes', S, Rest) /\ Tops(nodes', S, Rest) = S[Node]
      /\ Waiting(nodes', Rest) /\ Shape(nodes', S)
      /\ \A m \in 1 .. Len(nodes) : /\ nodes'[m].op = nodes[m].op
                                    /\ nodes'[m].type = nodes[m].type
                                    /\ Args(nodes', m) = Args(nodes, m)
      /\ \A m \in Unseen(nodes') : m \in Await(nodes, work[1]) \/ Expects(nodes', Rest, m)
  BY <1>1, <1>2, <1>4, <1>6, RecordStep
<1>8. PICK s \in Held : s = S[Node]
  BY <1>7
<1>9. PICK it \in Items : it = ItemOf(Node, k - 1) /\ it.owner = Node /\ it.k = k - 1
  <2>1. ItemOf(Node, k - 1) \in Items
    BY <1>2 DEF ItemOf, Items
  <2>2. ItemOf(Node, k - 1).owner = Node /\ ItemOf(Node, k - 1).k = k - 1
    BY DEF ItemOf
  <2>3. QED
    BY <2>1, <2>2
<1>10. PICK it1 \in Items : it1 = ItemOf(Node, k) /\ it1.owner = Node
  <2>1. ItemOf(Node, k) \in Items
    BY <1>2 DEF ItemOf, Items
  <2>2. ItemOf(Node, k).owner = Node
    BY DEF ItemOf
  <2>3. QED
    BY <2>1, <2>2
<1>11. PICK s0 \in Held : s0 = On(s, "i", it) /\ Tops(nodes, S, work) = s0
  <2>1. Before(nodes, S, work[1]) = On(s, "i", it)
    BY <1>2, <1>3, <1>8, <1>9, BeforeCases
  <2>2. On(s, "i", it) \in Held
    BY <1>2, <1>9, OnIs
  <2>3. QED
    BY <1>7, <2>1, <2>2
<1>12. PICK h \in Nat : h = Height(s, "i")
  BY <1>2, HeldType
<1>13. Depth(fm, "i") = h + 1 /\ Depth(fm, "i") > 0 /\ Matches(PopTemp(fm, "i"), s)
  <2>1. Matches(fm, On(s, "i", it))
    BY <1>7, <1>11
  <2>2. QED
    BY <1>2, <1>7, <1>9, <1>12, <2>1, MatchPop
<1>14. \A u \in Types : First(fm, u) \in Nat /\ Limit[u] \in Nat \ {0} /\ Height(s, u) \in Nat
  BY <1>7, GoodStacks, HeldType
\* What is not on the frame any more is marked.
<1>15. ASSUME NEW m \in 1 .. Len(nodes), NEW p \in 1 .. Height(S[m], "i"),
              Live(fm, s0, ItemAt(S[m], "i", p), "i", p), p = h + 1,
              ItemAt(S[m], "i", p) = it
       PROVE  Marked(nodes', ItemAt(S[m], "i", p))
  <2>1. nodes[it.owner].op = "call" => it.k > 0
    BY <1>2, <1>7, <1>15 DEF Shape, ItemsOk
  <2>2. k > 1
    BY <1>2, <1>9, <2>1
  <2>3. h + 1 <= First(fm, "i")
    BY <1>15 DEF Live
  <2>4. First(fm, "i") = Depth(fm, "i")
    BY <1>2, <1>7, <1>13, <1>14, <2>3, GoodStacks
  <2>5. PeekTopTemp(fm, "i") # NoSpill
    BY <1>2, <1>7, <1>13, <2>4, PeekIs
  <2>6. nodes'[it.owner].op = "call" /\ nodes'[it.owner].spill \in 1 .. it.k
    BY <1>2, <1>6, <1>7, <1>9, <2>2, <2>5
  <2>7. QED
    BY <1>15, <2>6 DEF Marked
<1>16. ASSUME NEW s1 \in Held, s1 = s \/ s1 = On(s, "i", it1), NEW f1,
              \A u \in Types : \A q \in 1 .. Height(s, u) : q <= First(fm, u) => q <= First(f1, u),
              NEW m \in 1 .. Len(nodes), NEW t \in Types, NEW p \in 1 .. Height(S[m], t),
              Live(fm, s0, ItemAt(S[m], t, p), t, p)
       PROVE  Live(f1, s1, ItemAt(S[m], t, p), t, p) \/ Marked(nodes', ItemAt(S[m], t, p))
  <2>1. PICK i : i = ItemAt(S[m], t, p)
    OBVIOUS
  <2>2. p \in Nat \ {0}
    <3>1. S[m] \in Held
      BY <1>2, <1>7
    <3>2. Height(S[m], t) \in Nat
      BY <3>1, HeldType
    <3>3. QED
      BY <3>2
  <2>3. Live(fm, s0, i, t, p)
    BY <1>16, <2>1
  <2>4. Live(f1, s1, i, t, p) \/ (t = "i" /\ p = Height(s, "i") + 1 /\ i = it)
    BY <1>9, <1>10, <1>11, <1>16, <2>2, <2>3, AddressLive
  <2>5. QED
    BY <1>12, <1>15, <1>16, <2>1, <2>4
<1>17. work[1].k \in Int /\ ~(nodes[Node].op \in TwoOps)
  BY <1>2, <1>3 DEF TwoOps
<1>18. PICK l \in Nat : l = Len(nodes[Node].args) /\ l = Len(Args(nodes, Node))
  BY <1>2, ArgCounts DEF Args
<1>19. ASSUME NEW s1 \in Held, s1 = s \/ s1 = On(s, "i", it1),
              \A u \in Types : \A q \in 1 .. Height(s, u) : q <= First(fm, u) => q <= First(fm', u),
              Reserved(nodes', S, work', fm', s1)
       PROVE  RecordSpills(nodes, nodes', Node, S, work, work', fm, fm', s0, s1)
  <2>1. \A m \in 1 .. Len(nodes), t \in Types : \A p \in 1 .. Height(S[m], t) :
           Live(fm, s0, ItemAt(S[m], t, p), t, p) =>
              Live(fm', s1, ItemAt(S[m], t, p), t, p) \/ Marked(nodes', ItemAt(S[m], t, p))
    BY <1>16, <1>19
  <2>2. QED
    BY <1>2, <1>6, <1>7, <1>17, <1>19, <2>1 DEF RecordSpills
<1>20. Await(nodes, work[1]) = {Args(nodes, Node)[j] : j \in k .. l}
  <2>1. Await(nodes, work[1]) =
            {Args(nodes, work[1].n)[j] : j \in work[1].k .. Len(Args(nodes, work[1].n))}
    BY <1>2, AwaitIs
  <2>2. QED
    BY <1>2, <1>3, <1>18, <2>1
<1>21. CASE k > l
  <2>1. fm' = PopTemp(fm, "i") /\ work' = Rest
    BY <1>3, <1>18, <1>21 DEF SetupParam
  <2>2. /\ First(fm', "i") = IF First(fm, "i") = Depth(fm, "i") THEN Depth(fm, "i") - 1
                                                             ELSE First(fm, "i")
        /\ \A u \in Types \ {"i"} : First(fm', u) = First(fm, u)
    BY <1>2, <1>7, <1>13, <2>1, PopTempFirst, Zenon
  <2>3. ASSUME NEW u \in Types, NEW q \in 1 .. Height(s, u), q <= First(fm, u)
        PROVE  q <= First(fm', u)
    <3>1. CASE u = "i"
      BY <1>12, <1>13, <2>2, <2>3, <3>1
    <3>2. CASE u # "i"
      BY <2>2, <2>3, <3>2
    <3>3. QED
      BY <3>1, <3>2
  <2>4. Rest # <<>> => Rest[1].call # "setup"
    BY <1>2, <1>7, WaitingHead
  <2>5. Reserved(nodes', S, work', fm', s)
    BY <2>1, <2>4 DEF Reserved
  <2>6. RecordSpills(nodes, nodes', Node, S, work, work', fm, fm', s0, s)
    BY <1>19, <2>3, <2>5
  <2>7. Pending(nodes', work')
    BY <1>7, <2>1 DEF Waiting, Pending
  <2>8. \A m \in Unseen(nodes') : Expects(nodes', work', m)
    <3>1. k .. l = {}
      BY <1>21
    <3>2. Await(nodes, work[1]) = {}
      BY <1>20, <3>1
    <3>3. QED
      BY <1>7, <2>1, <3>2
  <2>9. /\ Tops(nodes', S, work') = s /\ Paths(nodes', S, work') /\ Matches(fm', s)
    BY <1>7, <1>8, <1>13, <2>1
  <2>10. QED
    BY <1>1, <1>2, <1>7, <1>11, <2>6, <2>7, <2>8, <2>9, RecordEnds
<1>22. CASE k <= l
  <2>1. k \in 1 .. Len(Args(nodes, Node))
    BY <1>18, <1>22
  <2>2. PICK m \in 1 .. Len(nodes), t \in Types : m = Args(nodes, Node)[k] /\ t = nodes[m].type
    BY <1>2, <2>1, ArgOk
  <2>3. /\ fm' = ReserveTemp(fm, t)
        /\ work' = <<Task("setup", m, NoSpill, 0),
                     Task("setupParam", Node, NoSpill, k + 1)>> \o Rest
    BY <1>3, <1>18, <1>22, <2>2 DEF SetupParam, Args
  <2>4. PICK s1 \in Held : s1 = On(s, "i", it1) /\ S[m] = s1
    <3>1. On(s, "i", it1) \in Held
      BY <1>2, OnIs
    <3>2. S[m] = On(S[Node], "i", ItemOf(Node, k))
      BY <1>2, <1>7, <2>1, <2>2 DEF Shape, PathOf
    <3>3. QED
      BY <1>8, <1>10, <3>1, <3>2
  <2>5. Matches(fm, s1)
    BY <1>2, <1>7, <1>9, <1>10, <1>11, <2>4, MatchAddress
  <2>6. /\ Matches(fm', s1) /\ Keeps(fm, fm')
        /\ First(fm', t) = Larger(First(fm, t), Height(s1, t) + 1 - Limit[t])
        /\ \A u \in Types \ {t} : First(fm', u) = First(fm, u)
    BY <1>7, <2>3, <2>5, MatchReserve, Zenon
  <2>7. \A u \in Types : Height(s1, u) \in Nat
    BY HeldType
  <2>8. /\ \A u \in Types : First(fm, u) <= First(fm', u) /\ First(fm', u) \in Int
        /\ First(fm', t) >= Height(s1, t) + 1 - Limit[t]
    BY <1>14, <2>6, <2>7 DEF Larger
  <2>9. ASSUME NEW u \in Types, NEW q \in 1 .. Height(s, u), q <= First(fm, u)
        PROVE  q <= First(fm', u)
    BY <1>14, <2>8, <2>9
  <2>10. PICK x \in TaskRecord : /\ x = Task("setup", m, NoSpill, 0) /\ x.call = "setup"
                                 /\ x.n = m /\ Await(nodes', x) = {m}
    <3>1. m \in Nat
      BY <2>2
    <3>2. QED
      BY <3>1, SetupTask
  <2>11. PICK b \in TaskRecord : /\ b = Task("setupParam", Node, NoSpill, k + 1)
                                 /\ b.call = "setupParam" /\ b.n = Node /\ b.k = k + 1
    <3>1. "setupParam" \in SetupCalls \cup PrepareCalls /\ NoSpill \in Int /\ k + 1 \in Int
      BY DEF SetupCalls, NoSpill
    <3>2. QED
      BY <1>2, <3>1, TaskIs
  <2>12. PICK w : w = <<b>> \o Rest
    OBVIOUS
  <2>13. work' = <<x>> \o w /\ w \in Seq(TaskRecord)
    <3>1. <<x, b>> \o Rest = <<x>> \o (<<b>> \o Rest)
      BY <1>2, TwoTasks
    <3>2. w \in Seq(TaskRecord)
      BY <1>2, <2>12, Consed
    <3>3. QED
      BY <2>3, <2>10, <2>11, <2>12, <3>1, <3>2
  <2>14. WorkOk(nodes', "setup", <<x>> \o w)
    <3>1. WorkOk(nodes', phase', work')
      BY DEF WalkInvariant
    <3>2. QED
      BY <1>2, <2>13, <3>1
  <2>15. WorkOk(nodes', "setup", w)
    BY <2>13, <2>14, WorkParts
  <2>16. TaskOk(nodes', "setup", b) /\ WorkOk(nodes', "setup", Rest)
    BY <1>2, <2>12, <2>15, WorkParts
  <2>17. Before(nodes', S, b) = s1
    <3>1. Before(nodes', S, b) = On(S[b.n], "i", ItemOf(b.n, b.k - 1))
      BY <2>11, BeforeCases
    <3>2. b.k - 1 = k
      BY <2>11
    <3>3. QED
      BY <1>8, <1>10, <2>4, <2>11, <3>1, <3>2
  <2>18. Paths(nodes', S, w) /\ Tops(nodes', S, w) = s1
    <3>1. S[b.n] = Tops(nodes', S, Rest)
      BY <1>7, <2>11
    <3>2. QED
      BY <1>6, <1>7, <2>12, <2>16, <2>17, <3>1, PathsCall
  <2>19. Waiting(nodes', w)
    <3>1. Own(nodes', b)
      <4>1. nodes'[b.n].spill < b.k
        BY <1>6, <2>11
      <4>2. QED
        BY <2>11, <4>1 DEF Own
    <3>2. b.call # "setup"
      BY <2>11
    <3>3. QED
      BY <1>2, <1>7, <2>12, <3>1, <3>2, PendingCall
  <2>20. /\ Paths(nodes', S, <<x>> \o w) /\ Tops(nodes', S, <<x>> \o w) = S[x.n]
         /\ Pending(nodes', <<x>> \o w) /\ (<<x>> \o w)[1] = x
    <3>1. S[x.n] = Tops(nodes', S, w)
      BY <2>4, <2>10, <2>18
    <3>2. QED
      BY <1>6, <2>10, <2>13, <2>14, <2>18, <2>19, <3>1, NextVisit
  <2>21. Reserved(nodes', S, work', fm', s1)
    <3>1. nodes'[x.n].type = t /\ work'[1] = x /\ S[x.n] = s1
      BY <1>7, <2>2, <2>4, <2>10, <2>13, <2>20
    <3>2. First(fm', t) \in Int
      BY <2>8
    <3>3. QED
      BY <2>8, <3>1, <3>2, ReservedFor
  <2>22. RecordSpills(nodes, nodes', Node, S, work, work', fm, fm', s0, s1)
    BY <1>19, <2>4, <2>9, <2>21
  <2>23. \A j : Expects(nodes', work', j) <=>
              j \in Await(nodes', x) \/ j \in Await(nodes', b) \/ Expects(nodes', Rest, j)
    <3>1. \A j : Expects(nodes', <<x>> \o w, j) <=> j \in Await(nodes', x) \/ Expects(nodes', w, j)
      BY <2>13, ExpectsCall
    <3>2. \A j : Expects(nodes', w, j) <=> j \in Await(nodes', b) \/ Expects(nodes', Rest, j)
      BY <1>2, <2>12, ExpectsCall
    <3>3. QED
      BY <2>13, <3>1, <3>2
  <2>24. Await(nodes', b) = {Args(nodes, Node)[j] : j \in (k + 1) .. l}
    <3>1. Await(nodes', b) = {Args(nodes', b.n)[j] : j \in b.k .. Len(Args(nodes', b.n))}
      BY <2>11, AwaitIs
    <3>2. Args(nodes', b.n) = Args(nodes, Node)
      BY <1>2, <1>7, <2>11
    <3>3. QED
      BY <1>18, <2>11, <3>1, <3>2
  <2>25. \A j \in k .. l : j = k \/ j \in (k + 1) .. l
    OBVIOUS
  <2>26. \A j \in Await(nodes, work[1]) : j \in Await(nodes', x) \/ j \in Await(nodes', b)
    BY <1>20, <2>2, <2>10, <2>24, <2>25
  <2>27. \A j \in Unseen(nodes') : Expects(nodes', work', j)
    BY <1>7, <2>23, <2>26
  <2>28. /\ Tops(nodes', S, work') = s1 /\ Paths(nodes', S, work') /\ Pending(nodes', work')
    BY <2>4, <2>10, <2>13, <2>20
  <2>29. QED
    BY <1>1, <1>2, <1>7, <1>11, <2>6, <2>22, <2>27, <2>28, RecordEnds
<1>23. QED
  BY <1>18, <1>21, <1>22

\* A node that was not come to yet finds nothing on the stacks.
LEMMA AppendedShape ==
    ASSUME NEW ns, NodesOk(ns), NEW ns1 \in Seq(NodeRecord), NEW l \in Nat, l = Len(ns),
           Len(ns1) = l + 1, \A m \in 1 .. l : ns1[m] = ns[m],
           ns1[l + 1].op = "none", ns1[l + 1].spill = 0,
           NEW S, NEW S1, \A m \in 1 .. l : S1[m] = S[m], S1[l + 1] = Nothing, Shape(ns, S)
    PROVE  /\ Shape(ns1, S1) /\ Grown(ns, ns1, {})
           /\ \A m \in 1 .. l : ns[m].op \in TwoOps => TypeIn(ns1, m) = TypeIn(ns, m)
<1>1. \A m \in 1 .. (l + 1) : m \in 1 .. l \/ m = l + 1
  OBVIOUS
<1>2. {} \subseteq Unseen(ns) /\ Grown(ns, ns1, {})
  BY DEF Grown
<1>3. ns1[l + 1].op \notin TwoOps \cup {"call", "part", "cast", "leaf", "arith", "cmp"}
  BY DEF TwoOps
<1>4. \A m \in 1 .. l : Args(ns1, m) = Args(ns, m) /\ ns1[m] = ns[m] /\ S1[m] = S[m]
  BY DEF Args
<1>5. \A m \in 1 .. l : \A k \in 1 .. Len(Args(ns, m)) : Args(ns, m)[k] \in 1 .. l
  BY DEF NodesOk
<1>6. \A m \in 1 .. l : ns[m].op \in {"part", "cast"} \cup TwoOps => 1 \in 1 .. Len(Args(ns, m))
  BY ArgIndex
<1>7. \A m \in 1 .. l : ns[m].op \in TwoOps => 2 \in 1 .. Len(Args(ns, m))
  BY ArgIndex
<1>8. \A m \in 1 .. l : ns[m].op \in {"part", "cast"} \cup TwoOps =>
                            TypeIn(ns1, m) = TypeIn(ns, m)
  BY <1>4, <1>5, <1>6 DEF TypeIn
<1>9. PathOf(ns1, S1)
  <2>1. ASSUME NEW m \in 1 .. l
        PROVE  /\ ns1[m].op \in {"part", "cast"} => S1[Args(ns1, m)[1]] = S1[m]
               /\ ns1[m].op \in TwoOps =>
                     /\ S1[Args(ns1, m)[1]] = S1[m]
                     /\ S1[Args(ns1, m)[2]] = On(S1[m], TypeIn(ns1, m), ItemOf(m, 0))
               /\ ns1[m].op = "call" =>
                     \A k \in 1 .. Len(Args(ns1, m)) :
                         S1[Args(ns1, m)[k]] = On(S1[m], "i", ItemOf(m, k))
    <3>1. /\ ns[m].op \in {"part", "cast"} => S[Args(ns, m)[1]] = S[m]
          /\ ns[m].op \in TwoOps =>
                /\ S[Args(ns, m)[1]] = S[m]
                /\ S[Args(ns, m)[2]] = On(S[m], TypeIn(ns, m), ItemOf(m, 0))
          /\ ns[m].op = "call" =>
                \A k \in 1 .. Len(Args(ns, m)) : S[Args(ns, m)[k]] = On(S[m], "i", ItemOf(m, k))
      BY DEF Shape, PathOf
    <3>2. CASE ns[m].op \in {"part", "cast"}
      <4>1. Args(ns, m)[1] \in 1 .. l /\ ns[m].op \notin TwoOps /\ ns[m].op # "call"
        BY <1>5, <1>6, <3>2 DEF TwoOps
      <4>2. QED
        BY <1>4, <3>1, <3>2, <4>1
    <3>3. CASE ns[m].op \in TwoOps
      <4>1. /\ Args(ns, m)[1] \in 1 .. l /\ Args(ns, m)[2] \in 1 .. l
            /\ ns[m].op \notin {"part", "cast"} /\ ns[m].op # "call"
        BY <1>5, <1>6, <1>7, <3>3 DEF TwoOps
      <4>2. TypeIn(ns1, m) = TypeIn(ns, m)
        BY <1>8, <3>3
      <4>3. QED
        BY <1>4, <3>1, <3>3, <4>1, <4>2
    <3>4. CASE ns[m].op = "call"
      <4>1. ns[m].op \notin TwoOps /\ ns[m].op \notin {"part", "cast"}
        BY <3>4 DEF TwoOps
      <4>2. \A k \in 1 .. Len(Args(ns, m)) : S1[Args(ns, m)[k]] = S[Args(ns, m)[k]]
        BY <1>4, <1>5
      <4>3. QED
        BY <1>4, <3>1, <3>4, <4>1, <4>2
    <3>5. CASE ns[m].op \notin {"part", "cast"} /\ ns[m].op \notin TwoOps /\ ns[m].op # "call"
      BY <1>4, <3>5
    <3>6. QED
      BY <3>2, <3>3, <3>4, <3>5
  <2>2. QED
    BY <1>1, <1>3, <2>1 DEF PathOf
<1>10. Typed(ns1)
  <2>1. ASSUME NEW m \in 1 .. l
        PROVE  /\ ns1[m].op = "leaf" => Len(Args(ns1, m)) = 0
               /\ ns1[m].op = "part" => TypeIn(ns1, m) = ns1[m].type
               /\ ns1[m].op = "cast" => TypeIn(ns1, m) = "i" /\ ns1[m].type = "f"
               /\ ns1[m].op = "arith" => TypeIn(ns1, m) = ns1[m].type
               /\ ns1[m].op = "cmp" => ns1[m].type = "i"
    BY <1>4, <1>8 DEF Shape, Typed, TwoOps
  <2>2. ASSUME NEW m \in 1 .. l, ns[m].op \in TwoOps
        PROVE  ns1[Args(ns1, m)[2]].type = TypeIn(ns1, m)
    <3>1. Args(ns, m)[2] \in 1 .. l
      BY <1>5, <1>7, <2>2
    <3>2. ns[Args(ns, m)[2]].type = TypeIn(ns, m)
      BY <2>2 DEF Shape, Typed
    <3>3. QED
      BY <1>4, <1>8, <2>2, <3>1, <3>2
  <2>3. QED
    BY <1>1, <1>3, <1>4, <2>1, <2>2 DEF Typed
<1>11. ItemsOk(ns1, S1)
  <2> SUFFICES ASSUME NEW m \in 1 .. (l + 1), NEW t \in Types, NEW p \in 1 .. Height(S1[m], t)
               PROVE  LET it == ItemAt(S1[m], t, p)
                      IN  /\ Placed(ns1, S1, it, t, p)
                          /\ ns1[it.owner].op = "call" => it.k > 0
    BY DEF ItemsOk
  <2>1. CASE m \in 1 .. l
    <3>1. S1[m] = S[m]
      BY <2>1
    <3>2. PICK it : it = ItemAt(S[m], t, p)
      OBVIOUS
    <3>3. Placed(ns, S, it, t, p) /\ (ns[it.owner].op = "call" => it.k > 0)
      BY <2>1, <3>1, <3>2 DEF Shape, ItemsOk
    <3>4. Placed(ns1, S1, it, t, p) /\ ns1[it.owner].op = ns[it.owner].op
      <4>1. \A n \in 1 .. Len(ns) : S1[n] = S[n]
        OBVIOUS
      <4>2. QED
        BY <1>2, <3>3, <4>1, PlacedKept
    <3>5. QED
      BY <3>1, <3>2, <3>3, <3>4
  <2>2. CASE m = l + 1
    <3>1. Height(S1[m], t) = 0
      BY <2>2, NothingIs
    <3>2. QED
      BY <3>1
  <2>3. QED
    BY <1>1, <2>1, <2>2
<1>12. Flags(ns1)
  <2>1. \A m \in 1 .. l : ns[m].op \notin TwoOps \cup {"call"} => ns[m].spill = 0
    BY DEF Shape, Flags
  <2>2. QED
    BY <1>1, <1>4, <2>1 DEF Flags
<1>13. \A m \in 1 .. l : ns[m].op \in TwoOps => TypeIn(ns1, m) = TypeIn(ns, m)
  BY <1>8
<1>14. QED
  BY <1>2, <1>9, <1>10, <1>11, <1>12, <1>13 DEF Shape

\* A statement begins: its root is a new node, with nothing on the stacks.
LEMMA StatementPlan ==
    ASSUME WalkInvariant, WalkInvariant', Planned, SetupStatement
    PROVE  Planned'
<1>1. PICK S : Plan(nodes, stmts, work, fm, phase, S)
  BY DEF Planned
<1>2. phase = "setup" /\ work = <<>> /\ phase' = phase
  BY DEF SetupStatement
<1>3. PICK t0 \in Types, size \in Nat \ {0} :
         /\ nodes' = Append(nodes, Fresh(t0))
         /\ stmts' = Append(stmts, [root |-> Len(nodes) + 1, size |-> size])
         /\ fm' = ReserveTemp(fm, t0)
         /\ work' = <<Task("setup", Len(nodes) + 1, NoSpill, 0)>>
  <2>1. \A t \in Types : \A size \in Sizes[t] : size \in Nat \ {0}
    BY FrameAssumption
  <2>2. QED
    BY <2>1 DEF SetupStatement
<1>4. PICK l \in Nat : l = Len(nodes)
  BY LenProperties DEF WalkInvariant, NodesOk
<1>5. NodesOk(nodes) /\ NodesOk(nodes') /\ Good(fm) /\ WorkOk(nodes', "setup", work')
  BY <1>2 DEF WalkInvariant
<1>6. /\ nodes' \in Seq(NodeRecord) /\ Len(nodes') = l + 1
      /\ \A m \in 1 .. l : nodes'[m] = nodes[m]
      /\ nodes'[l + 1] = Fresh(t0)
  <2>1. PICK ns \in Seq(NodeRecord) : ns = nodes
    BY <1>5 DEF NodesOk
  <2>2. <<>> \in Seq(Nat)
    BY EmptySeq
  <2>3. Fresh(t0) \in NodeRecord
    BY <2>2 DEF Fresh, NodeRecord, NodeOps
  <2>4. PICK r \in NodeRecord : r = Fresh(t0)
    BY <2>3
  <2>5. PICK z : z = Append(ns, r)
    OBVIOUS
  <2>6. /\ z \in Seq(NodeRecord) /\ Len(z) = l + 1 /\ z[l + 1] = r
        /\ \A m \in 1 .. l : z[m] = ns[m]
    BY <1>4, <2>1, <2>5, AppendProperties
  <2>7. QED
    BY <1>3, <2>1, <2>4, <2>5, <2>6
<1>7. nodes'[l + 1].op = "none" /\ nodes'[l + 1].spill = 0 /\ nodes'[l + 1].type = t0
  BY <1>6 DEF Fresh
<1>8. /\ S \in [Nat -> Held] /\ Shape(nodes, S) /\ Roots(stmts, S) /\ Pending(nodes, work)
      /\ Tops(nodes, S, work) = Nothing /\ Matches(fm, Nothing)
      /\ \A m \in Unseen(nodes) : Expects(nodes, work, m)
      /\ SpillLaw(nodes, S, work, fm, Nothing)
  BY <1>1, <1>2 DEF Plan, SetupPlan, Paths, Tops
<1>9. PICK S1 \in [Nat -> Held] : S1 = [S EXCEPT ![l + 1] = Nothing]
  BY <1>8, NothingIs
<1>10. S1[l + 1] = Nothing /\ \A m \in 1 .. l : S1[m] = S[m]
  BY <1>8, <1>9
<1>11. /\ Shape(nodes', S1) /\ Grown(nodes, nodes', {})
       /\ \A m \in 1 .. l : nodes[m].op \in TwoOps => TypeIn(nodes', m) = TypeIn(nodes, m)
  <2>1. /\ NodesOk(nodes) /\ Shape(nodes, S) /\ l = Len(nodes) /\ Len(nodes') = l + 1
        /\ nodes' \in Seq(NodeRecord)
    BY <1>4, <1>5, <1>6, <1>8
  <2>2. QED
    BY <1>6, <1>7, <1>10, <2>1, AppendedShape
<1>12. PICK x \in TaskRecord : /\ x = Task("setup", l + 1, NoSpill, 0) /\ x.call = "setup"
                               /\ x.n = l + 1 /\ Await(nodes', x) = {l + 1}
  BY SetupTask
<1>13. PICK w \in Seq(TaskRecord) : w = <<>>
  BY EmptySeq
<1>14. work' = <<x>> \o w
  <2>1. <<x>> \o <<>> = <<x>>
    BY OneCall
  <2>2. QED
    BY <1>3, <1>4, <1>12, <1>13, <2>1
<1>15. /\ Paths(nodes', S1, work') /\ Tops(nodes', S1, work') = Nothing
       /\ Pending(nodes', work') /\ work' # <<>> /\ work'[1] = x
  <2>1. Paths(nodes', S1, w) /\ Tops(nodes', S1, w) = Nothing
    BY <1>13, NoPaths
  <2>2. Waiting(nodes', w)
    BY <1>13, PendingEmpty
  <2>3. S1[x.n] = Tops(nodes', S1, w)
    BY <1>10, <1>12, <2>1
  <2>4. WorkOk(nodes', "setup", <<x>> \o w)
    BY <1>5, <1>14
  <2>5. /\ Paths(nodes', S1, <<x>> \o w) /\ Tops(nodes', S1, <<x>> \o w) = S1[x.n]
        /\ Pending(nodes', <<x>> \o w) /\ <<x>> \o w # <<>> /\ (<<x>> \o w)[1] = x
    BY <1>5, <1>12, <2>1, <2>2, <2>3, <2>4, NextVisit
  <2>6. QED
    BY <1>14, <2>1, <2>3, <2>5
<1>16. Matches(fm', Nothing)
  <2>1. Nothing \in Held
    BY NothingIs
  <2>2. PICK s \in Held : s = Nothing
    BY <2>1
  <2>3. Matches(fm', s)
    BY <1>3, <1>5, <1>8, <2>2, MatchReserve
  <2>4. QED
    BY <2>2, <2>3
<1>17. \A m \in Unseen(nodes') : Expects(nodes', work', m)
  <2>1. Unseen(nodes) = {}
    BY <1>2, <1>8, PendingEmpty
  <2>2. \A m \in Unseen(nodes') : m = l + 1
    <3>1. ASSUME NEW m \in Unseen(nodes'), m # l + 1 PROVE FALSE
      <4>1. m \in 1 .. l
        BY <1>6, <3>1 DEF Unseen
      <4>2. nodes[m].op = "none"
        BY <1>6, <3>1, <4>1 DEF Unseen
      <4>3. QED
        BY <1>4, <2>1, <4>1, <4>2 DEF Unseen
    <3>2. QED
      BY <3>1
  <2>3. Expects(nodes', <<x>> \o w, l + 1)
    BY <1>12, ExpectsCall
  <2>4. QED
    BY <1>14, <2>2, <2>3
<1>18. Roots(stmts', S1)
  <2>1. stmts \in Seq(Statement) /\ \A j \in 1 .. Len(stmts) : stmts[j].root \in 1 .. l
    BY <1>4 DEF WalkInvariant
  <2>2. PICK k \in Nat : k = Len(stmts)
    BY <2>1, LenProperties
  <2>3. PICK r \in Statement : r = [root |-> l + 1, size |-> size]
    <3>1. l + 1 \in Nat /\ size \in Nat \ {0}
      BY <1>3
    <3>2. QED
      BY <3>1 DEF Statement
  <2>4. PICK z : z = Append(stmts, r)
    OBVIOUS
  <2>5. /\ Len(z) = k + 1 /\ z[k + 1] = r
        /\ \A m \in 1 .. k : z[m] = stmts[m]
    BY <2>1, <2>2, <2>4, AppendProperties
  <2>6. stmts' = z
    BY <1>3, <1>4, <2>3, <2>4
  <2>7. \A j \in 1 .. (k + 1) : j \in 1 .. k \/ j = k + 1
    OBVIOUS
  <2>8. \A j \in 1 .. k : S1[z[j].root] = Nothing
    BY <1>8, <1>10, <2>1, <2>2, <2>5 DEF Roots
  <2>9. S1[z[k + 1].root] = Nothing
    BY <1>10, <2>3, <2>5
  <2>10. QED
    BY <2>5, <2>6, <2>7, <2>8, <2>9 DEF Roots
<1>19. SpillLaw(nodes', S1, work', fm', Nothing)
  <2>1. ASSUME NEW m \in 1 .. l, NEW t \in Types, NEW p \in 1 .. Height(S[m], t),
               Settled(nodes, fm, Nothing, ItemAt(S[m], t, p), t, p)
        PROVE  Settled(nodes', fm', Nothing, ItemAt(S[m], t, p), t, p)
    <3>1. PICK it : it = ItemAt(S[m], t, p)
      OBVIOUS
    <3>2. it.owner \in 1 .. l
      BY <1>4, <1>8, <3>1 DEF Shape, ItemsOk, Placed
    <3>3. S[m] \in Held /\ m \in Nat
      BY <1>8
    <3>4. p > 0
      BY <3>3, HeldType
    <3>5. ~Live(fm, Nothing, it, t, p)
      BY <3>4, NothingIs DEF Live
    <3>6. Marked(nodes, it)
      BY <2>1, <3>1, <3>5 DEF Settled
    <3>7. Marked(nodes', it)
      BY <1>6, <3>2, <3>6 DEF Marked
    <3>8. QED
      BY <3>1, <3>7 DEF Settled
  <2>2. ASSUME NEW m \in 1 .. (l + 1), NEW t \in Types, NEW p \in 1 .. Height(S1[m], t),
               Wants(nodes', work', m, t, p, Height(S1[m], t))
        PROVE  m \in 1 .. l /\ Wants(nodes, work, m, t, p, Height(S1[m], t))
    <3>1. m # l + 1
      <4>1. SUFFICES ASSUME m = l + 1 PROVE FALSE
        OBVIOUS
      <4>2. Height(S1[m], t) = 0
        BY <1>10, <4>1, NothingIs
      <4>3. QED
        BY <4>2
    <3>2. m \in 1 .. l
      BY <3>1
    <3>3. nodes'[m] = nodes[m] /\ (nodes[m].op \in TwoOps => TypeIn(nodes', m) = TypeIn(nodes, m))
      BY <1>6, <1>11, <3>2
    <3>4. work'[1].n # m
      BY <1>12, <1>15, <3>1
    <3>5. Begun(nodes', work', m) => Begun(nodes, work, m)
      BY <3>3, <3>4 DEF Begun
    <3>6. Wants(nodes, work, m, t, p, Height(S1[m], t))
      BY <2>2, <3>3, <3>5 DEF Wants
    <3>7. QED
      BY <3>2, <3>6
  <2>3. \A m \in 1 .. Len(nodes), t \in Types : \A p \in 1 .. Height(S[m], t) :
           Settled(nodes, fm, Nothing, ItemAt(S[m], t, p), t, p)
              => Settled(nodes', fm', Nothing, ItemAt(S[m], t, p), t, p)
    BY <1>4, <2>1
  <2>4. \A m \in 1 .. Len(nodes'), t \in Types : \A p \in 1 .. Height(S1[m], t) :
           Wants(nodes', work', m, t, p, Height(S1[m], t)) =>
              m \in 1 .. Len(nodes) /\ Wants(nodes, work, m, t, p, Height(S1[m], t))
    BY <1>4, <1>6, <2>2
  <2>5. \A m \in 1 .. Len(nodes) : S1[m] = S[m]
    BY <1>4, <1>10
  <2>6. QED
    BY <1>8, <2>3, <2>4, <2>5, LawStep
<1>20. Plan(nodes', stmts', work', fm', phase', S1)
  BY <1>2, <1>11, <1>15, <1>16, <1>17, <1>18, <1>19 DEF Plan, SetupPlan
<1>21. QED
  BY <1>20 DEF Planned

\* The first pass is over: all is announced.
LEMMA SetupDonePlan ==
    ASSUME WalkInvariant, WalkInvariant', Planned, SetupDone
    PROVE  Planned'
<1>1. PICK S : Plan(nodes, stmts, work, fm, phase, S)
  BY DEF Planned
<1>2. /\ phase = "setup" /\ work = <<>> /\ phase' # "setup" /\ work' = work /\ nodes' = nodes
      /\ stmts' = stmts /\ fm' = fm
  BY DEF SetupDone
<1>3. /\ Paths(nodes, S, work) /\ Shape(nodes, S) /\ Roots(stmts, S)
      /\ Matches(fm, Tops(nodes, S, work))
      /\ Tops(nodes, S, work) = Nothing /\ SpillLaw(nodes, S, work, fm, Nothing)
      /\ \A m \in Unseen(nodes) : Expects(nodes, work, m) /\ S \in [Nat -> Held]
  BY <1>1, <1>2 DEF Plan, SetupPlan, Paths, Tops
<1>4. Unseen(nodes) = {}
  BY <1>2, <1>3, PendingEmpty
<1>5. Announced(nodes, S)
  <2>1. SUFFICES ASSUME NEW m \in 1 .. Len(nodes), NEW t \in Types,
                        NEW p \in 1 .. Height(S[m], t),
                        Wants(nodes, <<>>, m, t, p, Height(S[m], t))
                 PROVE  Marked(nodes, ItemAt(S[m], t, p))
    BY DEF Announced
  <2>2. Settled(nodes, fm, Nothing, ItemAt(S[m], t, p), t, p)
    BY <1>2, <1>3, <2>1 DEF SpillLaw
  <2>3. ~(p <= 0)
    OBVIOUS
  <2>4. ~Live(fm, Nothing, ItemAt(S[m], t, p), t, p)
    BY <2>3, NothingIs DEF Live
  <2>5. QED
    BY <2>2, <2>4 DEF Settled
<1>6. Exact(nodes, fm, Nothing)
  <2>1. \A t \in Types : 1 .. Height(Nothing, t) = {}
    BY NothingIs
  <2>2. QED
    BY <2>1 DEF Exact
<1>7. Plan(nodes', stmts', work', fm', phase', S)
  BY <1>2, <1>3, <1>4, <1>5, <1>6 DEF Plan, PreparePlan
<1>8. QED
  BY <1>7 DEF Planned

(***************************************************************************)
(* The second pass.                                                        *)
(***************************************************************************)
LEMMA PrepareParts ==
    ASSUME WalkInvariant, NEW c \in PrepareCalls, Doing(c),
           NEW S, Plan(nodes, stmts, work, fm, phase, S)
    PROVE  /\ phase # "setup" /\ S \in [Nat -> Held] /\ S[Node] \in Held /\ Shape(nodes, S)
           /\ NodesOk(nodes) /\ Good(fm) /\ Node \in 1 .. Len(nodes) /\ Node \in Nat
           /\ work # <<>> /\ work[1].call = c /\ work[1].n = Node /\ Rest \in Seq(TaskRecord)
           /\ TaskOk(nodes, phase, work[1]) /\ WorkOk(nodes, phase, Rest)
           /\ Tops(nodes, S, work) = Before(nodes, S, work[1])
           /\ Matches(fm, Tops(nodes, S, work)) /\ Exact(nodes, fm, Tops(nodes, S, work))
           /\ Announced(nodes, S) /\ Unseen(nodes) = {}
           /\ Paths(nodes, S, Rest) /\ Tops(nodes, S, Rest) = S[Node]
<1>1. /\ phase # "setup" /\ work # <<>> /\ work[1].call = c /\ work[1].n = Node
      /\ Node \in 1 .. Len(nodes) /\ Node \in Nat /\ Rest \in Seq(TaskRecord)
      /\ NodesOk(nodes) /\ Good(fm) /\ WorkOk(nodes, phase, work)
      /\ TaskOk(nodes, phase, work[1])
  BY NowDoing DEF WalkInvariant, Node
<1>2. /\ Paths(nodes, S, work) /\ Shape(nodes, S) /\ S \in [Nat -> Held]
      /\ Matches(fm, Tops(nodes, S, work)) /\ Exact(nodes, fm, Tops(nodes, S, work))
      /\ Announced(nodes, S) /\ Unseen(nodes) = {}
  BY <1>1 DEF Plan, PreparePlan, Paths
<1>3. Grown(nodes, nodes, {}) /\ {} \subseteq Unseen(nodes)
  <2>1. nodes \in Seq(NodeRecord) /\ Len(nodes) \in Nat
    BY <1>1, LenProperties DEF NodesOk
  <2>2. QED
    BY <2>1 DEF Grown
<1>4. Paths(nodes, S, Rest) /\ Tops(nodes, S, Rest) = S[Node]
  BY <1>1, <1>2, <1>3, PathsRest DEF Rest
<1>5. Tops(nodes, S, work) = Before(nodes, S, work[1])
  BY <1>1 DEF Tops
<1>6. WorkOk(nodes, phase, Rest)
  BY PrepareReturns
<1>7. S[Node] \in Held
  BY <1>1, <1>2
<1>8. QED
  BY <1>1, <1>2, <1>4, <1>5, <1>6, <1>7

\* The nodes are final, and so is what the walk finds on the stacks at them.
LEMMA PrepareEnds ==
    ASSUME phase # "setup", NEW S, Plan(nodes, stmts, work, fm, phase, S),
           nodes' = nodes, stmts' = stmts, phase' # "setup",
           Paths(nodes, S, work'), NEW s, Tops(nodes, S, work') = s, Matches(fm', s),
           Exact(nodes, fm', s)
    PROVE  Planned'
<1>1. Shape(nodes, S) /\ Roots(stmts, S) /\ Announced(nodes, S) /\ Unseen(nodes) = {}
  BY DEF Plan, PreparePlan
<1>2. Plan(nodes', stmts', work', fm', phase', S)
  BY <1>1 DEF Plan, PreparePlan
<1>3. QED
  BY <1>2 DEF Planned

\* Call y stays at its node, and calls x at one of the node's operands.
LEMMA PathsTwo ==
    ASSUME NEW ns, NodesOk(ns), NEW p, NEW x \in TaskRecord, NEW y \in TaskRecord,
           NEW w \in Seq(TaskRecord), WorkOk(ns, p, <<x, y>> \o w), NEW S, Paths(ns, S, w),
           x.call = "prepare", S[y.n] = Tops(ns, S, w), S[x.n] = Before(ns, S, y)
    PROVE  Paths(ns, S, <<x, y>> \o w) /\ Tops(ns, S, <<x, y>> \o w) = S[x.n]
<1>1. PICK v : v = <<y>> \o w
  OBVIOUS
<1>2. <<x, y>> \o w = <<x>> \o v /\ v \in Seq(TaskRecord)
  <2>1. <<x, y>> \o w = <<x>> \o (<<y>> \o w)
    BY TwoTasks
  <2>2. v \in Seq(TaskRecord)
    BY <1>1, Consed
  <2>3. QED
    BY <1>1, <2>1, <2>2
<1>3. TaskOk(ns, p, x) /\ WorkOk(ns, p, v)
  BY <1>2, WorkParts
<1>4. TaskOk(ns, p, y) /\ WorkOk(ns, p, w)
  BY <1>1, <1>3, WorkParts
<1>5. Paths(ns, S, v) /\ Tops(ns, S, v) = Before(ns, S, y)
  BY <1>1, <1>4, PathsCall
<1>6. Before(ns, S, x) = S[x.n]
  BY BeforeCases
<1>7. Paths(ns, S, <<x>> \o v) /\ Tops(ns, S, <<x>> \o v) = Before(ns, S, x)
  BY <1>3, <1>5, PathsCall
<1>8. QED
  BY <1>2, <1>6, <1>7

\* A call that holds nothing returns.
LEMMA ReturnPlan ==
    ASSUME WalkInvariant, WalkInvariant', Planned,
           PrepareLeaf \/ PrepareOneDone \/ PrepareTwoDone \/ PrepareAssign
    PROVE  Planned'
<1>1. PICK S : Plan(nodes, stmts, work, fm, phase, S)
  BY DEF Planned
<1>2. PICK c \in {"prepare", "one", "two", "assign"} :
         /\ Doing(c) /\ work' = Rest /\ fm' = fm /\ nodes' = nodes /\ stmts' = stmts
         /\ phase' = phase
  BY DEF PrepareLeaf, PrepareOneDone, PrepareTwoDone, PrepareAssign
<1>3. c \in PrepareCalls
  BY DEF PrepareCalls
<1>4. /\ phase # "setup" /\ work[1].call = c /\ work[1].n = Node
      /\ Tops(nodes, S, work) = Before(nodes, S, work[1])
      /\ Matches(fm, Tops(nodes, S, work)) /\ Exact(nodes, fm, Tops(nodes, S, work))
      /\ Paths(nodes, S, Rest) /\ Tops(nodes, S, Rest) = S[Node]
  BY <1>1, <1>2, <1>3, PrepareParts
<1>5. Before(nodes, S, work[1]) = S[Node]
  BY <1>4, BeforeCases
<1>6. Paths(nodes, S, work') /\ Tops(nodes, S, work') = S[Node]
  BY <1>2, <1>4
<1>7. Matches(fm', S[Node]) /\ Exact(nodes, fm', S[Node])
  BY <1>2, <1>4, <1>5
<1>8. QED
  BY <1>1, <1>2, <1>4, <1>6, <1>7, PrepareEnds

LEMMA OneOperandAgrees ==
    ASSUME WalkInvariant, WalkInvariant', Planned, PrepareOneOperand
    PROVE  Planned'
<1>1. PICK S : Plan(nodes, stmts, work, fm, phase, S)
  BY DEF Planned
<1>2. /\ Doing("prepare") /\ fm' = fm /\ nodes' = nodes /\ stmts' = stmts
      /\ phase' = phase /\ nodes[Node].op \in {"part", "cast"} /\ "prepare" \in PrepareCalls
      /\ work' = <<Task("prepare", nodes[Node].args[1], NoSpill, 0),
                   Task("one", Node, work[1].loc, 0)>> \o Rest
  BY DEF PrepareOneOperand, PrepareCalls
<1>3. /\ phase # "setup" /\ work[1].call = "prepare" /\ work[1].n = Node
      /\ Shape(nodes, S) /\ NodesOk(nodes) /\ Node \in 1 .. Len(nodes) /\ Node \in Nat
      /\ Rest \in Seq(TaskRecord) /\ TaskOk(nodes, phase, work[1])
      /\ Tops(nodes, S, work) = Before(nodes, S, work[1])
      /\ Matches(fm, Tops(nodes, S, work)) /\ Exact(nodes, fm, Tops(nodes, S, work))
      /\ Paths(nodes, S, Rest) /\ Tops(nodes, S, Rest) = S[Node]
  BY <1>1, <1>2, PrepareParts
<1>4. Before(nodes, S, work[1]) = S[Node]
  BY <1>3, BeforeCases
<1>5. PICK m \in Nat : m = nodes[Node].args[1] /\ m = Args(nodes, Node)[1]
  <2>1. 1 \in 1 .. Len(Args(nodes, Node))
    BY <1>2, <1>3, ArgIndex
  <2>2. Args(nodes, Node)[1] \in 1 .. Len(nodes)
    BY <1>3, <2>1, ArgOk
  <2>3. QED
    BY <2>2 DEF Args
<1>6. PICK x \in TaskRecord : /\ x = Task("prepare", nodes[Node].args[1], NoSpill, 0)
                              /\ x.call = "prepare" /\ x.n = m
  <2>1. "prepare" \in SetupCalls \cup PrepareCalls /\ NoSpill \in Int /\ 0 \in Int
    BY DEF PrepareCalls, NoSpill
  <2>2. PICK x \in TaskRecord : x = Task("prepare", m, NoSpill, 0) /\ x.call = "prepare" /\ x.n = m
    BY <2>1, TaskIs
  <2>3. QED
    BY <1>5, <2>2
<1>7. PICK y \in TaskRecord : /\ y = Task("one", Node, work[1].loc, 0)
                              /\ y.call = "one" /\ y.n = Node
  <2>1. "one" \in SetupCalls \cup PrepareCalls /\ work[1].loc \in Int /\ 0 \in Int
    BY <1>2, NowDoing DEF PrepareCalls
  <2>2. QED
    BY <1>3, <2>1, TaskIs
<1>8. work' = <<x, y>> \o Rest /\ WorkOk(nodes, phase', <<x, y>> \o Rest)
  <2>1. WorkOk(nodes', phase', work')
    BY DEF WalkInvariant
  <2>2. QED
    BY <1>2, <1>6, <1>7, <2>1
<1>9. S[m] = S[Node] /\ Before(nodes, S, y) = S[Node]
  <2>1. S[m] = S[Node]
    BY <1>2, <1>3, <1>5 DEF Shape, PathOf
  <2>2. Before(nodes, S, y) = S[Node]
    BY <1>7, BeforeCases
  <2>3. QED
    BY <2>1, <2>2
<1>10. Paths(nodes, S, work') /\ Tops(nodes, S, work') = S[Node]
  <2>1. S[y.n] = Tops(nodes, S, Rest) /\ S[x.n] = Before(nodes, S, y)
    BY <1>3, <1>6, <1>7, <1>9
  <2>2. Paths(nodes, S, <<x, y>> \o Rest) /\ Tops(nodes, S, <<x, y>> \o Rest) = S[x.n]
    BY <1>3, <1>6, <1>7, <1>8, <2>1, PathsTwo
  <2>3. QED
    BY <1>6, <1>8, <1>9, <2>2
<1>11. Matches(fm', S[Node]) /\ Exact(nodes, fm', S[Node])
  BY <1>2, <1>3, <1>4
<1>12. QED
  BY <1>1, <1>2, <1>3, <1>10, <1>11, PrepareEnds

LEMMA ExactPush ==
    ASSUME NEW ns, NEW f, NEW f1, NEW s \in Held, NEW t \in Types, NEW it \in Items,
           \A u \in Types \ {t} : \A p \in 1 .. Height(s, u) :
              p <= First(f1, u) <=> Marked(ns, ItemAt(s, u, p)),
           \A p \in 1 .. Height(s, t) : p <= First(f1, t) <=> Marked(ns, ItemAt(s, t, p)),
           Height(s, t) + 1 <= First(f1, t) <=> Marked(ns, it)
    PROVE  Exact(ns, f1, On(s, t, it))
<1>1. PICK s1 : s1 = On(s, t, it)
  OBVIOUS
<1>2. PICK h \in Nat : h = Height(s, t)
  BY HeldType
<1>3. /\ Height(s1, t) = h + 1 /\ ItemAt(s1, t, h + 1) = it
      /\ \A p \in 1 .. h : ItemAt(s1, t, p) = ItemAt(s, t, p)
      /\ \A u \in Types \ {t} : /\ Height(s1, u) = Height(s, u)
                                /\ \A p : ItemAt(s1, u, p) = ItemAt(s, u, p)
  BY <1>1, <1>2, OnIs
<1>4. ASSUME NEW u \in Types, NEW p \in 1 .. Height(s1, u)
      PROVE  p <= First(f1, u) <=> Marked(ns, ItemAt(s1, u, p))
  <2>1. CASE u # t
    BY <1>3, <1>4, <2>1
  <2>2. CASE u = t
    <3>1. p \in 1 .. h \/ p = h + 1
      BY <1>3, <1>4, <2>2
    <3>2. CASE p \in 1 .. h
      <4>1. ItemAt(s1, t, p) = ItemAt(s, t, p)
        BY <1>3, <3>2
      <4>2. p <= First(f1, t) <=> Marked(ns, ItemAt(s, t, p))
        BY <1>2, <3>2
      <4>3. QED
        BY <2>2, <4>1, <4>2
    <3>3. CASE p = h + 1
      <4>1. p <= First(f1, t) <=> Marked(ns, it)
        BY <1>2, <3>3
      <4>2. QED
        BY <1>3, <2>2, <3>3, <4>1
    <3>4. QED
      BY <3>1, <3>2, <3>3
  <2>3. QED
    BY <2>1, <2>2
<1>5. QED
  BY <1>1, <1>4 DEF Exact

LEMMA ExactPop ==
    ASSUME NEW ns, NEW f, NEW f1, NEW s \in Held, NEW t \in Types, NEW it \in Items,
           Exact(ns, f, On(s, t, it)), First(f, t) \in Nat,
           First(f1, t) = IF First(f, t) = Height(s, t) + 1 THEN Height(s, t) ELSE First(f, t),
           \A u \in Types \ {t} : First(f1, u) = First(f, u)
    PROVE  Exact(ns, f1, s)
<1>1. PICK s1 : s1 = On(s, t, it)
  OBVIOUS
<1>2. PICK h \in Nat : h = Height(s, t)
  BY HeldType
<1>3. /\ Height(s1, t) = h + 1
      /\ \A p \in 1 .. h : ItemAt(s1, t, p) = ItemAt(s, t, p)
      /\ \A u \in Types \ {t} : /\ Height(s1, u) = Height(s, u)
                                /\ \A p : ItemAt(s1, u, p) = ItemAt(s, u, p)
  BY <1>1, <1>2, OnIs
<1>4. \A u \in Types : \A p \in 1 .. Height(s1, u) :
         p <= First(f, u) <=> Marked(ns, ItemAt(s1, u, p))
  BY <1>1 DEF Exact
<1>5. ASSUME NEW u \in Types, NEW p \in 1 .. Height(s, u)
      PROVE  p <= First(f1, u) <=> Marked(ns, ItemAt(s, u, p))
  <2>1. CASE u # t
    BY <1>3, <1>4, <1>5, <2>1
  <2>2. CASE u = t
    <3>1. p \in 1 .. h /\ p \in 1 .. (h + 1)
      BY <1>2, <1>5, <2>2
    <3>2. PICK q \in Nat : q = First(f, t)
      OBVIOUS
    <3>3. First(f1, t) = IF q = h + 1 THEN h ELSE q
      BY <1>2, <3>2
    <3>4. p <= First(f1, t) <=> p <= q
      BY <3>1, <3>3
    <3>5. p <= q <=> Marked(ns, ItemAt(s1, t, p))
      BY <1>3, <1>4, <3>1, <3>2
    <3>6. QED
      BY <1>3, <2>2, <3>1, <3>4, <3>5
  <2>3. QED
    BY <2>1, <2>2
<1>6. QED
  BY <1>5 DEF Exact

\* What the nodes announce.
LEMMA AnnouncedIs ==
    ASSUME NEW ns, NEW S, Announced(ns, S), Unseen(ns) = {}, NEW n \in 1 .. Len(ns),
           NEW t \in Types, NEW p \in 1 .. Height(S[n], t),
           \/ t = ns[n].type /\ p <= Height(S[n], t) + 1 - Limit[t]
           \/ ns[n].op = "call"
           \/ ns[n].op \in TwoOps /\ t = TypeIn(ns, n) /\ ns[n].spill = 1
    PROVE  Marked(ns, ItemAt(S[n], t, p))
<1>1. ns[n].op # "none"
  BY DEF Unseen
<1>2. Wants(ns, <<>>, n, t, p, Height(S[n], t))
  BY <1>1 DEF Wants, Begun
<1>3. QED
  BY <1>2 DEF Announced

\* The left operand is pushed; it is spilled at once if it was announced.
LEMMA TwoOperandsAgrees ==
    ASSUME WalkInvariant, WalkInvariant', Planned, PrepareTwoOperands
    PROVE  Planned'
<1>1. PICK S : Plan(nodes, stmts, work, fm, phase, S)
  BY DEF Planned
<1>2. /\ Doing("prepare") /\ nodes' = nodes /\ stmts' = stmts
      /\ phase' = phase /\ nodes[Node].op \in TwoOps /\ "prepare" \in PrepareCalls
      /\ fm' = PushTemp(fm, OperandType(Node), Node, nodes[Node].spill = 1)
      /\ work' = <<Task("prepare", nodes[Node].args[2], NoSpill, 0),
                   Task("left", Node, work[1].loc, 0)>> \o Rest
  BY DEF PrepareTwoOperands, PrepareCalls, TwoOps
<1>3. /\ phase # "setup" /\ work[1].call = "prepare" /\ work[1].n = Node
      /\ S \in [Nat -> Held] /\ S[Node] \in Held /\ Shape(nodes, S) /\ NodesOk(nodes) /\ Good(fm)
      /\ Node \in 1 .. Len(nodes) /\ Node \in Nat
      /\ Rest \in Seq(TaskRecord) /\ TaskOk(nodes, phase, work[1])
      /\ Tops(nodes, S, work) = Before(nodes, S, work[1])
      /\ Matches(fm, Tops(nodes, S, work)) /\ Exact(nodes, fm, Tops(nodes, S, work))
      /\ Announced(nodes, S) /\ Unseen(nodes) = {}
      /\ Paths(nodes, S, Rest) /\ Tops(nodes, S, Rest) = S[Node]
  BY <1>1, <1>2, PrepareParts
<1>4. PICK s \in Held : s = S[Node] /\ Tops(nodes, S, work) = s
  <2>1. Before(nodes, S, work[1]) = S[Node]
    BY <1>3, BeforeCases
  <2>2. QED
    BY <1>3, <2>1
<1>5. PICK T \in Types : T = OperandType(Node) /\ T = TypeIn(nodes, Node)
  <2>1. nodes[Node].op \in {"arith", "cmp"}
    BY <1>2 DEF TwoOps
  <2>2. QED
    BY <1>3, <2>1, SidesOk
<1>6. PICK m \in 1 .. Len(nodes) : m = nodes[Node].args[2] /\ m = Args(nodes, Node)[2] /\ m \in Nat
  <2>1. 2 \in 1 .. Len(Args(nodes, Node))
    BY <1>2, <1>3, ArgIndex
  <2>2. Args(nodes, Node)[2] \in 1 .. Len(nodes)
    BY <1>3, <2>1, ArgOk
  <2>3. QED
    BY <2>2 DEF Args
<1>7. PICK it \in Items : it = ItemOf(Node, 0) /\ it.owner = Node
  <2>1. ItemOf(Node, 0) \in Items
    BY <1>3 DEF ItemOf, Items
  <2>2. ItemOf(Node, 0).owner = Node
    BY DEF ItemOf
  <2>3. QED
    BY <2>1, <2>2
<1>8. PICK s1 \in Held : s1 = On(s, T, it) /\ S[m] = s1
  <2>1. On(s, T, it) \in Held
    BY OnIs
  <2>2. S[m] = On(s, T, it)
    BY <1>2, <1>3, <1>4, <1>5, <1>6, <1>7 DEF Shape, PathOf
  <2>3. QED
    BY <2>1, <2>2
<1>9. PICK spill \in BOOLEAN : (spill <=> nodes[Node].spill = 1) /\ fm' = PushTemp(fm, T, it.owner, spill)
  <2>1. PICK spill \in BOOLEAN : spill = (nodes[Node].spill = 1)
    OBVIOUS
  <2>2. fm' = PushTemp(fm, T, it.owner, spill)
    BY <1>2, <1>5, <1>7, <2>1
  <2>3. QED
    BY <2>1, <2>2
<1>10. /\ Matches(fm', s1)
       /\ First(fm', T) = Larger(First(fm, T), IF spill THEN Height(s, T) + 1
                                               ELSE Height(s, T) + 1 - Limit[T])
       /\ \A u \in Types \ {T} : First(fm', u) = First(fm, u)
  <2>1. Matches(fm, s) /\ Good(fm)
    BY <1>3, <1>4
  <2>2. QED
    BY <1>8, <1>9, <2>1, MatchPushTemp
<1>11. PICK h \in Nat : h = Height(s, T)
  BY HeldType
<1>12. PICK l \in Nat \ {0} : l = Limit[T]
  BY FrameAssumption
<1>13. PICK q \in Nat : q = First(fm, T) /\ q <= h
  <2>1. Depth(fm, T) = h /\ First(fm, T) \in Nat /\ First(fm, T) <= Depth(fm, T)
    BY <1>3, <1>4, <1>11, GoodStacks DEF Matches
  <2>2. QED
    BY <2>1
<1>14. Height(s1, T) = h + 1 /\ \A p \in 1 .. h : ItemAt(s1, T, p) = ItemAt(s, T, p)
  BY <1>8, <1>11, OnIs
<1>15. \A u \in Types : \A p \in 1 .. Height(s, u) : p <= First(fm, u) <=> Marked(nodes, ItemAt(s, u, p))
  BY <1>3, <1>4 DEF Exact
<1>16. Marked(nodes, it) <=> spill
  BY <1>2, <1>7, <1>9 DEF Marked, TwoOps
<1>17. /\ \A p \in 1 .. Height(s, T) : p <= First(fm', T) <=> Marked(nodes, ItemAt(s, T, p))
       /\ Height(s, T) + 1 <= First(fm', T) <=> Marked(nodes, it)
  <2>1. CASE spill
    <3>1. First(fm', T) = h + 1
      BY <1>10, <1>11, <1>13, <2>1 DEF Larger
    <3>2. ASSUME NEW p \in 1 .. h PROVE Marked(nodes, ItemAt(s, T, p))
      <4>1. nodes[Node].op \in TwoOps /\ T = TypeIn(nodes, Node) /\ nodes[Node].spill = 1
        BY <1>2, <1>5, <1>9, <2>1
      <4>2. p \in 1 .. Height(S[Node], T)
        BY <1>4, <1>11
      <4>3. Marked(nodes, ItemAt(S[Node], T, p))
        BY <1>3, <4>1, <4>2, AnnouncedIs
      <4>4. QED
        BY <1>4, <4>3
    <3>3. \A p \in 1 .. h : p <= h + 1
      OBVIOUS
    <3>4. QED
      BY <1>11, <1>16, <2>1, <3>1, <3>2, <3>3
  <2>2. CASE ~spill
    <3>1. First(fm', T) = Larger(q, h + 1 - l)
      BY <1>10, <1>11, <1>12, <1>13, <2>2
    <3>2. PICK q1 \in Int : q1 = First(fm', T) /\ q <= q1 /\ q1 <= h /\ (q1 = q \/ q1 = h + 1 - l)
      BY <1>12, <1>13, <3>1 DEF Larger
    <3>3. nodes[m].type = T
      BY <1>2, <1>3, <1>5, <1>6 DEF Shape, Typed
    <3>4. ASSUME NEW p \in 1 .. h, p <= h + 1 - l PROVE Marked(nodes, ItemAt(s, T, p))
      <4>1. p <= Height(S[m], T) + 1 - Limit[T] /\ p \in 1 .. Height(S[m], T)
        BY <1>8, <1>12, <1>14, <3>4
      <4>2. Marked(nodes, ItemAt(S[m], T, p))
        BY <1>3, <3>3, <4>1, AnnouncedIs
      <4>3. QED
        BY <1>8, <1>14, <4>2
    <3>5. ASSUME NEW p \in 1 .. h PROVE p <= q1 <=> Marked(nodes, ItemAt(s, T, p))
      <4>1. p <= q <=> Marked(nodes, ItemAt(s, T, p))
        BY <1>11, <1>13, <1>15
      <4>2. QED
        BY <3>2, <3>4, <4>1
    <3>6. ~(h + 1 <= q1)
      BY <3>2
    <3>7. QED
      BY <1>11, <1>16, <2>2, <3>2, <3>5, <3>6
  <2>3. QED
    BY <2>1, <2>2
<1>18. Exact(nodes, fm', s1)
  <2>1. \A u \in Types \ {T} : \A p \in 1 .. Height(s, u) :
           p <= First(fm', u) <=> Marked(nodes, ItemAt(s, u, p))
    BY <1>10, <1>15
  <2>2. QED
    BY <1>8, <1>17, <2>1, ExactPush
<1>19. PICK x \in TaskRecord : /\ x = Task("prepare", m, NoSpill, 0)
                               /\ x.call = "prepare" /\ x.n = m
  <2>1. "prepare" \in SetupCalls \cup PrepareCalls /\ NoSpill \in Int /\ 0 \in Int
    BY DEF PrepareCalls, NoSpill
  <2>2. QED
    BY <1>6, <2>1, TaskIs
<1>20. PICK y \in TaskRecord : /\ y = Task("left", Node, work[1].loc, 0)
                               /\ y.call = "left" /\ y.n = Node
  <2>1. "left" \in SetupCalls \cup PrepareCalls /\ work[1].loc \in Int /\ 0 \in Int
    BY <1>2, NowDoing DEF PrepareCalls
  <2>2. QED
    BY <1>3, <2>1, TaskIs
<1>21. work' = <<x, y>> \o Rest /\ WorkOk(nodes, phase', <<x, y>> \o Rest)
  <2>1. WorkOk(nodes', phase', work')
    BY DEF WalkInvariant
  <2>2. QED
    BY <1>2, <1>6, <1>19, <1>20, <2>1
<1>22. Paths(nodes, S, work') /\ Tops(nodes, S, work') = s1
  <2>1. Before(nodes, S, y) = s1
    BY <1>4, <1>5, <1>7, <1>8, <1>20, BeforeCases
  <2>2. S[y.n] = Tops(nodes, S, Rest) /\ S[x.n] = Before(nodes, S, y)
    BY <1>3, <1>8, <1>19, <1>20, <2>1
  <2>3. Paths(nodes, S, <<x, y>> \o Rest) /\ Tops(nodes, S, <<x, y>> \o Rest) = S[x.n]
    <3>1. NodesOk(nodes) /\ Paths(nodes, S, Rest) /\ Rest \in Seq(TaskRecord)
      BY <1>3
    <3>2. x \in TaskRecord /\ y \in TaskRecord /\ x.call = "prepare"
      BY <1>19, <1>20
    <3>3. WorkOk(nodes, phase', <<x, y>> \o Rest)
      BY <1>21
    <3>4. QED
      BY <2>2, <3>1, <3>2, <3>3, PathsTwo
  <2>4. QED
    BY <1>8, <1>19, <1>21, <2>3
<1>23. QED
  BY <1>1, <1>2, <1>3, <1>10, <1>18, <1>22, PrepareEnds

\* The left operand is popped and visited.
LEMMA LeftAgrees ==
    ASSUME WalkInvariant, WalkInvariant', Planned, PrepareLeft
    PROVE  Planned'
<1>1. PICK S : Plan(nodes, stmts, work, fm, phase, S)
  BY DEF Planned
<1>2. /\ Doing("left") /\ nodes' = nodes /\ stmts' = stmts
      /\ phase' = phase /\ "left" \in PrepareCalls
      /\ fm' = PopTemp(fm, OperandType(Node))
  BY DEF PrepareLeft, PrepareCalls
<1>3. /\ phase # "setup" /\ work[1].call = "left" /\ work[1].n = Node
      /\ S \in [Nat -> Held] /\ S[Node] \in Held /\ Shape(nodes, S) /\ NodesOk(nodes) /\ Good(fm)
      /\ Node \in 1 .. Len(nodes) /\ Node \in Nat
      /\ Rest \in Seq(TaskRecord) /\ TaskOk(nodes, phase, work[1])
      /\ Tops(nodes, S, work) = Before(nodes, S, work[1])
      /\ Matches(fm, Tops(nodes, S, work)) /\ Exact(nodes, fm, Tops(nodes, S, work))
      /\ Paths(nodes, S, Rest) /\ Tops(nodes, S, Rest) = S[Node]
  BY <1>1, <1>2, PrepareParts
<1>4. nodes[Node].op \in TwoOps
  BY <1>3 DEF TaskOk, TwoOps
<1>5. PICK s \in Held : s = S[Node]
  BY <1>3
<1>6. PICK T \in Types : T = OperandType(Node) /\ T = TypeIn(nodes, Node)
  <2>1. nodes[Node].op \in {"arith", "cmp"}
    BY <1>4 DEF TwoOps
  <2>2. QED
    BY <1>3, <2>1, SidesOk
<1>7. PICK it \in Items : it = ItemOf(Node, 0)
  <2>1. ItemOf(Node, 0) \in Items
    BY <1>3 DEF ItemOf, Items
  <2>2. QED
    BY <2>1
<1>8. Tops(nodes, S, work) = On(s, T, it)
  <2>1. Before(nodes, S, work[1]) = On(S[Node], TypeIn(nodes, Node), ItemOf(Node, 0))
    BY <1>3, BeforeCases
  <2>2. QED
    BY <1>3, <1>5, <1>6, <1>7, <2>1
<1>9. Matches(fm, On(s, T, it)) /\ Exact(nodes, fm, On(s, T, it)) /\ Good(fm)
  BY <1>3, <1>8
<1>10. fm' = PopTemp(fm, T)
  BY <1>2, <1>6
<1>11. Depth(fm, T) > 0 /\ Depth(fm, T) = Height(s, T) + 1 /\ Matches(fm', s)
  BY <1>9, <1>10, MatchPop
<1>12. PICK h \in Nat : h = Height(s, T)
  BY HeldType
<1>13. /\ First(fm', T) = IF First(fm, T) = Depth(fm, T) THEN Depth(fm, T) - 1 ELSE First(fm, T)
       /\ \A u \in Types \ {T} : First(fm', u) = First(fm, u)
  BY <1>9, <1>10, <1>11, PopTempFirst, Zenon
<1>14. Exact(nodes, fm', s)
  <2>1. First(fm, T) \in Nat
    BY <1>9, GoodStacks
  <2>2. First(fm', T) = IF First(fm, T) = Height(s, T) + 1 THEN Height(s, T) ELSE First(fm, T)
    BY <1>11, <1>12, <1>13, <2>1
  <2>3. QED
    BY <1>9, <1>13, <2>1, <2>2, ExactPop
<1>15. PICK m \in 1 .. Len(nodes) : m = nodes[Node].args[1] /\ m = Args(nodes, Node)[1] /\ m \in Nat
  <2>1. 1 \in 1 .. Len(Args(nodes, Node))
    BY <1>3, <1>4, ArgIndex
  <2>2. Args(nodes, Node)[1] \in 1 .. Len(nodes)
    BY <1>3, <2>1, ArgOk
  <2>3. QED
    BY <2>2 DEF Args
<1>16. PICK loc \in Int : work' = <<Task("prepare", m, loc, 0),
                                    Task("two", Node, work[1].loc, loc)>> \o Rest
  <2>1. PICK loc : /\ loc = PeekTopTemp(fm, T)
                   /\ work' = <<Task("prepare", m, loc, 0),
                                Task("two", Node, work[1].loc, loc)>> \o Rest
    BY <1>6, <1>15 DEF PrepareLeft
  <2>2. loc \in Int
    <3>1. fm \in Frame
      BY <1>9, GoodStacks
    <3>2. loc = Loc(fm, T, Depth(fm, T))
      BY <2>1 DEF PeekTopTemp, Loc, Depth
    <3>3. fm.st[T] \in Stack
      BY <3>1 DEF Frame
    <3>4. PICK k : k = fm.st[T].stack /\ k \in Seq(Operand) /\ Len(k) \in Nat \ {0}
      BY <1>11, <1>12, <3>3 DEF Stack, Depth
    <3>5. k[Len(k)] \in Operand
      BY <3>4, ElementOfSeq
    <3>6. QED
      BY <2>1, <3>4, <3>5 DEF PeekTopTemp, Operand
  <2>3. QED
    BY <2>1, <2>2
<1>17. PICK x \in TaskRecord : /\ x = Task("prepare", m, loc, 0)
                               /\ x.call = "prepare" /\ x.n = m
  <2>1. "prepare" \in SetupCalls \cup PrepareCalls /\ loc \in Int /\ 0 \in Int
    BY <1>16 DEF PrepareCalls
  <2>2. QED
    BY <1>15, <2>1, TaskIs
<1>18. PICK y \in TaskRecord : /\ y = Task("two", Node, work[1].loc, loc)
                               /\ y.call = "two" /\ y.n = Node
  <2>1. "two" \in SetupCalls \cup PrepareCalls /\ work[1].loc \in Int /\ loc \in Int
    BY <1>2, <1>16, NowDoing DEF PrepareCalls
  <2>2. QED
    BY <1>3, <2>1, TaskIs
<1>19. work' = <<x, y>> \o Rest /\ WorkOk(nodes, phase', <<x, y>> \o Rest)
  <2>1. WorkOk(nodes', phase', work')
    BY DEF WalkInvariant
  <2>2. QED
    BY <1>2, <1>16, <1>17, <1>18, <2>1
<1>20. S[m] = s /\ Before(nodes, S, y) = s
  <2>1. S[m] = S[Node]
    BY <1>3, <1>4, <1>15 DEF Shape, PathOf
  <2>2. Before(nodes, S, y) = S[Node]
    BY <1>18, BeforeCases
  <2>3. QED
    BY <1>5, <2>1, <2>2
<1>21. Paths(nodes, S, work') /\ Tops(nodes, S, work') = s
  <2>1. S[y.n] = Tops(nodes, S, Rest) /\ S[x.n] = Before(nodes, S, y)
    BY <1>3, <1>17, <1>18, <1>20
  <2>2. Paths(nodes, S, <<x, y>> \o Rest) /\ Tops(nodes, S, <<x, y>> \o Rest) = S[x.n]
    <3>1. NodesOk(nodes) /\ Paths(nodes, S, Rest) /\ Rest \in Seq(TaskRecord)
      BY <1>3
    <3>2. x \in TaskRecord /\ y \in TaskRecord /\ x.call = "prepare"
      BY <1>17, <1>18
    <3>3. WorkOk(nodes, phase', <<x, y>> \o Rest)
      BY <1>19
    <3>4. QED
      BY <2>1, <3>1, <3>2, <3>3, PathsTwo
  <2>3. QED
    BY <1>17, <1>19, <1>20, <2>2
<1>22. QED
  BY <1>1, <1>2, <1>3, <1>11, <1>14, <1>21, PrepareEnds

\* The call spills what the first pass's call spilled, and pushes its address.
LEMMA CallAgrees ==
    ASSUME WalkInvariant, WalkInvariant', Planned, PrepareCall
    PROVE  Planned'
<1>1. PICK S : Plan(nodes, stmts, work, fm, phase, S)
  BY DEF Planned
<1>2. /\ Doing("prepare") /\ nodes' = nodes /\ stmts' = stmts
      /\ phase' = phase /\ "prepare" \in PrepareCalls /\ nodes[Node].op = "call"
      /\ fm' = PushTemp(ForceSpillAll(fm), "i", Node, FALSE) /\ "i" \in Types
      /\ work' = <<Task("param", Node, work[1].loc, 1)>> \o Rest
  BY DEF PrepareCall, PrepareCalls, Types
<1>3. /\ phase # "setup" /\ work[1].call = "prepare" /\ work[1].n = Node
      /\ S \in [Nat -> Held] /\ S[Node] \in Held /\ Shape(nodes, S) /\ NodesOk(nodes) /\ Good(fm)
      /\ Node \in 1 .. Len(nodes) /\ Node \in Nat
      /\ Rest \in Seq(TaskRecord)
      /\ Tops(nodes, S, work) = Before(nodes, S, work[1])
      /\ Matches(fm, Tops(nodes, S, work))
      /\ Announced(nodes, S) /\ Unseen(nodes) = {}
      /\ Paths(nodes, S, Rest) /\ Tops(nodes, S, Rest) = S[Node]
  BY <1>1, <1>2, PrepareParts
<1>4. PICK s \in Held : s = S[Node] /\ Tops(nodes, S, work) = s
  <2>1. Before(nodes, S, work[1]) = S[Node]
    BY <1>3, BeforeCases
  <2>2. QED
    BY <1>3, <2>1
<1>5. PICK it \in Items : it = ItemOf(Node, 0) /\ it.owner = Node /\ it.k = 0
  <2>1. ItemOf(Node, 0) \in Items
    BY <1>3 DEF ItemOf, Items
  <2>2. ItemOf(Node, 0).owner = Node /\ ItemOf(Node, 0).k = 0
    BY DEF ItemOf
  <2>3. QED
    BY <2>1, <2>2
<1>6. Matches(fm', On(s, "i", it)) /\ \A t \in Types : First(fm', t) = Height(s, t)
  <2>1. Matches(fm, s) /\ Good(fm) /\ fm' = PushTemp(ForceSpillAll(fm), "i", it.owner, FALSE)
    BY <1>2, <1>3, <1>4, <1>5
  <2>2. QED
    BY <2>1, MatchCall
<1>7. \A t \in Types : Height(s, t) \in Nat
  BY HeldType
<1>8. ASSUME NEW t \in Types, NEW p \in 1 .. Height(s, t)
      PROVE  p <= First(fm', t) <=> Marked(nodes, ItemAt(s, t, p))
  <2>1. p <= First(fm', t)
    BY <1>6, <1>7, <1>8
  <2>2. Marked(nodes, ItemAt(S[Node], t, p))
    <3>1. p \in 1 .. Height(S[Node], t)
      BY <1>4
    <3>2. QED
      BY <1>2, <1>3, <3>1, AnnouncedIs
  <2>3. QED
    BY <1>4, <2>1, <2>2
<1>9. ~(Height(s, "i") + 1 <= First(fm', "i")) /\ ~Marked(nodes, it)
  <2>1. ~(Height(s, "i") + 1 <= First(fm', "i"))
    <3>1. PICK h \in Nat : h = Height(s, "i")
      BY <1>2, <1>7
    <3>2. First(fm', "i") = h
      BY <1>2, <1>6, <3>1
    <3>3. QED
      BY <3>1, <3>2
  <2>2. ~Marked(nodes, it)
    BY <1>2, <1>3, <1>5, ArgCounts DEF Marked
  <2>3. QED
    BY <2>1, <2>2
<1>10. Exact(nodes, fm', On(s, "i", it))
  BY <1>2, <1>8, <1>9, ExactPush
<1>11. PICK y \in TaskRecord : /\ y = Task("param", Node, work[1].loc, 1)
                               /\ y.call = "param" /\ y.n = Node /\ y.k = 1
  <2>1. "param" \in SetupCalls \cup PrepareCalls /\ work[1].loc \in Int /\ 1 \in Int
    BY <1>2, NowDoing DEF PrepareCalls
  <2>2. QED
    BY <1>3, <2>1, TaskIs
<1>12. work' = <<y>> \o Rest /\ WorkOk(nodes, phase', <<y>> \o Rest)
  <2>1. WorkOk(nodes', phase', work')
    BY DEF WalkInvariant
  <2>2. QED
    BY <1>2, <1>11, <2>1
<1>13. Paths(nodes, S, work') /\ Tops(nodes, S, work') = On(s, "i", it)
  <2>1. TaskOk(nodes, phase', y) /\ WorkOk(nodes, phase', Rest)
    BY <1>3, <1>11, <1>12, WorkParts
  <2>2. Before(nodes, S, y) = On(s, "i", it)
    <3>1. Before(nodes, S, y) = On(S[y.n], "i", ItemOf(y.n, y.k - 1))
      BY <1>11, BeforeCases
    <3>2. y.k - 1 = 0
      BY <1>11
    <3>3. QED
      BY <1>4, <1>5, <1>11, <3>1, <3>2
  <2>3. S[y.n] = Tops(nodes, S, Rest)
    BY <1>3, <1>11
  <2>4. Paths(nodes, S, <<y>> \o Rest) /\ Tops(nodes, S, <<y>> \o Rest) = Before(nodes, S, y)
    BY <1>3, <2>1, <2>3, PathsCall
  <2>5. QED
    BY <1>12, <2>2, <2>4
<1>14. QED
  BY <1>1, <1>2, <1>3, <1>6, <1>10, <1>13, PrepareEnds

\* A call that keeps the address of its callee's frame.
LEMMA AddressParts ==
    ASSUME WalkInvariant, NEW c \in {"param", "store"}, Doing(c),
           NEW S, Plan(nodes, stmts, work, fm, phase, S)
    PROVE  /\ c \in PrepareCalls /\ "i" \in Types /\ nodes[Node].op = "call" /\ S[Node] \in Held
           /\ work[1].k \in Nat \ {0} /\ work[1].loc \in Int /\ nodes[Node].spill \in Nat
           /\ \A k \in Int : /\ ItemOf(Node, k) \in Items /\ ItemOf(Node, k).owner = Node
                             /\ Marked(nodes, ItemOf(Node, k)) <=> nodes[Node].spill \in 1 .. k
           /\ c = "param" => Tops(nodes, S, work) = On(S[Node], "i", ItemOf(Node, work[1].k - 1))
           /\ c = "store" => Tops(nodes, S, work) = On(S[Node], "i", ItemOf(Node, work[1].k))
<1>1. c \in PrepareCalls /\ "i" \in Types
  BY DEF PrepareCalls, Types
<1>2. /\ work[1].call = c /\ work[1].n = Node /\ TaskOk(nodes, phase, work[1]) /\ S[Node] \in Held
      /\ Tops(nodes, S, work) = Before(nodes, S, work[1]) /\ NodesOk(nodes)
      /\ Node \in 1 .. Len(nodes) /\ Node \in Nat
  BY <1>1, PrepareParts
<1>3. nodes[Node].op = "call" /\ work[1].k > 0
  BY <1>2 DEF TaskOk
<1>4. work[1].k \in Int /\ work[1].loc \in Int
  BY <1>1, NowDoing
<1>5. work[1].k \in Nat \ {0}
  BY <1>3, <1>4
<1>6. nodes[Node].spill \in Nat
  BY <1>2, ArgCounts
<1>7. ASSUME NEW k \in Int
      PROVE  /\ ItemOf(Node, k) \in Items /\ ItemOf(Node, k).owner = Node
             /\ Marked(nodes, ItemOf(Node, k)) <=> nodes[Node].spill \in 1 .. k
  <2>1. ItemOf(Node, k) \in Items /\ ItemOf(Node, k).owner = Node /\ ItemOf(Node, k).k = k
    BY <1>2 DEF ItemOf, Items
  <2>2. QED
    BY <1>3, <2>1 DEF Marked
<1>8. c = "param" => Tops(nodes, S, work) = On(S[Node], "i", ItemOf(Node, work[1].k - 1))
  BY <1>2, BeforeCases
<1>9. c = "store" => Tops(nodes, S, work) = On(S[Node], "i", ItemOf(Node, work[1].k))
  BY <1>2, BeforeCases
<1>10. QED
  BY <1>1, <1>2, <1>3, <1>4, <1>5, <1>6, <1>7, <1>8, <1>9

\* The address is spilled before the parameter that was recorded.
LEMMA ParamAgrees ==
    ASSUME WalkInvariant, WalkInvariant', Planned, PrepareParam
    PROVE  Planned'
<1>1. PICK S : Plan(nodes, stmts, work, fm, phase, S)
  BY DEF Planned
<1>2. /\ Doing("param") /\ nodes' = nodes /\ stmts' = stmts
      /\ phase' = phase /\ "param" \in {"param", "store"}
  BY DEF PrepareParam
<1>3. /\ "param" \in PrepareCalls /\ "i" \in Types /\ nodes[Node].op = "call" /\ S[Node] \in Held
      /\ work[1].k \in Nat \ {0} /\ work[1].loc \in Int /\ nodes[Node].spill \in Nat
      /\ \A k \in Int : /\ ItemOf(Node, k) \in Items /\ ItemOf(Node, k).owner = Node
                        /\ Marked(nodes, ItemOf(Node, k)) <=> nodes[Node].spill \in 1 .. k
      /\ Tops(nodes, S, work) = On(S[Node], "i", ItemOf(Node, work[1].k - 1))
  BY <1>1, <1>2, AddressParts
<1>4. /\ phase # "setup" /\ S \in [Nat -> Held] /\ Shape(nodes, S) /\ NodesOk(nodes) /\ Good(fm)
      /\ Node \in 1 .. Len(nodes) /\ Node \in Nat /\ Rest \in Seq(TaskRecord)
      /\ Matches(fm, Tops(nodes, S, work)) /\ Exact(nodes, fm, Tops(nodes, S, work))
      /\ Announced(nodes, S) /\ Unseen(nodes) = {}
      /\ Paths(nodes, S, Rest) /\ Tops(nodes, S, Rest) = S[Node]
  BY <1>1, <1>2, <1>3, PrepareParts
<1>5. PICK s \in Held : s = S[Node]
  BY <1>3
<1>6. PICK k \in Nat \ {0} : k = work[1].k
  BY <1>3
<1>7. PICK it \in Items, it1 \in Items :
         /\ it = ItemOf(Node, k - 1) /\ it1 = ItemOf(Node, k) /\ it1.owner = it.owner
         /\ Marked(nodes, it) <=> nodes[Node].spill \in 1 .. (k - 1)
         /\ Marked(nodes, it1) <=> nodes[Node].spill \in 1 .. k
  <2>1. k - 1 \in Int /\ k \in Int
    OBVIOUS
  <2>2. QED
    BY <1>3, <2>1
<1>8. Matches(fm, On(s, "i", it)) /\ Exact(nodes, fm, On(s, "i", it))
  BY <1>3, <1>4, <1>5, <1>6, <1>7
<1>9. PICK s1 \in Held : s1 = On(s, "i", it1) /\ Matches(fm, s1)
  <2>1. On(s, "i", it1) \in Held
    BY <1>3, OnIs
  <2>2. Matches(fm, On(s, "i", it1))
    BY <1>3, <1>7, <1>8, MatchAddress
  <2>3. QED
    BY <2>1, <2>2
<1>10. PICK h \in Nat : h = Height(s, "i")
  BY <1>3, HeldType
<1>11. PICK spill \in BOOLEAN : /\ spill <=> nodes[Node].spill = k
                                /\ spill => fm' = ForceSpillAll(fm)
                                /\ ~spill => fm' = fm
  <2>1. PICK spill \in BOOLEAN : spill = (nodes[Node].spill = k)
    OBVIOUS
  <2>2. fm' = IF spill THEN ForceSpillAll(fm) ELSE fm
    BY <1>6, <2>1 DEF PrepareParam
  <2>3. QED
    BY <2>1, <2>2
\* What is on the stacks besides the address.
<1>12. /\ \A u \in Types : \A p \in 1 .. Height(s, u) :
             p <= First(fm, u) <=> Marked(nodes, ItemAt(s, u, p))
       /\ h + 1 <= First(fm, "i") <=> Marked(nodes, it)
       /\ \A u \in Types : Height(s, u) <= Depth(fm, u)
       /\ Depth(fm, "i") = h + 1
  <2>1. PICK s0 : s0 = On(s, "i", it)
    OBVIOUS
  <2>2. /\ Height(s0, "i") = h + 1 /\ ItemAt(s0, "i", h + 1) = it
        /\ \A p \in 1 .. h : ItemAt(s0, "i", p) = ItemAt(s, "i", p)
        /\ \A u \in Types \ {"i"} : /\ Height(s0, u) = Height(s, u)
                                    /\ \A p : ItemAt(s0, u, p) = ItemAt(s, u, p)
    <3>1. "i" \in Types /\ it \in Items
      BY <1>3, <1>7
    <3>2. QED
      BY <1>10, <2>1, <3>1, OnIs
  <2>3. \A u \in Types : Depth(fm, u) = Height(s0, u)
    BY <1>8, <2>1 DEF Matches
  <2>4. \A u \in Types : \A p \in 1 .. Height(s0, u) :
           p <= First(fm, u) <=> Marked(nodes, ItemAt(s0, u, p))
    BY <1>8, <2>1 DEF Exact
  <2>5. h + 1 <= First(fm, "i") <=> Marked(nodes, it)
    <3>1. h + 1 \in 1 .. (h + 1)
      OBVIOUS
    <3>2. h + 1 \in 1 .. Height(s0, "i")
      BY <2>2, <3>1
    <3>3. h + 1 <= First(fm, "i") <=> Marked(nodes, ItemAt(s0, "i", h + 1))
      BY <1>3, <2>4, <3>2
    <3>4. QED
      BY <2>2, <3>3
  <2>6. ASSUME NEW u \in Types, NEW p \in 1 .. Height(s, u)
        PROVE  p <= First(fm, u) <=> Marked(nodes, ItemAt(s, u, p))
    <3>1. CASE u = "i"
      <4>1. p \in 1 .. h /\ p \in 1 .. (h + 1)
        BY <1>10, <2>6, <3>1
      <4>2. p \in 1 .. Height(s0, u) /\ ItemAt(s0, u, p) = ItemAt(s, u, p)
        BY <2>2, <3>1, <4>1
      <4>3. QED
        BY <2>4, <4>2
    <3>2. CASE u # "i"
      BY <2>2, <2>4, <2>6, <3>2
    <3>3. QED
      BY <3>1, <3>2
  <2>7. ASSUME NEW u \in Types PROVE Height(s, u) <= Depth(fm, u)
    <3>1. CASE u = "i"
      BY <1>10, <2>2, <2>3, <3>1
    <3>2. CASE u # "i"
      <4>1. Height(s, u) \in Nat /\ Depth(fm, u) = Height(s, u)
        BY <2>2, <2>3, <3>2, HeldType
      <4>2. QED
        BY <4>1
    <3>3. QED
      BY <3>1, <3>2
  <2>8. QED
    BY <1>3, <2>2, <2>3, <2>5, <2>6, <2>7
<1>13. Matches(fm', s1) /\ Exact(nodes, fm', s1)
  <2>1. CASE spill
    <3>1. fm' = ForceSpillAll(fm) /\ nodes[Node].spill = k
      BY <1>11, <2>1
    <3>2. Matches(fm', s1) /\ \A u \in Types : First(fm', u) = Depth(fm, u)
      <4>1. SameOwners(fm, fm') /\ \A u \in Types : First(fm', u) = Depth(fm, u)
        BY <1>4, <3>1, ForceSpillAllFirst, Zenon
      <4>2. SameDepths(fm, fm')
        BY <1>4, <3>1, ForceSpillAllKeeps, Zenon
      <4>3. QED
        BY <1>9, <4>1, <4>2, MatchSame
    <3>3. ASSUME NEW u \in Types, NEW p \in 1 .. Height(s, u)
          PROVE  p <= First(fm', u) <=> Marked(nodes, ItemAt(s, u, p))
      <4>1. Marked(nodes, ItemAt(S[Node], u, p))
        <5>1. p \in 1 .. Height(S[Node], u)
          BY <1>5
        <5>2. QED
          BY <1>3, <1>4, <5>1, AnnouncedIs
      <4>2. p <= First(fm', u)
        <5>1. PICK d \in Nat : d = Depth(fm, u)
          BY <1>4, GoodStacks
        <5>2. PICK g \in Nat : g = Height(s, u)
          BY HeldType
        <5>3. g <= d /\ First(fm', u) = d /\ p \in 1 .. g
          BY <1>12, <3>2, <5>1, <5>2
        <5>4. QED
          BY <5>3
      <4>3. QED
        BY <1>5, <4>1, <4>2
    <3>4. Height(s, "i") + 1 <= First(fm', "i") /\ Marked(nodes, it1)
      <4>1. First(fm', "i") = h + 1
        BY <1>3, <1>12, <3>2
      <4>2. k \in 1 .. k
        OBVIOUS
      <4>3. QED
        BY <1>7, <1>10, <3>1, <4>1, <4>2
    <3>5. Exact(nodes, fm', On(s, "i", it1))
      BY <1>3, <3>3, <3>4, ExactPush
    <3>6. QED
      BY <1>9, <3>2, <3>5
  <2>2. CASE ~spill
    <3>1. fm' = fm /\ nodes[Node].spill # k
      BY <1>11, <2>2
    <3>2. Marked(nodes, it1) <=> Marked(nodes, it)
      BY <1>3, <1>7, <3>1
    <3>3. Exact(nodes, fm', On(s, "i", it1))
      BY <1>3, <1>10, <1>12, <3>1, <3>2, ExactPush
    <3>4. QED
      BY <1>9, <3>1, <3>3
  <2>3. QED
    BY <2>1, <2>2
<1>14. PICK m \in 1 .. Len(nodes) : m = nodes[Node].args[k] /\ m \in Nat /\ S[m] = s1
  <2>1. k \in 1 .. Len(Args(nodes, Node))
    <3>1. k <= Len(Args(nodes, Node)) /\ Len(Args(nodes, Node)) \in Nat
      BY <1>4, <1>6, ArgCounts DEF PrepareParam, Args
    <3>2. QED
      BY <3>1
  <2>2. Args(nodes, Node)[k] \in 1 .. Len(nodes)
    BY <1>4, <2>1, ArgOk
  <2>3. S[Args(nodes, Node)[k]] = On(S[Node], "i", ItemOf(Node, k))
    BY <1>3, <1>4, <2>1 DEF Shape, PathOf
  <2>4. QED
    BY <1>5, <1>7, <1>9, <2>2, <2>3 DEF Args
<1>15. PICK x \in TaskRecord : /\ x = Task("prepare", m, NoSpill, 0)
                               /\ x.call = "prepare" /\ x.n = m
  <2>1. "prepare" \in SetupCalls \cup PrepareCalls /\ NoSpill \in Int /\ 0 \in Int
    BY DEF PrepareCalls, NoSpill
  <2>2. QED
    BY <1>14, <2>1, TaskIs
<1>16. PICK y \in TaskRecord : /\ y = Task("store", Node, work[1].loc, k)
                               /\ y.call = "store" /\ y.n = Node /\ y.k = k
  <2>1. "store" \in SetupCalls \cup PrepareCalls /\ work[1].loc \in Int /\ k \in Int
    BY <1>3 DEF PrepareCalls
  <2>2. QED
    BY <1>4, <2>1, TaskIs
<1>17. work' = <<x, y>> \o Rest /\ WorkOk(nodes, phase', <<x, y>> \o Rest)
  <2>1. work' = <<Task("prepare", m, NoSpill, 0), Task("store", Node, work[1].loc, k)>> \o Rest
    BY <1>6, <1>14 DEF PrepareParam
  <2>2. WorkOk(nodes', phase', work')
    BY DEF WalkInvariant
  <2>3. QED
    BY <1>2, <1>15, <1>16, <2>1, <2>2
<1>18. Paths(nodes, S, work') /\ Tops(nodes, S, work') = s1
  <2>1. Before(nodes, S, y) = s1
    <3>1. Before(nodes, S, y) = On(S[y.n], "i", ItemOf(y.n, y.k))
      BY <1>16, BeforeCases
    <3>2. QED
      BY <1>5, <1>7, <1>9, <1>16, <3>1
  <2>2. S[y.n] = Tops(nodes, S, Rest) /\ S[x.n] = Before(nodes, S, y)
    BY <1>4, <1>14, <1>15, <1>16, <2>1
  <2>3. Paths(nodes, S, <<x, y>> \o Rest) /\ Tops(nodes, S, <<x, y>> \o Rest) = S[x.n]
    <3>1. NodesOk(nodes) /\ Paths(nodes, S, Rest) /\ Rest \in Seq(TaskRecord)
      BY <1>4
    <3>2. x \in TaskRecord /\ y \in TaskRecord /\ x.call = "prepare"
      BY <1>15, <1>16
    <3>3. WorkOk(nodes, phase', <<x, y>> \o Rest)
      BY <1>17
    <3>4. QED
      BY <2>2, <3>1, <3>2, <3>3, PathsTwo
  <2>4. QED
    BY <1>14, <1>15, <1>17, <2>3
<1>19. QED
  BY <1>1, <1>2, <1>4, <1>13, <1>18, PrepareEnds

\* The parameter is stored, the address stays.
LEMMA StoreAgrees ==
    ASSUME WalkInvariant, WalkInvariant', Planned, PrepareStore
    PROVE  Planned'
<1>1. PICK S : Plan(nodes, stmts, work, fm, phase, S)
  BY DEF Planned
<1>2. /\ Doing("store") /\ nodes' = nodes /\ stmts' = stmts
      /\ phase' = phase /\ fm' = fm /\ "store" \in {"param", "store"}
      /\ work' = <<Task("param", Node, work[1].loc, work[1].k + 1)>> \o Rest
  BY DEF PrepareStore
<1>3. /\ "store" \in PrepareCalls /\ work[1].k \in Nat \ {0} /\ work[1].loc \in Int
      /\ Tops(nodes, S, work) = On(S[Node], "i", ItemOf(Node, work[1].k))
  BY <1>1, <1>2, AddressParts
<1>4. /\ phase # "setup" /\ NodesOk(nodes) /\ Node \in Nat /\ Rest \in Seq(TaskRecord)
      /\ Matches(fm, Tops(nodes, S, work)) /\ Exact(nodes, fm, Tops(nodes, S, work))
      /\ Paths(nodes, S, Rest) /\ Tops(nodes, S, Rest) = S[Node]
  BY <1>1, <1>2, <1>3, PrepareParts
<1>5. PICK k \in Nat \ {0} : k = work[1].k
  BY <1>3
<1>6. PICK s1 : s1 = On(S[Node], "i", ItemOf(Node, k)) /\ Tops(nodes, S, work) = s1
  BY <1>3, <1>5
<1>7. PICK y \in TaskRecord : /\ y = Task("param", Node, work[1].loc, k + 1)
                              /\ y.call = "param" /\ y.n = Node /\ y.k = k + 1
  <2>1. "param" \in SetupCalls \cup PrepareCalls /\ work[1].loc \in Int /\ k + 1 \in Int
    BY <1>3 DEF PrepareCalls
  <2>2. QED
    BY <1>4, <2>1, TaskIs
<1>8. work' = <<y>> \o Rest /\ WorkOk(nodes, phase', <<y>> \o Rest)
  <2>1. WorkOk(nodes', phase', work')
    BY DEF WalkInvariant
  <2>2. QED
    BY <1>2, <1>5, <1>7, <2>1
<1>9. Paths(nodes, S, work') /\ Tops(nodes, S, work') = s1
  <2>1. TaskOk(nodes, phase', y) /\ WorkOk(nodes, phase', Rest)
    BY <1>4, <1>7, <1>8, WorkParts
  <2>2. Before(nodes, S, y) = s1
    <3>1. Before(nodes, S, y) = On(S[y.n], "i", ItemOf(y.n, y.k - 1))
      BY <1>7, BeforeCases
    <3>2. y.k - 1 = k
      BY <1>7
    <3>3. QED
      BY <1>6, <1>7, <3>1, <3>2
  <2>3. S[y.n] = Tops(nodes, S, Rest)
    BY <1>4, <1>7
  <2>4. Paths(nodes, S, <<y>> \o Rest) /\ Tops(nodes, S, <<y>> \o Rest) = Before(nodes, S, y)
    BY <1>4, <2>1, <2>3, PathsCall
  <2>5. QED
    BY <1>8, <2>2, <2>4
<1>10. Matches(fm', s1) /\ Exact(nodes, fm', s1)
  BY <1>2, <1>4, <1>6
<1>11. QED
  BY <1>1, <1>2, <1>4, <1>9, <1>10, PrepareEnds

\* The address is popped when the call is made.
LEMMA CallDoneAgrees ==
    ASSUME WalkInvariant, WalkInvariant', Planned, PrepareCallDone
    PROVE  Planned'
<1>1. PICK S : Plan(nodes, stmts, work, fm, phase, S)
  BY DEF Planned
<1>2. /\ Doing("param") /\ nodes' = nodes /\ stmts' = stmts
      /\ phase' = phase /\ fm' = PopTemp(fm, "i") /\ "param" \in {"param", "store"}
      /\ work' = Rest
  BY DEF PrepareCallDone
<1>3. /\ "param" \in PrepareCalls /\ "i" \in Types /\ S[Node] \in Held
      /\ work[1].k \in Nat \ {0}
      /\ \A k \in Int : ItemOf(Node, k) \in Items
      /\ Tops(nodes, S, work) = On(S[Node], "i", ItemOf(Node, work[1].k - 1))
  BY <1>1, <1>2, AddressParts
<1>4. /\ phase # "setup" /\ Good(fm)
      /\ Matches(fm, Tops(nodes, S, work)) /\ Exact(nodes, fm, Tops(nodes, S, work))
      /\ Paths(nodes, S, Rest) /\ Tops(nodes, S, Rest) = S[Node]
  BY <1>1, <1>2, <1>3, PrepareParts
<1>5. PICK s \in Held : s = S[Node]
  BY <1>3
<1>6. PICK it \in Items : it = ItemOf(Node, work[1].k - 1)
  <2>1. work[1].k - 1 \in Int
    BY <1>3
  <2>2. QED
    BY <1>3, <2>1
<1>7. Matches(fm, On(s, "i", it)) /\ Exact(nodes, fm, On(s, "i", it))
  BY <1>3, <1>4, <1>5, <1>6
<1>8. PICK t \in Types : t = "i"
  BY <1>3
<1>9. Depth(fm, t) > 0 /\ Depth(fm, t) = Height(s, t) + 1 /\ Matches(fm', s)
  BY <1>2, <1>4, <1>7, <1>8, MatchPop
<1>10. PICK h \in Nat : h = Height(s, t)
  BY HeldType
<1>11. /\ First(fm', t) = IF First(fm, t) = Depth(fm, t) THEN Depth(fm, t) - 1 ELSE First(fm, t)
       /\ \A u \in Types \ {t} : First(fm', u) = First(fm, u)
  BY <1>2, <1>4, <1>8, <1>9, PopTempFirst, Zenon
<1>12. Exact(nodes, fm', s)
  <2>1. First(fm, t) \in Nat
    BY <1>4, GoodStacks
  <2>2. First(fm', t) = IF First(fm, t) = Height(s, t) + 1 THEN Height(s, t) ELSE First(fm, t)
    BY <1>9, <1>10, <1>11, <2>1
  <2>3. QED
    BY <1>7, <1>8, <1>11, <2>1, <2>2, ExactPop
<1>13. Paths(nodes, S, work') /\ Tops(nodes, S, work') = s
  BY <1>2, <1>4, <1>5
<1>14. QED
  BY <1>1, <1>2, <1>4, <1>9, <1>12, <1>13, PrepareEnds

\* With nothing on the stacks there is nothing to agree on.
LEMMA NothingHeld ==
    ASSUME NEW f, \A t \in Types : Depth(f, t) = 0, NEW ns
    PROVE  Matches(f, Nothing) /\ Exact(ns, f, Nothing)
<1>1. \A t \in Types : Height(Nothing, t) = 0 /\ 1 .. Height(Nothing, t) = {}
  BY NothingIs
<1>2. QED
  BY <1>1 DEF Matches, Exact

LEMMA StatementAgrees ==
    ASSUME WalkInvariant, WalkInvariant', Planned, PrepareStatement
    PROVE  Planned'
<1>1. PICK S : Plan(nodes, stmts, work, fm, phase, S)
  BY DEF Planned
<1>2. /\ phase = "prepare" /\ phase # "setup" /\ work = <<>> /\ at < Len(stmts) /\ nodes' = nodes
      /\ stmts' = stmts /\ phase' = phase
  BY DEF PrepareStatement
<1>3. PICK j \in 1 .. Len(stmts) : j = at + 1
  <2>1. at \in Nat /\ Len(stmts) \in Nat
    BY LenProperties DEF WalkInvariant
  <2>2. QED
    BY <1>2, <2>1
<1>4. PICK st \in Statement : st = stmts[j] /\ st.root \in 1 .. Len(nodes)
  BY ElementOfSeq DEF WalkInvariant
<1>5. PICK r \in Nat, size \in Nat \ {0} : r = st.root /\ size = st.size
  BY DEF Statement
<1>6. /\ fm' = GetLocalVar(fm, size, size)
      /\ work' = <<Task("prepare", r, NoSpill, 0), Task("assign", r, NoSpill, 0)>>
  BY <1>3, <1>4, <1>5 DEF PrepareStatement
<1>7. Matches(fm', Nothing) /\ Exact(nodes, fm', Nothing)
  <2>1. Good(fm) /\ \A t \in Types : Depth(fm, t) = 0
    BY <1>2, IdleIsEmpty DEF WalkInvariant
  <2>2. SameDepths(fm, fm')
    BY <1>5, <1>6, <2>1, GetLocalVarGood, Zenon
  <2>3. QED
    BY <2>1, <2>2, NothingHeld DEF SameDepths
<1>8. PICK x \in TaskRecord : /\ x = Task("prepare", r, NoSpill, 0)
                              /\ x.call = "prepare" /\ x.n = r
  <2>1. "prepare" \in SetupCalls \cup PrepareCalls /\ NoSpill \in Int /\ 0 \in Int
    BY DEF PrepareCalls, NoSpill
  <2>2. QED
    BY <2>1, TaskIs
<1>9. PICK y \in TaskRecord : /\ y = Task("assign", r, NoSpill, 0)
                              /\ y.call = "assign" /\ y.n = r
  <2>1. "assign" \in SetupCalls \cup PrepareCalls /\ NoSpill \in Int /\ 0 \in Int
    BY DEF PrepareCalls, NoSpill
  <2>2. QED
    BY <2>1, TaskIs
<1>10. PICK w \in Seq(TaskRecord) : w = <<>>
  BY EmptySeq
<1>11. work' = <<x, y>> \o w
  <2>1. <<x, y>> \in Seq(TaskRecord)
    BY <1>8, <1>9
  <2>2. <<x, y>> \o <<>> = <<x, y>>
    BY <2>1, ConcatEmptySeq
  <2>3. QED
    BY <1>6, <1>8, <1>9, <1>10, <2>2
<1>12. WorkOk(nodes, phase', <<x, y>> \o w) /\ NodesOk(nodes)
  BY <1>2, <1>11 DEF WalkInvariant
<1>13. /\ S \in [Nat -> Held] /\ Paths(nodes, S, w) /\ Tops(nodes, S, w) = Nothing
       /\ S[r] = Nothing
  <2>1. S \in [Nat -> Held]
    BY <1>1 DEF Plan, Paths
  <2>2. S[r] = Nothing
    BY <1>1, <1>3, <1>4, <1>5 DEF Plan, Roots
  <2>3. QED
    BY <1>10, <2>1, <2>2, NoPaths
<1>14. Paths(nodes, S, work') /\ Tops(nodes, S, work') = Nothing
  <2>1. Before(nodes, S, y) = S[r]
    BY <1>9, BeforeCases
  <2>2. S[y.n] = Tops(nodes, S, w) /\ S[x.n] = Before(nodes, S, y)
    BY <1>8, <1>9, <1>13, <2>1
  <2>3. Paths(nodes, S, <<x, y>> \o w) /\ Tops(nodes, S, <<x, y>> \o w) = S[x.n]
    <3>1. NodesOk(nodes) /\ Paths(nodes, S, w)
      BY <1>12, <1>13
    <3>2. x \in TaskRecord /\ y \in TaskRecord /\ x.call = "prepare" /\ w \in Seq(TaskRecord)
      BY <1>8, <1>9
    <3>3. WorkOk(nodes, phase', <<x, y>> \o w)
      BY <1>12
    <3>4. QED
      BY <2>2, <3>1, <3>2, <3>3, PathsTwo
  <2>4. QED
    BY <1>8, <1>11, <1>13, <2>3
<1>15. QED
  BY <1>1, <1>2, <1>7, <1>14, PrepareEnds

\* Nothing is on the stacks between statements.
LEMMA BetweenAgrees ==
    ASSUME WalkInvariant, WalkInvariant', Planned, PopLocalVar \/ PrepareDone
    PROVE  Planned'
<1>1. PICK S : Plan(nodes, stmts, work, fm, phase, S)
  BY DEF Planned
<1>2. /\ phase # "setup" /\ work = <<>> /\ nodes' = nodes /\ stmts' = stmts
      /\ phase' # "setup" /\ work' = <<>>
  BY DEF PopLocalVar, PrepareDone
<1>3. Matches(fm', Nothing) /\ Exact(nodes, fm', Nothing)
  <2>1. \A t \in Types : Counts(nodes', <<>>, t, Depth(fm', t))
    BY <1>2 DEF WalkInvariant
  <2>2. \A t \in Types : Depth(fm', t) = 0
    BY <2>1, NoWork
  <2>3. QED
    BY <2>2, NothingHeld
<1>4. Paths(nodes, S, work') /\ Tops(nodes, S, work') = Nothing
  <2>1. S \in [Nat -> Held]
    BY <1>1 DEF Plan, Paths
  <2>2. QED
    BY <1>2, <2>1, NoPaths
<1>5. QED
  BY <1>1, <1>2, <1>3, <1>4, PrepareEnds

LEMMA PlanInit ==
    ASSUME Init
    PROVE  Planned
<1>1. /\ nodes = <<>> /\ stmts = <<>> /\ work = <<>> /\ fm = Reset /\ phase = "setup"
      /\ Len(nodes) = 0 /\ Len(stmts) = 0
  BY EmptySeq DEF Init
<1>2. 1 .. 0 = {}
  OBVIOUS
<1>3. PICK S \in [Nat -> Held] : S = [n \in Nat |-> Nothing]
  BY NothingIs
<1>4. Paths(nodes, S, work) /\ Tops(nodes, S, work) = Nothing
  BY <1>1, <1>3, NoPaths
<1>5. Shape(nodes, S)
  BY <1>1, <1>2 DEF Shape, PathOf, Typed, ItemsOk, Flags
<1>6. Roots(stmts, S)
  BY <1>1, <1>2 DEF Roots
<1>7. Matches(fm, Nothing)
  <2>1. Len(<<>>) = 0
    BY EmptySeq
  <2>2. \A t \in Types : Depth(fm, t) = 0
    BY <1>1, <2>1 DEF Reset, Depth
  <2>3. QED
    BY <2>2, NothingHeld
<1>8. Pending(nodes, work) /\ \A m \in Unseen(nodes) : Expects(nodes, work, m)
  <2>1. Pending(nodes, work)
    BY <1>1, PendingEmpty
  <2>2. Unseen(nodes) = {}
    BY <1>1, <1>2 DEF Unseen
  <2>3. QED
    BY <2>1, <2>2
<1>9. SpillLaw(nodes, S, work, fm, Nothing)
  BY <1>1, <1>2 DEF SpillLaw
<1>10. Plan(nodes, stmts, work, fm, phase, S)
  BY <1>1, <1>4, <1>5, <1>6, <1>7, <1>8, <1>9 DEF Plan, SetupPlan
<1>11. QED
  BY <1>10 DEF Planned

LEMMA PlanNext ==
    ASSUME WalkInvariant, WalkInvariant', Planned, [Next]_vars
    PROVE  Planned'
<1>1. CASE SetupStatement
  BY <1>1, StatementPlan
<1>2. CASE SetupLeaf
  BY <1>2, LeafPlan
<1>3. CASE SetupOneOperand
  BY <1>3, OneOperandPlan
<1>4. CASE SetupTwoOperands
  BY <1>4, TwoOperandsPlan
<1>5. CASE SetupLeft
  BY <1>5, LeftPlan
<1>6. CASE SetupCall
  BY <1>6, CallPlan
<1>7. CASE SetupParam
  BY <1>7, ParamPlan
<1>8. CASE SetupDone
  BY <1>8, SetupDonePlan
<1>9. CASE PrepareStatement
  BY <1>9, StatementAgrees
<1>10. CASE PrepareAssign
  BY <1>10, ReturnPlan
<1>11. CASE PrepareLeaf
  BY <1>11, ReturnPlan
<1>12. CASE PrepareOneOperand
  BY <1>12, OneOperandAgrees
<1>13. CASE PrepareOneDone
  BY <1>13, ReturnPlan
<1>14. CASE PrepareTwoOperands
  BY <1>14, TwoOperandsAgrees
<1>15. CASE PrepareLeft
  BY <1>15, LeftAgrees
<1>16. CASE PrepareTwoDone
  BY <1>16, ReturnPlan
<1>17. CASE PrepareCall
  BY <1>17, CallAgrees
<1>18. CASE PrepareParam
  BY <1>18, ParamAgrees
<1>19. CASE PrepareStore
  BY <1>19, StoreAgrees
<1>20. CASE PrepareCallDone
  BY <1>20, CallDoneAgrees
<1>21. CASE PopLocalVar
  BY <1>21, BetweenAgrees
<1>22. CASE PrepareDone
  BY <1>22, BetweenAgrees
<1>23. CASE UNCHANGED vars
  <2>1. /\ fm' = fm /\ nodes' = nodes /\ stmts' = stmts /\ phase' = phase /\ work' = work
    BY <1>23 DEF vars
  <2>2. QED
    BY <2>1 DEF Planned
<1>24. CASE Finished
  BY <1>23, <1>24 DEF Finished
<1>25. QED
  BY <1>1, <1>2, <1>3, <1>4, <1>5, <1>6, <1>7, <1>8, <1>9, <1>10, <1>11, <1>12, <1>13,
     <1>14, <1>15, <1>16, <1>17, <1>18, <1>19, <1>20, <1>21, <1>22, <1>23, <1>24 DEF Next

\* The inductive invariant: in the first pass every spill that a visit needs is
\* recorded or on the frame, and in the second pass the recorded items, and no
\* others, are spilled.
THEOREM SpillInvariantHolds == Spec => []SpillInvariant
<1>1. Init => SpillInvariant
  BY FrameInit, PlanInit DEF SpillInvariant, Planned
<1>2. SpillInvariant /\ [Next]_vars => SpillInvariant'
  <2>1. ASSUME SpillInvariant, [Next]_vars PROVE SpillInvariant'
    <3>1. WalkInvariant /\ Planned
      BY <2>1 DEF SpillInvariant, Planned
    <3>2. WalkInvariant'
      BY <2>1, <3>1, FrameNext
    <3>3. Planned'
      BY <2>1, <3>1, <3>2, PlanNext
    <3>4. QED
      BY <3>2, <3>3 DEF SpillInvariant, Planned
  <2>2. QED
    BY <2>1
<1>3. QED
  BY <1>1, <1>2, PTL DEF Spec

(***************************************************************************)
(* What the second pass relies on.                                         *)
(***************************************************************************)
LEMMA FreeRegister ==
    ASSUME SpillInvariant
    PROVE  RegisterIsFree
<1>1. WalkInvariant /\ Planned
  BY DEF SpillInvariant, Planned
<1>2. PICK S : Plan(nodes, stmts, work, fm, phase, S)
  BY <1>1 DEF Planned
<1>3. ASSUME Doing("prepare") PROVE CanReserveWithoutSpill(fm, nodes[Node].type)
  <2>1. "prepare" \in PrepareCalls
    BY DEF PrepareCalls
  <2>2. /\ work[1].call = "prepare" /\ work[1].n = Node
        /\ S[Node] \in Held /\ Node \in 1 .. Len(nodes) /\ Good(fm)
        /\ Tops(nodes, S, work) = Before(nodes, S, work[1])
        /\ Matches(fm, Tops(nodes, S, work)) /\ Exact(nodes, fm, Tops(nodes, S, work))
        /\ Announced(nodes, S) /\ Unseen(nodes) = {}
    BY <1>1, <1>2, <1>3, <2>1, PrepareParts
  <2>3. PICK s \in Held : s = S[Node] /\ Tops(nodes, S, work) = s
    <3>1. Before(nodes, S, work[1]) = S[Node]
      BY <2>2, BeforeCases
    <3>2. QED
      BY <2>2, <3>1
  <2>4. PICK t \in Types : t = nodes[Node].type
    BY <1>1, <1>3, NowDoing
  <2>5. PICK h \in Nat : h = Height(s, t)
    BY HeldType
  <2>6. PICK l \in Nat \ {0} : l = Limit[t]
    BY FrameAssumption
  <2>7. PICK q \in Nat : q = First(fm, t)
    BY <2>2, GoodStacks
  <2>8. Depth(fm, t) = h
    BY <2>2, <2>3, <2>5 DEF Matches
  <2>9. ASSUME NEW p \in 1 .. h, p <= h + 1 - l PROVE p <= q
    <3>1. p \in 1 .. Height(S[Node], t) /\ p <= Height(S[Node], t) + 1 - Limit[t]
      BY <2>3, <2>5, <2>6, <2>9
    <3>2. Marked(nodes, ItemAt(S[Node], t, p))
      BY <2>2, <2>4, <3>1, AnnouncedIs
    <3>3. QED
      BY <2>2, <2>3, <2>5, <2>7, <3>2 DEF Exact
  <2>10. h - q < l
    <3>1. CASE h + 1 - l > 0
      <4>1. h + 1 - l \in 1 .. h
        BY <3>1
      <4>2. h + 1 - l <= q
        BY <2>9, <4>1
      <4>3. QED
        BY <4>2
    <3>2. CASE ~(h + 1 - l > 0)
      BY <3>2
    <3>3. QED
      BY <3>1, <3>2
  <2>11. QED
    BY <2>4, <2>6, <2>7, <2>8, <2>10 DEF CanReserveWithoutSpill, GetNumNoSpill, Depth, First
<1>4. QED
  BY <1>3 DEF RegisterIsFree

\* The assertion CanReserveWithoutSpill before every operand of the second pass
\* whose value goes to a register: the first pass has announced as many spills
\* as it takes to have one free.
THEOREM RegisterIsFreeHolds == Spec => []RegisterIsFree
<1>1. SpillInvariant => RegisterIsFree
  BY FreeRegister
<1>2. QED
  BY <1>1, SpillInvariantHolds, PTL

\* While a parameter of call n is visited, the call's item on the stacks is
\* that parameter's.
LEMMA StoredItem ==
    ASSUME NEW ns, NodesOk(ns), NEW p, NEW w, WorkOk(ns, p, w), NEW S, Paths(ns, S, w),
           Shape(ns, S), NEW s \in Held, s = Tops(ns, S, w), NEW j \in 1 .. Len(w),
           w[j].call = "store", NEW t \in Types, NEW k \in 1 .. Height(s, t),
           ItemAt(s, t, k).owner = w[j].n
    PROVE  ItemAt(s, t, k) = ItemOf(w[j].n, w[j].k)
<1>1. PICK l \in Nat \ {0} : l = Len(w) /\ 1 \in 1 .. l
  <2>1. w \in Seq(TaskRecord)
    BY DEF WorkOk
  <2>2. Len(w) \in Nat
    BY <2>1, LenProperties
  <2>3. QED
    BY <2>2
<1>2. w # <<>>
  BY <1>1, EmptySeq
<1>3. TaskOk(ns, p, w[1]) /\ TaskOk(ns, p, w[j]) /\ S \in [Nat -> Held] /\ w[j].k \in Int
  <2>1. TaskOk(ns, p, w[1]) /\ TaskOk(ns, p, w[j])
    BY <1>1 DEF WorkOk
  <2>2. w[j] \in TaskRecord
    BY <2>1 DEF TaskOk
  <2>3. QED
    BY <2>1, <2>2 DEF Paths, TaskRecord
<1>4. PICK x, y, it : x = w[1] /\ y = w[j] /\ it = ItemAt(s, t, k)
  OBVIOUS
<1>5. /\ x.n \in Nat /\ S[x.n] \in Held /\ s = Before(ns, S, x)
      /\ \/ s = S[x.n]
         \/ \E u \in Types, i \in Int : s = On(S[x.n], u, ItemOf(x.n, i))
  <2>1. s = Before(ns, S, x)
    BY <1>2, <1>4 DEF Tops
  <2>2. QED
    BY <1>3, <1>4, <2>1, BeforeIs
<1>6. PICK n \in Nat : n = y.n /\ S[n] \in Held /\ n \in 1 .. Len(ns) /\ ns[n].op = "call"
  <2>1. y.n \in 1 .. Len(ns) /\ ns[y.n].op = "call"
    BY <1>3, <1>4 DEF TaskOk
  <2>2. QED
    BY <1>3, <2>1
<1>7. it.owner = n
  BY <1>4, <1>6
<1>8. PICK h \in Nat : h = Height(S[n], "i") /\ "i" \in Types
  <2>1. "i" \in Types
    BY DEF Types
  <2>2. QED
    BY <1>6, <2>1, HeldType
<1>9. PICK z \in Items : z = ItemOf(n, y.k)
  BY <1>3, <1>4, <1>6 DEF ItemOf, Items
<1>10. PICK b \in Held : /\ b = Before(ns, S, y) /\ b = On(S[n], "i", z)
                         /\ Height(b, "i") = h + 1 /\ ItemAt(b, "i", h + 1) = z
  <2>1. Before(ns, S, y) = On(S[n], "i", z)
    BY <1>4, <1>6, <1>9, BeforeCases
  <2>2. QED
    BY <1>6, <1>8, <2>1, OnIs
\* An item below what the innermost call holds is where the call's is.
<1>11. ASSUME k \in 1 .. Height(S[x.n], t), it = ItemAt(S[x.n], t, k)
       PROVE  t = "i" /\ k = h + 1 /\ x.n \in 1 .. Len(ns)
  <2>1. x.n \in 1 .. Len(ns)
    BY <1>3, <1>4 DEF TaskOk
  <2>2. Placed(ns, S, it, t, k)
    BY <1>11, <2>1 DEF Shape, ItemsOk
  <2>3. t = "i" /\ Height(S[n], t) = k - 1
    BY <1>6, <1>7, <2>2 DEF Placed, TwoOps
  <2>4. h = k - 1
    BY <1>8, <2>3
  <2>5. QED
    BY <1>8, <2>1, <2>3, <2>4
<1>12. CASE j = 1
  <2>1. x = y /\ x.n = n
    BY <1>4, <1>6, <1>12
  <2>2. s = b
    BY <1>5, <1>10, <2>1
  <2>3. ~(k \in 1 .. Height(S[n], t))
    <3>1. SUFFICES ASSUME k \in 1 .. Height(S[n], t) PROVE FALSE
      OBVIOUS
    <3>2. ItemAt(b, t, k) = ItemAt(S[n], t, k)
      <4>1. CASE t = "i"
        BY <1>6, <1>8, <1>9, <1>10, <3>1, <4>1, OnIs
      <4>2. CASE t # "i"
        BY <1>6, <1>8, <1>9, <1>10, <4>2, OnIs
      <4>3. QED
        BY <4>1, <4>2
    <3>3. t = "i" /\ k = h + 1
      BY <1>4, <1>11, <2>1, <2>2, <3>1, <3>2
    <3>4. QED
      BY <1>8, <3>1, <3>3
  <2>4. t = "i"
    <3>1. SUFFICES ASSUME t # "i" PROVE FALSE
      OBVIOUS
    <3>2. Height(b, t) = Height(S[n], t)
      BY <1>6, <1>8, <1>9, <1>10, <3>1, OnIs
    <3>3. QED
      BY <2>2, <2>3, <3>2
  <2>5. k = h + 1
    BY <1>8, <1>10, <2>2, <2>3, <2>4
  <2>6. QED
    BY <1>4, <1>6, <1>9, <1>10, <2>2, <2>4, <2>5
<1>13. CASE j # 1
  <2>1. 1 < j /\ 1 \in 1 .. Len(w)
    BY <1>1, <1>13
  <2>2. Within(b, S[x.n])
    BY <1>4, <1>10, <2>1 DEF Paths
  <2>3. x.n # n
    <3>1. w[j].call \in {"setupLeft", "left", "setupParam", "param", "store"}
      OBVIOUS
    <3>2. w[1].n # w[j].n
      BY <2>1, <3>1, HoldersDiffer
    <3>3. QED
      BY <1>4, <1>6, <3>2
  <2>4. k \in 1 .. Height(S[x.n], t) /\ it = ItemAt(S[x.n], t, k)
    <3>1. CASE s = S[x.n]
      BY <1>4, <3>1
    <3>2. ASSUME NEW u \in Types, NEW i \in Int, s = On(S[x.n], u, ItemOf(x.n, i))
          PROVE  k \in 1 .. Height(S[x.n], t) /\ it = ItemAt(S[x.n], t, k)
      <4>1. PICK r \in Held : r = S[x.n]
        BY <1>5
      <4>2. ItemOf(x.n, i) \in Items /\ ItemOf(x.n, i).owner = x.n
        BY <1>5 DEF ItemOf, Items
      <4>3. PICK e \in Items : e = ItemOf(x.n, i) /\ e.owner = x.n
        BY <4>2
      <4>4. s = On(r, u, e)
        BY <3>2, <4>1, <4>3
      <4>5. PICK g \in Nat : g = Height(r, t)
        BY HeldType
      <4>6. CASE t = u
        <5>1. /\ Height(s, t) = g + 1 /\ ItemAt(s, t, g + 1) = e
              /\ \A m \in 1 .. g : ItemAt(s, t, m) = ItemAt(r, t, m)
          BY <4>4, <4>5, <4>6, OnIs
        <5>2. k # g + 1
          <6>1. SUFFICES ASSUME k = g + 1 PROVE FALSE
            OBVIOUS
          <6>2. it = e
            BY <1>4, <5>1, <6>1
          <6>3. QED
            BY <1>7, <2>3, <4>3, <6>2
        <5>3. k \in 1 .. g
          BY <5>1, <5>2
        <5>4. QED
          BY <1>4, <4>1, <4>5, <5>1, <5>3
      <4>7. CASE t # u
        <5>1. Height(s, t) = Height(r, t) /\ \A m : ItemAt(s, t, m) = ItemAt(r, t, m)
          BY <4>4, <4>7, OnIs
        <5>2. QED
          BY <1>4, <4>1, <5>1
      <4>8. QED
        BY <4>6, <4>7
    <3>3. QED
      BY <1>5, <3>1, <3>2
  <2>5. t = "i" /\ k = h + 1
    BY <1>11, <2>4
  <2>6. ItemAt(S[x.n], "i", h + 1) = z
    <3>1. h + 1 \in 1 .. Height(b, "i")
      BY <1>10
    <3>2. QED
      BY <1>8, <1>10, <2>2, <3>1 DEF Within
  <2>7. QED
    BY <1>4, <1>6, <1>9, <2>4, <2>5, <2>6
<1>14. QED
  BY <1>12, <1>13

LEMMA SpillsAgree ==
    ASSUME SpillInvariant
    PROVE  SecondPassAgrees
<1>1. PICK S : WalkInvariant /\ Plan(nodes, stmts, work, fm, phase, S)
  BY DEF SpillInvariant
<1>2. SUFFICES ASSUME phase = "prepare", NEW t \in Types, NEW k \in 1 .. Depth(fm, t)
               PROVE  LET o == fm.st[t].stack[k]
                          a == nodes[o.owner]
                      IN  IF a.op = "call"
                          THEN \A j \in 1 .. Len(work) :
                                  (work[j].n = o.owner /\ work[j].call = "store")
                                  => ((o.loc # NoSpill) <=>
                                      (a.spill # 0 /\ a.spill <= work[j].k))
                          ELSE (o.loc # NoSpill) <=> (a.spill = 1)
  BY DEF SecondPassAgrees, Depth
<1>3. /\ NodesOk(nodes) /\ WorkOk(nodes, phase, work) /\ Good(fm) /\ work \in Seq(TaskRecord)
  BY <1>1 DEF WalkInvariant, WorkOk
<1>4. /\ Paths(nodes, S, work) /\ Shape(nodes, S) /\ S \in [Nat -> Held]
      /\ Matches(fm, Tops(nodes, S, work)) /\ Exact(nodes, fm, Tops(nodes, S, work))
  BY <1>1, <1>2 DEF Plan, PreparePlan, Paths
<1>5. PICK s \in Held : s = Tops(nodes, S, work)
  <2>1. CASE work = <<>>
    BY <2>1, NothingIs DEF Tops
  <2>2. CASE work # <<>>
    <3>1. Len(work) \in Nat \ {0}
      BY <1>3, <2>2, EmptySeq
    <3>2. 1 \in 1 .. Len(work)
      BY <3>1
    <3>3. TaskOk(nodes, phase, work[1])
      BY <1>3, <3>2 DEF WorkOk
    <3>4. Before(nodes, S, work[1]) \in Held
      BY <1>3, <1>4, <3>3, BeforeIs
    <3>5. QED
      BY <2>2, <3>4 DEF Tops
  <2>3. QED
    BY <2>1, <2>2
<1>6. k \in 1 .. Height(s, t) /\ Owner(fm, t, k) = ItemAt(s, t, k).owner
  BY <1>4, <1>5 DEF Matches
<1>7. PICK it \in Items : it = ItemAt(s, t, k)
  BY <1>6, HeldType
<1>8. PICK o : o = fm.st[t].stack[k]
  OBVIOUS
<1>9. o.owner = it.owner /\ (o.loc # NoSpill <=> Marked(nodes, it))
  <2>1. o.owner = it.owner
    BY <1>6, <1>7, <1>8 DEF Owner
  <2>2. Loc(fm, t, k) # NoSpill <=> k <= First(fm, t)
    BY <1>3 DEF Good, FrameOk, BelowSpilled
  <2>3. k <= First(fm, t) <=> Marked(nodes, it)
    BY <1>4, <1>5, <1>6, <1>7 DEF Exact
  <2>4. QED
    BY <1>8, <2>1, <2>2, <2>3 DEF Loc
<1>10. CASE nodes[o.owner].op # "call"
  <2>1. Marked(nodes, it) <=> nodes[o.owner].spill = 1
    BY <1>9, <1>10 DEF Marked
  <2>2. QED
    BY <1>8, <1>9, <1>10, <2>1
<1>11. CASE nodes[o.owner].op = "call"
  <2>1. ASSUME NEW j \in 1 .. Len(work), work[j].n = o.owner, work[j].call = "store"
        PROVE  (o.loc # NoSpill) <=> (nodes[o.owner].spill # 0
                                      /\ nodes[o.owner].spill <= work[j].k)
    <3>1. it = ItemOf(o.owner, work[j].k)
      <4>1. ItemAt(s, t, k).owner = work[j].n
        BY <1>7, <1>9, <2>1
      <4>2. ItemAt(s, t, k) = ItemOf(work[j].n, work[j].k)
        BY <1>3, <1>4, <1>5, <1>6, <2>1, <4>1, StoredItem
      <4>3. QED
        BY <1>7, <2>1, <4>2
    <3>2. TaskOk(nodes, phase, work[j])
      BY <1>3, <2>1 DEF WorkOk
    <3>3. o.owner \in 1 .. Len(nodes) /\ work[j] \in TaskRecord
      BY <2>1, <3>2 DEF TaskOk
    <3>4. PICK i \in Int : i = work[j].k
      BY <3>3 DEF TaskRecord
    <3>5. PICK v \in Nat : v = nodes[o.owner].spill
      BY <1>3, <3>3, ArgCounts
    <3>6. it.k = i
      BY <3>1, <3>4 DEF ItemOf
    <3>7. Marked(nodes, it) <=> v \in 1 .. i
      BY <1>9, <1>11, <3>5, <3>6 DEF Marked
    <3>8. v \in 1 .. i <=> v # 0 /\ v <= i
      OBVIOUS
    <3>9. QED
      BY <1>9, <3>4, <3>5, <3>7, <3>8
  <2>2. QED
    BY <1>8, <1>11, <2>1
<1>12. QED
  BY <1>10, <1>11

\* The second pass spills what the first pass announced and nothing else: what
\* m_fiIsLhsSpill and m_fastInterpSpillNewSfAddrAt say of an operand is whether
\* it has a location in the frame at any time the second pass has it on a stack.
THEOREM SecondPassAgreesHolds == Spec => []SecondPassAgrees
<1>1. SpillInvariant => SecondPassAgrees
  BY SpillsAgree
<1>2. QED
  BY <1>1, SpillInvariantHolds, PTL
=============================================================================
