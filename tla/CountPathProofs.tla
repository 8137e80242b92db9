-------------------------- MODULE CountPathProofs --------------------------
(***************************************************************************)
(* Proofs about the count path, for every set of bins and every bound:     *)
(* Edge is never ahead of Core's generations (IInv); rows are skipped only *)
(* when they were overtaken; Core's count is its ledger (OrderInv); the    *)
(* parts are accounted for (PartsInv).  The last two need sums over finite *)
(* sets.  Together with Answers they give the types.                       *)
(***************************************************************************)
EXTENDS CountPath, FiniteSetTheorems, TLAPS

\* Core has begun generation e of bin b.
Begun(b, e) == e \in 1..epoch[b]

\* The slot, a tick under way, the accumulator and the flush.
SlotBegun ==
    /\ active # None => Begun(active, stamp)
    /\ \A t \in tick : t.bin # None => Begun(t.bin, t.epoch)
    /\ \A b \in Bins : acc[b].delta # 0 => Begun(b, acc[b].epoch)
    /\ \A s \in snap : Begun(s.bin, s.epoch)

RowsBegun == \A i \in DOMAIN out : Begun(out[i].bin, out[i].epoch)

\* A pickup notice alone carries no generation.
NoticesBegun ==
    \A n \in Range(down) \cup sending : n.kind # "picked_up" => Begun(n.bin, n.epoch)

ReadBegun == \A h \in handling : Begun(out[h.row].bin, h.seen)

\* The flush has one entry in hand, and no more of it than the entry holds.
FlushFits ==
    /\ \A s, t \in snap : s = t
    /\ \A s \in snap : s.delta <= acc[s.bin].delta

TypesOK == SlotOK /\ OutboxOK /\ CoreOK

IInv == TypesOK /\ FlushFits /\ SlotBegun /\ RowsBegun /\ NoticesBegun /\ ReadBegun

-----------------------------------------------------------------------------
(* Sequences.                                                              *)

\* What appending does to a sequence and to its range.
LEMMA Appending ==
    ASSUME NEW S, NEW s \in Seq(S), NEW x \in S
    PROVE  /\ Append(s, x) \in Seq(S)
           /\ Range(Append(s, x)) = Range(s) \cup {x}
<1>1. /\ Append(s, x) \in Seq(S) /\ Len(Append(s, x)) = Len(s) + 1
      /\ Append(s, x)[Len(s) + 1] = x
      /\ \A i \in 1..Len(s) : Append(s, x)[i] = s[i]
  OBVIOUS
<1>2. DOMAIN Append(s, x) = (1..Len(s)) \cup {Len(s) + 1} /\ DOMAIN s = 1..Len(s)
  BY <1>1
<1> QED
  BY <1>1, <1>2 DEF Range

\* What taking the head does.
LEMMA Taking ==
    ASSUME NEW S, NEW s \in Seq(S), s # <<>>
    PROVE  /\ Head(s) \in S /\ Head(s) \in Range(s)
           /\ Tail(s) \in Seq(S) /\ Range(Tail(s)) \subseteq Range(s)
<1>1. /\ Len(s) \in Nat /\ Len(s) > 0 /\ DOMAIN s = 1..Len(s) /\ Head(s) = s[1]
      /\ Tail(s) \in Seq(S) /\ Len(Tail(s)) = Len(s) - 1
      /\ \A i \in 1..(Len(s) - 1) : Tail(s)[i] = s[i + 1]
  OBVIOUS
<1>2. DOMAIN Tail(s) = 1..(Len(s) - 1)
  BY <1>1
<1>3. Range(Tail(s)) \subseteq Range(s)
  BY <1>1, <1>2 DEF Range
<1>4. Head(s) \in S /\ Head(s) \in Range(s)
  BY <1>1 DEF Range
<1> QED
  BY <1>1, <1>3, <1>4

-----------------------------------------------------------------------------
(* Sums over finite sets.  A statement about every subset of a finite set  *)
(* is proved by looking at a minimal subset that it fails for.             *)

\* A nonempty family of subsets of a finite set has a minimal member.
LEMMA SmallestSet ==
    ASSUME NEW S, IsFiniteSet(S), NEW B, B \subseteq SUBSET S, B # {}
    PROVE  \E s \in B : \A u \in B : u \subseteq s => u = s
<1>1. B \subseteq FiniteSubsetsOf(S)
  BY FS_Subset DEF FiniteSubsetsOf
<1>2. \E s \in B : \A u \in B : ~(<<u, s>> \in StrictSubsetOrdering(S))
  BY <1>1, FS_StrictSubsetOrderingWellFounded, WFMin, Zenon
<1>3. PICK s \in B : \A u \in B : ~(<<u, s>> \in StrictSubsetOrdering(S))
  BY <1>2, Zenon
<1>4. ASSUME NEW u \in B, u \subseteq s
      PROVE  u = s
  <2>1. u # s => <<u, s>> \in StrictSubsetOrdering(S)
    BY <1>4 DEF StrictSubsetOrdering
  <2> QED
    BY <1>3, <2>1, Zenon
<1> QED
  BY <1>4, Zenon

Pick(s) == CHOOSE x \in s : TRUE

\* The function by which the library defines a sum.
IsSum(g, f, S) ==
    g = [s \in SUBSET S |-> IF s = {} THEN 0 ELSE f[Pick(s)] + g[s \ {Pick(s)}]]

\* A nonempty set has its pick.
LEMMA Picked == ASSUME NEW s, s # {}
                PROVE  Pick(s) \in s /\ s \ {Pick(s)} \subseteq s /\ s \ {Pick(s)} # s
BY Zenon DEF Pick

\* What it is at a set.
LEMMA IsSumAt ==
    ASSUME NEW f, NEW S, NEW g, IsSum(g, f, S)
    PROVE  \A s \in SUBSET S : s # {} => g[s] = f[Pick(s)] + g[s \ {Pick(s)}]
BY Zenon DEF IsSum

\* And at the empty set.
LEMMA IsSumEmpty == ASSUME NEW f, NEW S, NEW g, IsSum(g, f, S) PROVE g[{}] = 0
BY Zenon DEF IsSum

\* Two of them agree where both are defined.
LEMMA SumUnique ==
    ASSUME NEW f, NEW S, IsFiniteSet(S), NEW g, IsSum(g, f, S),
           NEW T \in SUBSET S, NEW h, IsSum(h, f, T)
    PROVE  \A t \in SUBSET T : g[t] = h[t]
<1> DEFINE B == {s \in SUBSET T : g[s] # h[s]}
<1> SUFFICES ASSUME B # {}
             PROVE  FALSE
  OBVIOUS
<1>1. PICK s \in B : \A u \in B : u \subseteq s => u = s
  <2>1. B \subseteq SUBSET S
    OBVIOUS
  <2> HIDE DEF B
  <2> QED
    BY <2>1, SmallestSet
<1>2. s \in SUBSET T /\ s \in SUBSET S /\ g[s] # h[s]
  OBVIOUS
<1>3. s # {}
  <2>1. g[{}] = 0 /\ h[{}] = 0
    BY IsSumEmpty
  <2> QED
    BY <1>2, <2>1, Zenon
<1>4. g[s \ {Pick(s)}] = h[s \ {Pick(s)}]
  BY <1>1, <1>2, <1>3, Picked
<1>5. g[s] = f[Pick(s)] + g[s \ {Pick(s)}] /\ h[s] = f[Pick(s)] + h[s \ {Pick(s)}]
  BY <1>2, <1>3, IsSumAt
<1> QED
  BY <1>2, <1>4, <1>5, Zenon

\* There is one.
LEMMA SumExists == ASSUME NEW f, NEW S, IsFiniteSet(S) PROVE \E g : IsSum(g, f, S)
<1> DEFINE B == {s \in SUBSET S : ~\E g : IsSum(g, f, s)}
<1> SUFFICES ASSUME B # {}
             PROVE  FALSE
  OBVIOUS
<1>1. PICK T \in B : \A u \in B : u \subseteq T => u = T
  <2>1. B \subseteq SUBSET S
    OBVIOUS
  <2> HIDE DEF B
  <2> QED
    BY <2>1, SmallestSet
<1> DEFINE h(u) == CHOOSE g : IsSum(g, f, u)
<1>2. T \subseteq S /\ ~\E g : IsSum(g, f, T)
  BY Zenon
<1>3. ASSUME NEW u, u \subseteq T, u # T
      PROVE  IsSum(h(u), f, u) /\ IsFiniteSet(u)
  <2>1. \E g : IsSum(g, f, u)
    BY <1>1, <1>2, <1>3, Zenon
  <2> QED
    BY <1>2, <1>3, <2>1, FS_Subset
<1> DEFINE G == [s \in SUBSET T |-> IF s = {} THEN 0
                                    ELSE f[Pick(s)] + h(s \ {Pick(s)})[s \ {Pick(s)}]]
<1> HIDE DEF h
<1>4. ASSUME NEW s, s \subseteq T
      PROVE  G[s] = IF s = {} THEN 0 ELSE f[Pick(s)] + h(s \ {Pick(s)})[s \ {Pick(s)}]
  BY <1>4
<1>5. ASSUME NEW u, u \subseteq T, u # T
      PROVE  G[u] = h(u)[u]
  <2>1. IsSum(h(u), f, u) /\ IsFiniteSet(u) /\ u \in SUBSET u
    BY <1>3, <1>5, Zenon
  <2>2. CASE u = {}
    <3>1. h(u)[u] = 0
      BY <2>1, <2>2, IsSumEmpty
    <3> QED
      BY <1>4, <1>5, <2>2, <3>1, Zenon
  <2>3. CASE u # {}
    <3>1. PICK v : v = u \ {Pick(u)}
      OBVIOUS
    <3>2. v \in SUBSET u /\ v \subseteq T /\ v # T /\ v \in SUBSET v
      BY <1>5, <2>3, <3>1, Picked
    <3>3. IsSum(h(v), f, v)
      BY <1>3, <3>2, Zenon
    <3>4. h(u)[v] = h(v)[v]
      BY <2>1, <3>2, <3>3, SumUnique
    <3>5. h(u)[u] = f[Pick(u)] + h(u)[v]
      <4>1. PICK k : k = h(u)
        OBVIOUS
      <4>2. IsSum(k, f, u)
        BY <2>1, <4>1, Zenon
      <4>3. k[u] = f[Pick(u)] + k[u \ {Pick(u)}]
        BY <2>1, <2>3, <4>2, IsSumAt
      <4> QED
        BY <3>1, <4>1, <4>3, Zenon
    <3>6. G[u] = f[Pick(u)] + h(v)[v]
      <4> HIDE DEF G
      <4> QED
        BY <1>4, <1>5, <2>3, <3>1, Zenon
    <3> QED
      BY <3>4, <3>5, <3>6, Zenon
  <2> QED
    BY <2>2, <2>3, Zenon
<1>6. ASSUME NEW s \in SUBSET T
      PROVE  G[s] = IF s = {} THEN 0 ELSE f[Pick(s)] + G[s \ {Pick(s)}]
  <2>1. CASE s = {}
    BY <2>1
  <2>2. CASE s # {}
    <3>1. s \ {Pick(s)} \subseteq T /\ s \ {Pick(s)} # T
      BY <2>2, Picked
    <3>2. G[s \ {Pick(s)}] = h(s \ {Pick(s)})[s \ {Pick(s)}]
      BY <1>5, <3>1, Zenon
    <3> HIDE DEF G
    <3> QED
      BY <1>4, <2>2, <3>2
  <2> QED
    BY <2>1, <2>2, Zenon
<1>7. G = [s \in SUBSET T |-> G[s]]
  OBVIOUS
<1>8. IsSum(G, f, T)
  <2> HIDE DEF G
  <2>1. [s \in SUBSET T |-> G[s]]
          = [s \in SUBSET T |-> IF s = {} THEN 0 ELSE f[Pick(s)] + G[s \ {Pick(s)}]]
    BY <1>6
  <2> QED
    BY <1>7, <2>1, Zenon DEF IsSum
<1> QED
  BY <1>2, <1>8, Zenon

\* The library's sum, in terms of its function.
LEMMA SumIs ==
    ASSUME NEW f, NEW S
    PROVE  SumFunctionOnSet(f, S) = (CHOOSE g : IsSum(g, f, S))[S]
BY Zenon DEF SumFunctionOnSet, FoldFunctionOnSet, MapThenFoldSet, IsSum, Pick

\* It does not matter over which set the function was defined.
LEMMA SumOf ==
    ASSUME NEW f, NEW S, IsFiniteSet(S), NEW g, IsSum(g, f, S), NEW T \in SUBSET S
    PROVE  SumFunctionOnSet(f, T) = g[T]
<1>1. IsFiniteSet(T) /\ T \in SUBSET T
  BY FS_Subset
<1>2. PICK h : h = CHOOSE k : IsSum(k, f, T)
  OBVIOUS
<1>3. IsSum(h, f, T)
  BY <1>1, <1>2, SumExists, Zenon
<1>4. g[T] = h[T]
  BY <1>1, <1>3, SumUnique
<1> QED
  BY <1>2, <1>4, SumIs, Zenon

\* The empty sum.
LEMMA SumEmpty == ASSUME NEW f PROVE SumFunctionOnSet(f, {}) = 0
<1>1. IsFiniteSet({})
  BY FS_EmptySet, Zenon
<1>2. PICK g : IsSum(g, f, {})
  BY <1>1, SumExists, Zenon
<1>3. SumFunctionOnSet(f, {}) = g[{}]
  BY <1>1, <1>2, SumOf
<1> QED
  BY <1>2, <1>3, IsSumEmpty, Zenon

\* A sum, with the element taken first apart.
LEMMA SumPick ==
    ASSUME NEW f, NEW S, IsFiniteSet(S), S # {}
    PROVE  SumFunctionOnSet(f, S) = f[Pick(S)] + SumFunctionOnSet(f, S \ {Pick(S)})
<1>1. PICK g : IsSum(g, f, S)
  BY SumExists, Zenon
<1>2. g[S] = f[Pick(S)] + g[S \ {Pick(S)}]
  BY <1>1, IsSumAt
<1>3. SumFunctionOnSet(f, S) = g[S]
  BY <1>1, SumOf
<1>4. SumFunctionOnSet(f, S \ {Pick(S)}) = g[S \ {Pick(S)}]
  <2>1. S \ {Pick(S)} \in SUBSET S
    OBVIOUS
  <2> QED
    BY <1>1, <2>1, SumOf
<1> QED
  BY <1>2, <1>3, <1>4, Zenon

\* Sums of numbers are numbers.
LEMMA SumType ==
    ASSUME NEW f, NEW S, IsFiniteSet(S), \A x \in S : f[x] \in Nat
    PROVE  SumFunctionOnSet(f, S) \in Nat
<1> DEFINE B == {s \in SUBSET S : SumFunctionOnSet(f, s) \notin Nat}
<1> SUFFICES ASSUME B # {}
             PROVE  FALSE
  BY Zenon
<1>1. PICK s \in B : \A u \in B : u \subseteq s => u = s
  <2>1. B \subseteq SUBSET S
    OBVIOUS
  <2> HIDE DEF B
  <2> QED
    BY <2>1, SmallestSet
<1>2. s \in SUBSET S /\ SumFunctionOnSet(f, s) \notin Nat
  BY Zenon
<1>3. s # {}
  BY <1>2, SumEmpty
<1>4. /\ Pick(s) \in s /\ s \ {Pick(s)} \in SUBSET S
      /\ s \ {Pick(s)} \subseteq s /\ s \ {Pick(s)} # s /\ IsFiniteSet(s)
  BY <1>2, <1>3, Picked, FS_Subset
<1>5. SumFunctionOnSet(f, s \ {Pick(s)}) \in Nat
  BY <1>1, <1>4, Zenon
<1>6. f[Pick(s)] \in Nat
  BY <1>2, <1>4
<1> HIDE DEF B
<1>7. SumFunctionOnSet(f, s) = f[Pick(s)] + SumFunctionOnSet(f, s \ {Pick(s)})
  BY <1>3, <1>4, SumPick, Zenon
<1> QED
  BY <1>2, <1>5, <1>6, <1>7

\* Any element may be taken apart.
LEMMA SumRemove ==
    ASSUME NEW f, NEW S, IsFiniteSet(S), \A x \in S : f[x] \in Nat
    PROVE  \A x \in S : SumFunctionOnSet(f, S) = f[x] + SumFunctionOnSet(f, S \ {x})
<1> DEFINE Apart(s) == \A x \in s : SumFunctionOnSet(f, s) = f[x] + SumFunctionOnSet(f, s \ {x})
           B == {s \in SUBSET S : ~Apart(s)}
<1> SUFFICES ASSUME B # {}
             PROVE  FALSE
  BY Zenon
<1>1. PICK s \in B : \A u \in B : u \subseteq s => u = s
  <2>1. B \subseteq SUBSET S
    OBVIOUS
  <2> HIDE DEF B
  <2> QED
    BY <2>1, SmallestSet
<1>2. s \in SUBSET S /\ IsFiniteSet(s) /\ ~Apart(s)
  BY FS_Subset
<1>3. \A u \in SUBSET s : u # s => Apart(u) /\ IsFiniteSet(u)
  BY <1>1, <1>2, FS_Subset
<1>4. PICK x \in s : SumFunctionOnSet(f, s) # f[x] + SumFunctionOnSet(f, s \ {x})
  BY <1>2, Zenon
<1> PICK y : y = Pick(s)
  OBVIOUS
<1>5. y \in s /\ SumFunctionOnSet(f, s) = f[y] + SumFunctionOnSet(f, s \ {y})
  BY <1>2, <1>4, Picked, SumPick, Zenon
<1>6. x # y
  BY <1>4, <1>5
<1> PICK r : r = (s \ {x}) \ {y}
  OBVIOUS
<1>7. (s \ {y}) \ {x} = r /\ r \in SUBSET s /\ r # s
  BY <1>4
<1>8. SumFunctionOnSet(f, s \ {y}) = f[x] + SumFunctionOnSet(f, r)
  <2>1. s \ {y} \in SUBSET s /\ s \ {y} # s /\ x \in s \ {y}
    BY <1>4, <1>5, <1>6
  <2>2. Apart(s \ {y})
    BY <1>3, <2>1, Zenon
  <2> QED
    BY <1>7, <2>1, <2>2, Zenon
<1>9. SumFunctionOnSet(f, s \ {x}) = f[y] + SumFunctionOnSet(f, r)
  <2>1. s \ {x} \in SUBSET s /\ s \ {x} # s /\ y \in s \ {x}
    BY <1>4, <1>5, <1>6
  <2>2. Apart(s \ {x})
    BY <1>3, <2>1, Zenon
  <2> QED
    BY <2>1, <2>2, Zenon
<1>10. f[x] \in Nat /\ f[y] \in Nat /\ SumFunctionOnSet(f, r) \in Nat
  <2>1. r \subseteq S /\ x \in S /\ y \in S
    BY <1>2, <1>4, <1>5, <1>7
  <2> QED
    BY <1>3, <1>7, <2>1, SumType, Zenon
<1> HIDE DEF Apart, B
<1> QED
  BY <1>4, <1>5, <1>8, <1>9, <1>10

\* Equal values have equal sums.
LEMMA SumSame ==
    ASSUME NEW f, NEW g, NEW S, IsFiniteSet(S), \A x \in S : f[x] = g[x]
    PROVE  SumFunctionOnSet(f, S) = SumFunctionOnSet(g, S)
<1> DEFINE B == {s \in SUBSET S : SumFunctionOnSet(f, s) # SumFunctionOnSet(g, s)}
<1> SUFFICES ASSUME B # {}
             PROVE  FALSE
  BY Zenon
<1>1. PICK s \in B : \A u \in B : u \subseteq s => u = s
  <2>1. B \subseteq SUBSET S
    OBVIOUS
  <2> HIDE DEF B
  <2> QED
    BY <2>1, SmallestSet
<1>2. s \in SUBSET S /\ SumFunctionOnSet(f, s) # SumFunctionOnSet(g, s)
  BY Zenon
<1>3. s # {}
  BY <1>2, SumEmpty
<1>4. /\ Pick(s) \in s /\ s \ {Pick(s)} \in SUBSET S
      /\ s \ {Pick(s)} \subseteq s /\ s \ {Pick(s)} # s /\ IsFiniteSet(s)
  BY <1>2, <1>3, Picked, FS_Subset
<1>5. SumFunctionOnSet(f, s \ {Pick(s)}) = SumFunctionOnSet(g, s \ {Pick(s)})
  BY <1>1, <1>4, Zenon
<1>6. f[Pick(s)] = g[Pick(s)]
  BY <1>2, <1>4
<1> HIDE DEF B
<1>7. /\ SumFunctionOnSet(f, s) = f[Pick(s)] + SumFunctionOnSet(f, s \ {Pick(s)})
      /\ SumFunctionOnSet(g, s) = g[Pick(s)] + SumFunctionOnSet(g, s \ {Pick(s)})
  BY <1>3, <1>4, SumPick, Zenon
<1> QED
  BY <1>2, <1>5, <1>6, <1>7, Zenon

\* A sum over one set more.
LEMMA SumAdd ==
    ASSUME NEW f, NEW S, IsFiniteSet(S), NEW x, x \notin S, \A y \in S \cup {x} : f[y] \in Nat
    PROVE  SumFunctionOnSet(f, S \cup {x}) = SumFunctionOnSet(f, S) + f[x]
<1>1. IsFiniteSet(S \cup {x}) /\ (S \cup {x}) \ {x} = S /\ x \in S \cup {x}
  BY FS_AddElement
<1>2. SumFunctionOnSet(f, S \cup {x}) = f[x] + SumFunctionOnSet(f, S)
  BY <1>1, SumRemove
<1>3. f[x] \in Nat /\ SumFunctionOnSet(f, S) \in Nat
  BY SumType
<1> QED
  BY <1>2, <1>3

\* One value changed.
LEMMA SumChange ==
    ASSUME NEW f, NEW g, NEW S, IsFiniteSet(S), NEW x \in S,
           \A y \in S : f[y] \in Nat /\ g[y] \in Nat, \A y \in S \ {x} : g[y] = f[y]
    PROVE  SumFunctionOnSet(g, S) = SumFunctionOnSet(f, S) - f[x] + g[x]
<1>1. IsFiniteSet(S \ {x})
  BY FS_RemoveElement
<1>2. SumFunctionOnSet(f, S \ {x}) = SumFunctionOnSet(g, S \ {x})
  BY <1>1, SumSame
<1>3. /\ SumFunctionOnSet(f, S) = f[x] + SumFunctionOnSet(f, S \ {x})
      /\ SumFunctionOnSet(g, S) = g[x] + SumFunctionOnSet(g, S \ {x})
  BY SumRemove
<1>4. f[x] \in Nat /\ g[x] \in Nat /\ SumFunctionOnSet(f, S \ {x}) \in Nat
  BY <1>1, SumType
<1> QED
  BY <1>2, <1>3, <1>4

\* A sum of zeroes.
LEMMA SumZero ==
    ASSUME NEW f, NEW S, IsFiniteSet(S), \A x \in S : f[x] = 0
    PROVE  SumFunctionOnSet(f, S) = 0
<1> DEFINE B == {s \in SUBSET S : SumFunctionOnSet(f, s) # 0}
<1> SUFFICES ASSUME B # {}
             PROVE  FALSE
  BY Zenon
<1>1. PICK s \in B : \A u \in B : u \subseteq s => u = s
  <2>1. B \subseteq SUBSET S
    OBVIOUS
  <2> HIDE DEF B
  <2> QED
    BY <2>1, SmallestSet
<1>2. s \in SUBSET S /\ SumFunctionOnSet(f, s) # 0
  BY Zenon
<1>3. s # {}
  BY <1>2, SumEmpty, Zenon
<1>4. /\ Pick(s) \in s /\ s \ {Pick(s)} \in SUBSET S
      /\ s \ {Pick(s)} \subseteq s /\ s \ {Pick(s)} # s /\ IsFiniteSet(s)
  BY <1>2, <1>3, Picked, FS_Subset, Zenon
<1>5. SumFunctionOnSet(f, s \ {Pick(s)}) = 0
  BY <1>1, <1>4, Zenon
<1>6. f[Pick(s)] = 0
  BY <1>2, <1>4, Zenon
<1> HIDE DEF B
<1>7. SumFunctionOnSet(f, s) = f[Pick(s)] + SumFunctionOnSet(f, s \ {Pick(s)})
  BY <1>3, <1>4, SumPick, Zenon
<1> QED
  BY <1>2, <1>5, <1>6, <1>7

-----------------------------------------------------------------------------
(* The first state, and steps that leave the generations alone.            *)

\* With no bin bound and nothing under way the invariant holds.
LEMMA InitIInv == Init => IInv
<1> SUFFICES ASSUME Init PROVE IInv
  OBVIOUS
<1> USE CountPathAssumption DEF Init
<1>1. SlotOK
  BY DEF SlotOK
<1>2. OutboxOK
  BY DEF OutboxOK
<1>3. CoreOK
  BY DEF CoreOK, Epochs
<1>4. FlushFits /\ SlotBegun /\ RowsBegun /\ ReadBegun
  BY DEF FlushFits, SlotBegun, RowsBegun, ReadBegun
<1>5. NoticesBegun
  BY DEF NoticesBegun, Range
<1> QED
  BY <1>1, <1>2, <1>3, <1>4, <1>5, Zenon DEF IInv, TypesOK

\* Counting parts: handleCounterDelta.
LEMMA TickStep == IInv /\ (TickRead \/ TickApply) => IInv'
<1> SUFFICES ASSUME IInv, TickRead \/ TickApply PROVE IInv'
  OBVIOUS
<1>1. /\ UNCHANGED <<active, stamp, flusher, todo, snap, seqNo, out, sent, batch, wire, at,
                     epoch, uop, last, repaired, handling, sending, down>>
  BY Zenon DEF TickRead, TickApply, slot, accumulator, outbox, drainer, bins, inbox
<1>2. OutboxOK' /\ CoreOK' /\ RowsBegun' /\ NoticesBegun' /\ ReadBegun'
  BY <1>1, Zenon DEF IInv, TypesOK, OutboxOK, CoreOK, RowsBegun, NoticesBegun, ReadBegun, Begun
<1>3. SlotOK' /\ FlushFits' /\ SlotBegun'
  <2>1. CASE TickRead
    <3>1. tick' = {[bin |-> active, epoch |-> stamp, held |-> held]}
          /\ UNCHANGED <<held, acc>>
      BY <2>1, Zenon DEF TickRead, slot, accumulator
    <3> QED
      BY <1>1, <3>1 DEF IInv, TypesOK, SlotOK, FlushFits, SlotBegun, Begun
  <2>2. CASE TickApply
    <3>1. PICK t \in tick :
            /\ held' \in {held + 1, 0, held}
            /\ IF t.bin = None THEN UNCHANGED acc
               ELSE acc' = [acc EXCEPT ![t.bin] = RecordBin(@, 1 + t.held, t.epoch)]
      BY <2>2, Zenon DEF TickApply, TickHold, TickCharge
    <3>2. tick' = {}
      BY <2>2, Zenon DEF TickApply
    <3>3. t.bin \in Bins \cup {None} /\ t.epoch \in 0..MaxEpoch /\ t.held \in Nat
      BY Zenon DEF IInv, TypesOK, SlotOK
    <3>4. CASE t.bin = None
      BY <1>1, <3>1, <3>2, <3>4 DEF IInv, TypesOK, SlotOK, FlushFits, SlotBegun, Begun
    <3>5. CASE t.bin # None
      <4> DEFINE r == RecordBin(acc[t.bin], 1 + t.held, t.epoch)
      <4>1. t.bin \in Bins /\ acc[t.bin] \in [delta : Nat, epoch : 0..MaxEpoch]
        BY <3>3, <3>5, Zenon DEF IInv, TypesOK, SlotOK
      <4>2. Begun(t.bin, t.epoch)
            /\ (acc[t.bin].delta # 0 => Begun(t.bin, acc[t.bin].epoch))
        BY <3>5, <4>1, Zenon DEF IInv, SlotBegun
      <4>3. /\ r \in [delta : Nat, epoch : 0..MaxEpoch] /\ r.delta >= acc[t.bin].delta
            /\ Begun(t.bin, r.epoch)
        BY <3>3, <4>1, <4>2 DEF RecordBin, Greater
      <4>4. acc' = [acc EXCEPT ![t.bin] = r] /\ held' \in Nat
        BY <3>1, <3>5 DEF IInv, TypesOK, SlotOK
      <4>5. acc' \in [Bins -> [delta : Nat, epoch : 0..MaxEpoch]]
            /\ acc'[t.bin] = r /\ \A b \in Bins : b # t.bin => acc'[b] = acc[b]
        BY <4>1, <4>3, <4>4, Zenon DEF IInv, TypesOK, SlotOK
      <4>6. SlotOK'
        BY <1>1, <3>2, <4>4, <4>5, Zenon DEF IInv, TypesOK, SlotOK
      <4>7. FlushFits'
        BY <1>1, <4>1, <4>3, <4>5 DEF IInv, TypesOK, SlotOK, FlushFits
      <4>8. SlotBegun'
        BY <1>1, <3>2, <4>3, <4>5, Zenon DEF IInv, SlotBegun, Begun
      <4> QED
        BY <4>6, <4>7, <4>8, Zenon
    <3> QED
      BY <3>4, <3>5, Zenon
  <2> QED
    BY <2>1, <2>2, Zenon
<1> QED
  BY <1>2, <1>3, Zenon DEF IInv, TypesOK

\* A pass of the flush: flushBins, and the unbinding of HandleBinPickedUp.
LEMMA FlushKept == IInv /\ (FlushLoop \/ FlushStep \/ FlushSendFails) => IInv'
<1> SUFFICES ASSUME IInv, FlushLoop \/ FlushStep \/ FlushSendFails PROVE IInv'
  OBVIOUS
<1>1. UNCHANGED <<stamp, held, tick, sent, batch, wire, at, epoch, uop, last, repaired,
                  handling, sending, down>>
  BY Zenon DEF FlushLoop, FlushStep, FlushSnapshot, FlushSend, FlushSendFails, FlushCommit,
         FlushEnd, slot, accumulator, outbox, drainer, bins, inbox
<1>2. NoticesBegun'
  BY <1>1, Zenon DEF IInv, NoticesBegun, Begun
<1>3. CASE FlushLoop \/ FlushEnd
  <2>1. /\ UNCHANGED <<acc, snap, seqNo, out>> /\ todo' \subseteq Bins
        /\ flusher' \in Bins \cup {None, Loop} /\ active' \in {active, None}
    BY <1>3, Zenon DEF FlushLoop, FlushEnd, StartFlush, slot, outbox, IInv, TypesOK, SlotOK
  <2>2. TypesOK'
    BY <1>1, <2>1, Zenon DEF IInv, TypesOK, SlotOK, OutboxOK, CoreOK
  <2> QED
    BY <1>1, <1>2, <2>1, <2>2, Zenon
    DEF IInv, FlushFits, SlotBegun, RowsBegun, ReadBegun, Begun
<1>4. ASSUME NEW b \in Bins, FlushSnapshot(b) PROVE IInv'
  <2>1. /\ UNCHANGED <<active, acc, flusher, seqNo, out>> /\ todo' \subseteq Bins
        /\ snap' = IF acc[b].delta = 0 THEN {}
                   ELSE {[bin |-> b, delta |-> acc[b].delta, epoch |-> acc[b].epoch,
                          queued |-> FALSE]}
    BY <1>4, Zenon DEF FlushSnapshot, slot, outbox, IInv, TypesOK, SlotOK
  <2>2. /\ acc[b].delta \in Nat /\ acc[b].epoch \in 0..MaxEpoch
        /\ acc[b].delta # 0 => Begun(b, acc[b].epoch)
    BY Zenon DEF IInv, TypesOK, SlotOK, SlotBegun
  <2>3. epoch[b] \in Epochs
    BY Zenon DEF IInv, TypesOK, CoreOK
  <2> DEFINE e == [bin |-> b, delta |-> acc[b].delta, epoch |-> acc[b].epoch,
                   queued |-> FALSE]
  <2>4. acc[b].delta # 0 =>
             e \in [bin : Bins, delta : Nat, epoch : Epochs, queued : BOOLEAN]
    BY <2>2, <2>3 DEF Begun, Epochs
  <2>5. snap' = {} \/ (acc[b].delta # 0 /\ snap' = {e})
    BY <2>1, Zenon
  <2>6. e.bin = b /\ e.delta = acc[b].delta
    OBVIOUS
  <2> HIDE DEF e
  <2>7. SlotOK'
    <3>1. snap' \subseteq [bin : Bins, delta : Nat, epoch : Epochs, queued : BOOLEAN]
      BY <2>4, <2>5, Zenon
    <3> QED
      BY <1>1, <2>1, <3>1, Zenon DEF IInv, TypesOK, SlotOK
  <2>8. OutboxOK' /\ CoreOK' /\ RowsBegun' /\ ReadBegun'
    BY <1>1, <2>1, Zenon DEF IInv, TypesOK, OutboxOK, CoreOK, RowsBegun, ReadBegun, Begun
  <2>9. FlushFits'
    BY <2>1, <2>2, <2>5, <2>6 DEF FlushFits
  <2>10. SlotBegun'
    BY <1>1, <2>1, <2>2 DEF IInv, SlotBegun, Begun
  <2> QED
    BY <1>2, <2>7, <2>8, <2>9, <2>10, Zenon DEF IInv, TypesOK
<1>5. CASE FlushSend
  <2>1. PICK s \in snap :
          /\ Allocate(s.bin, s.epoch)
          /\ out' = Append(out, [bin |-> s.bin, delta |-> s.delta, epoch |-> s.epoch,
                                 seq |-> seqNo[s.bin][s.epoch] + 1])
          /\ snap' = {[s EXCEPT !.queued = TRUE]}
    BY <1>5, Zenon DEF FlushSend
  <2>2. UNCHANGED <<active, acc, flusher, todo>>
    BY <1>5, Zenon DEF FlushSend, slot
  <2>3. s \in [bin : Bins, delta : Nat, epoch : Epochs, queued : BOOLEAN]
    BY Zenon DEF IInv, TypesOK, SlotOK
  <2> DEFINE d == [bin |-> s.bin, delta |-> s.delta, epoch |-> s.epoch,
                   seq |-> seqNo[s.bin][s.epoch] + 1]
  <2>4. d \in Delta /\ seqNo' \in [Bins -> [Epochs -> Nat]]
    BY <2>1, <2>3 DEF Delta, Allocate, IInv, TypesOK, OutboxOK
  <2>5. /\ out' \in Seq(Delta) /\ DOMAIN out \subseteq DOMAIN out'
        /\ \A i \in DOMAIN out : out'[i] = out[i]
        /\ \A i \in DOMAIN out' : i \in DOMAIN out \/ out'[i] = d
    <3>1. out \in Seq(Delta)
      BY Zenon DEF IInv, TypesOK, OutboxOK
    <3>2. out' = Append(out, d)
      BY <2>1, Zenon
    <3> HIDE DEF d
    <3>3. /\ Append(out, d) \in Seq(Delta) /\ Len(Append(out, d)) = Len(out) + 1
          /\ Append(out, d)[Len(out) + 1] = d
          /\ \A i \in 1..Len(out) : Append(out, d)[i] = out[i]
      BY <2>4, <3>1
    <3> QED
      BY <3>1, <3>2, <3>3
  <2>6. OutboxOK'
    <3>1. wire' \in Seq(DOMAIN out')
      <4>1. wire \in Seq(DOMAIN out)
        BY Zenon DEF IInv, TypesOK, OutboxOK
      <4> QED
        BY <1>1, <2>5, <4>1
    <3> QED
      BY <1>1, <2>4, <2>5, <3>1, Zenon DEF IInv, TypesOK, OutboxOK
  <2>7. SlotOK' /\ CoreOK'
    BY <1>1, <2>1, <2>2, <2>3, <2>5, Zenon DEF IInv, TypesOK, SlotOK, CoreOK
  <2>8. FlushFits' /\ SlotBegun'
    BY <1>1, <2>1, <2>2, <2>3, Zenon DEF IInv, FlushFits, SlotBegun, Begun
  <2>9. RowsBegun' /\ ReadBegun'
    <3>1. Begun(d.bin, d.epoch)
      BY Zenon DEF IInv, SlotBegun
    <3>2. \A h \in handling : h.row \in DOMAIN out
      BY Zenon DEF IInv, TypesOK, CoreOK
    <3> HIDE DEF d
    <3> QED
      BY <1>1, <2>5, <3>1, <3>2, Zenon DEF IInv, RowsBegun, ReadBegun, Begun
  <2> QED
    BY <1>2, <2>6, <2>7, <2>8, <2>9, Zenon DEF IInv, TypesOK
<1>6. CASE FlushSendFails
  <2>1. PICK s \in snap : Allocate(s.bin, s.epoch)
    BY <1>6, Zenon DEF FlushSendFails
  <2>2. UNCHANGED <<active, acc, flusher, todo, out>> /\ snap' = {}
    BY <1>6, Zenon DEF FlushSendFails, slot
  <2>3. s.bin \in Bins /\ s.epoch \in Epochs
    BY Zenon DEF IInv, TypesOK, SlotOK
  <2>4. seqNo' \in [Bins -> [Epochs -> Nat]]
    BY <2>1, <2>3 DEF Allocate, IInv, TypesOK, OutboxOK
  <2>5. TypesOK'
    BY <1>1, <2>2, <2>4, Zenon DEF IInv, TypesOK, SlotOK, OutboxOK, CoreOK
  <2> QED
    BY <1>1, <1>2, <2>2, <2>5, Zenon DEF IInv, FlushFits, SlotBegun, RowsBegun, ReadBegun, Begun
<1>7. CASE FlushCommit
  <2>1. PICK s \in snap : acc' = [acc EXCEPT ![s.bin].delta = @ - s.delta]
    BY <1>7, Zenon DEF FlushCommit
  <2>2. UNCHANGED <<active, flusher, todo, seqNo, out>> /\ snap' = {}
    BY <1>7, Zenon DEF FlushCommit, slot, outbox
  <2>3. /\ s.bin \in Bins /\ s.delta \in Nat /\ s.delta <= acc[s.bin].delta
        /\ acc \in [Bins -> [delta : Nat, epoch : 0..MaxEpoch]]
        /\ Begun(s.bin, s.epoch)
    BY Zenon DEF IInv, TypesOK, SlotOK, FlushFits, SlotBegun
  <2>4. /\ acc' \in [Bins -> [delta : Nat, epoch : 0..MaxEpoch]]
        /\ acc'[s.bin].epoch = acc[s.bin].epoch
        /\ acc'[s.bin].delta = acc[s.bin].delta - s.delta
        /\ \A b \in Bins : b # s.bin => acc'[b] = acc[b]
    BY <2>1, <2>3
  <2>5. TypesOK'
    BY <1>1, <2>2, <2>4, Zenon DEF IInv, TypesOK, SlotOK, OutboxOK, CoreOK
  <2>6. SlotBegun'
    <3>1. ASSUME NEW b \in Bins, acc'[b].delta # 0 PROVE Begun(b, acc'[b].epoch)
      <4>1. acc[b].delta # 0
        BY <2>3, <2>4, <3>1
      <4> QED
        BY <2>4, <4>1, Zenon DEF IInv, SlotBegun
    <3> QED
      BY <1>1, <2>2, <3>1, Zenon DEF IInv, SlotBegun, Begun
  <2> QED
    BY <1>1, <1>2, <2>2, <2>5, <2>6, Zenon DEF IInv, FlushFits, RowsBegun, ReadBegun, Begun
<1> QED
  BY <1>3, <1>4, <1>5, <1>6, <1>7, Zenon DEF FlushStep

\* The drainer moves rows that exist.
LEMMA DrainKept ==
    IInv /\ (DrainBegin \/ \E i \in batch : Publish(i) \/ PublishUnacked(i) \/ PublishFails(i))
    => IInv'
<1> SUFFICES ASSUME IInv, DrainBegin
                          \/ \E i \in batch : Publish(i) \/ PublishUnacked(i) \/ PublishFails(i)
             PROVE IInv'
  OBVIOUS
<1>1. UNCHANGED <<active, stamp, held, acc, flusher, todo, snap, tick, seqNo, out, at, epoch,
                  uop, last, repaired, handling, sending, down>>
  BY Zenon DEF DrainBegin, Publish, PublishUnacked, PublishFails, Drained, slot, accumulator,
         outbox, bins, inbox
<1>2. /\ sent' \subseteq DOMAIN out /\ batch' \subseteq DOMAIN out
      /\ wire' \in Seq(DOMAIN out)
  <2>1. sent \subseteq DOMAIN out /\ batch \subseteq DOMAIN out /\ wire \in Seq(DOMAIN out)
    BY Zenon DEF IInv, TypesOK, OutboxOK
  <2>2. CASE DrainBegin
    BY <2>1, <2>2, Zenon DEF DrainBegin, Unsent
  <2>3. ASSUME NEW i \in batch, Publish(i) \/ PublishUnacked(i) \/ PublishFails(i)
        PROVE <1>2!:
    <3>1. /\ sent' \in {sent, sent \cup {i}} /\ batch' = batch \ {i}
          /\ wire' \in {wire, Append(wire, i)}
      BY <2>3, Zenon DEF Publish, PublishUnacked, PublishFails, Drained
    <3>2. Append(wire, i) \in Seq(DOMAIN out)
      BY <2>1, Appending, Zenon
    <3> QED
      BY <2>1, <3>1, <3>2, Zenon
  <2> QED
    BY <2>2, <2>3, Zenon
<1>3. TypesOK'
  BY <1>1, <1>2, Zenon DEF IInv, TypesOK, SlotOK, OutboxOK, CoreOK
<1> QED
  BY <1>1, <1>3, Zenon DEF IInv, FlushFits, SlotBegun, RowsBegun, NoticesBegun, ReadBegun, Begun

-----------------------------------------------------------------------------
(* Core's steps: generations only grow.                                    *)

EpochsGrow == epoch' \in [Bins -> Epochs] /\ \A b \in Bins : epoch[b] <= epoch'[b]

\* A generation that was begun stays begun.
LEMMA StaysBegun ==
    ASSUME CoreOK, EpochsGrow, NEW b \in Bins, NEW e, Begun(b, e) PROVE e \in 1..epoch'[b]
<1>1. epoch[b] \in Int /\ epoch'[b] \in Int /\ epoch[b] <= epoch'[b]
  BY CountPathAssumption DEF CoreOK, EpochsGrow, Epochs
<1> QED
  BY <1>1 DEF Begun

\* A step of Core leaves Edge's half of the invariant as it is.
LEMMA EdgeHalf ==
    ASSUME IInv, EpochsGrow,
           UNCHANGED <<active, stamp, held, acc, flusher, todo, snap, tick, out>>
    PROVE  SlotOK' /\ FlushFits' /\ SlotBegun' /\ RowsBegun'
<1>1. SlotOK' /\ FlushFits'
  BY Zenon DEF IInv, TypesOK, SlotOK, FlushFits
<1>2. CoreOK /\ SlotOK /\ OutboxOK
  BY Zenon DEF IInv, TypesOK
<1>3. SlotBegun'
  <2>1. active # None => stamp \in 1..epoch'[active]
    BY <1>2, StaysBegun, Zenon DEF IInv, SlotBegun, SlotOK
  <2>2. \A t \in tick : t.bin # None => t.epoch \in 1..epoch'[t.bin]
    BY <1>2, StaysBegun, Zenon DEF IInv, SlotBegun, SlotOK
  <2>3. \A b \in Bins : acc[b].delta # 0 => acc[b].epoch \in 1..epoch'[b]
    BY <1>2, StaysBegun, Zenon DEF IInv, SlotBegun
  <2>4. \A s \in snap : s.epoch \in 1..epoch'[s.bin]
    BY <1>2, StaysBegun, Zenon DEF IInv, SlotBegun, SlotOK
  <2>5. (\A b \in Bins : acc[b].delta # 0 => Begun(b, acc[b].epoch))'
    BY <2>3, Zenon DEF Begun
  <2>6. (active # None => Begun(active, stamp))'
    BY <2>1, Zenon DEF Begun
  <2>7. (\A t \in tick : t.bin # None => Begun(t.bin, t.epoch))'
    BY <2>2, Zenon DEF Begun
  <2>8. (\A s \in snap : Begun(s.bin, s.epoch))'
    BY <2>4, Zenon DEF Begun
  <2> QED
    BY <2>5, <2>6, <2>7, <2>8, Zenon DEF SlotBegun
<1>4. RowsBegun'
  <2>1. \A i \in DOMAIN out : out[i].bin \in Bins
    <3>1. out \in Seq(Delta) /\ \A d \in Delta : d.bin \in Bins
      BY <1>2, Zenon DEF OutboxOK, Delta
    <3> QED
      BY <3>1
  <2>2. \A i \in DOMAIN out : out[i].epoch \in 1..epoch'[out[i].bin]
    BY <1>2, <2>1, StaysBegun, Zenon DEF IInv, RowsBegun
  <2> QED
    BY <2>2, Zenon DEF RowsBegun, Begun
<1> QED
  BY <1>1, <1>3, <1>4, Zenon

\* What the invariant asks of a notice, in this state and in the next.
Fine(n) == n \in Message /\ (n.kind # "picked_up" => n.epoch \in 1..epoch[n.bin])
FineNext(n) == n \in Message /\ (n.kind # "picked_up" => n.epoch \in 1..epoch'[n.bin])

\* The notices of the invariant.
LEMMA NoticesFine ==
    ASSUME IInv PROVE \A n \in Range(down) \cup sending : Fine(n)
<1>1. down \in Seq(Message) /\ sending \subseteq Message
  BY Zenon DEF IInv, TypesOK, CoreOK
<1>2. Range(down) \subseteq Message
  BY <1>1 DEF Range
<1> QED
  BY <1>1, <1>2, Zenon DEF IInv, NoticesBegun, Fine, Begun

\* They stay fine while generations grow.
LEMMA FineKept ==
    ASSUME IInv, EpochsGrow PROVE \A n \in Range(down) \cup sending : FineNext(n)
<1> SUFFICES ASSUME NEW n \in Range(down) \cup sending PROVE FineNext(n)
  OBVIOUS
<1>1. Fine(n) /\ CoreOK
  BY NoticesFine, Zenon DEF IInv, TypesOK
<1>2. n \in Message /\ n.bin \in Bins
  BY <1>1, Zenon DEF Fine, Message
<1>3. n.kind # "picked_up" => n.epoch \in 1..epoch'[n.bin]
  BY <1>1, <1>2, StaysBegun, Zenon DEF Fine, Begun
<1> QED
  BY <1>2, <1>3, Zenon DEF FineNext

\* bumpEpoch: the new generation is announced as begun.
LEMMA LifeStarts ==
    ASSUME IInv, NEW b \in Bins, StartLife(b)
    PROVE  /\ EpochsGrow /\ down' \in Seq(Message)
           /\ \A n \in Range(down') : FineNext(n)
<1>1. epoch \in [Bins -> Epochs] /\ down \in Seq(Message)
  BY Zenon DEF IInv, TypesOK, CoreOK
<1>2. epoch[b] \in 1..MaxEpoch /\ epoch[b] < MaxEpoch /\ MaxEpoch \in Nat
  BY <1>1, CountPathAssumption, Zenon DEF StartLife, Epochs
<1>3. epoch' = [epoch EXCEPT ![b] = @ + 1] /\ epoch'[b] = epoch[b] + 1
  BY <1>1, Zenon DEF StartLife
<1>4. EpochsGrow
  BY <1>1, <1>2, <1>3, CountPathAssumption DEF EpochsGrow, Epochs
<1> PICK m : m = Notice("lifecycle", b, epoch[b] + 1)
  OBVIOUS
<1>5. m \in Message /\ FineNext(m)
  BY <1>2, <1>3 DEF Notice, Message, Kinds, FineNext
<1>6. down' = down \/ down' = Append(down, m)
  BY Zenon DEF StartLife
<1>7. down' \in Seq(Message) /\ Range(down') \subseteq Range(down) \cup {m}
  <2>1. Append(down, m) \in Seq(Message) /\ Range(Append(down, m)) = Range(down) \cup {m}
    BY <1>1, <1>5, Appending
  <2> QED
    BY <1>1, <1>6, <2>1, Zenon
<1> QED
  BY <1>4, <1>5, <1>7, FineKept, Zenon

\* What a step of Core has to show.
LEMMA CoreFrame ==
    ASSUME IInv, EpochsGrow,
           UNCHANGED <<active, stamp, held, acc, flusher, todo, snap, tick, seqNo, out, sent,
                       batch>>,
           wire' \in Seq(DOMAIN out), at' \in Bins \cup {None}, uop' \in [Bins -> Int],
           last' \in [Bins -> [Epochs -> Nat]], repaired' \in [Bins -> 0..MaxEpoch],
           handling' \subseteq [row : DOMAIN out, seen : Epochs], ReadBegun',
           down' \in Seq(Message), \A n \in Range(down') \cup sending' : FineNext(n)
    PROVE  IInv'
<1>1. SlotOK' /\ FlushFits' /\ SlotBegun' /\ RowsBegun'
  BY EdgeHalf, Zenon
<1>2. OutboxOK'
  BY Zenon DEF IInv, TypesOK, OutboxOK
<1>3. sending' \subseteq Message
  BY Zenon DEF FineNext
<1>4. CoreOK'
  BY <1>3, Zenon DEF CoreOK, EpochsGrow
<1>5. NoticesBegun'
  BY Zenon DEF NoticesBegun, FineNext, Begun
<1> QED
  BY <1>1, <1>2, <1>4, <1>5, Zenon DEF IInv, TypesOK

\* What the invariant says of Core's variables.
LEMMA CoreTyped ==
    ASSUME IInv
    PROVE  /\ wire \in Seq(DOMAIN out) /\ at \in Bins \cup {None} /\ uop \in [Bins -> Int]
           /\ epoch \in [Bins -> Epochs] /\ last \in [Bins -> [Epochs -> Nat]]
           /\ repaired \in [Bins -> 0..MaxEpoch]
           /\ handling \subseteq [row : DOMAIN out, seen : Epochs]
           /\ down \in Seq(Message) /\ \A b \in Bins : epoch[b] \in 1..MaxEpoch
           /\ \A i \in DOMAIN out : out[i] \in Delta
<1>1. out \in Seq(Delta)
  BY Zenon DEF IInv, TypesOK, OutboxOK
<1>2. \A i \in DOMAIN out : out[i] \in Delta
  BY <1>1
<1> QED
  BY <1>2, Zenon DEF IInv, TypesOK, OutboxOK, CoreOK, Epochs

\* A step that touches neither Core's consumer nor the rows keeps what was read.
LEMMA ReadKept ==
    ASSUME IInv, EpochsGrow, UNCHANGED out, handling' \subseteq handling PROVE ReadBegun'
<1>1. \A h \in handling : out[h.row].bin \in Bins /\ Begun(out[h.row].bin, h.seen)
  BY CoreTyped, Zenon DEF IInv, ReadBegun, Delta
<1>2. CoreOK
  BY Zenon DEF IInv, TypesOK
<1>3. \A h \in handling : h.seen \in 1..epoch'[out[h.row].bin]
  BY <1>1, <1>2, StaysBegun, Zenon
<1> QED
  BY <1>3, Zenon DEF ReadBegun, Begun

\* Resets, arrivals, pickups and counts by hand.
LEMMA HandlerKept ==
    ASSUME IInv, NEW b \in Bins, Reset(b) \/ Arrive(b) \/ PickUp(b) \/ RecordCount(b)
    PROVE  IInv'
<1>1. UNCHANGED <<active, stamp, held, acc, flusher, todo, snap, tick, seqNo, out, sent,
                  batch, wire, last, repaired, handling>>
  BY Zenon DEF Reset, Arrive, PickUp, RecordCount, slot, accumulator, outbox, drainer, inbox
<1>2. at' \in Bins \cup {None} /\ uop' \in [Bins -> Int]
  BY CoreTyped DEF Reset, Arrive, PickUp, RecordCount, Declare
<1>3. CASE Reset(b)
  <2>1. StartLife(b) /\ UNCHANGED sending
    BY <1>3, Zenon DEF Reset
  <2>2. EpochsGrow /\ down' \in Seq(Message) /\ \A n \in Range(down') : FineNext(n)
    BY <2>1, LifeStarts, Zenon
  <2>3. \A n \in Range(down') \cup sending' : FineNext(n)
    BY <2>1, <2>2, FineKept, Zenon
  <2>4. ReadBegun'
    BY <1>1, <2>2, ReadKept, Zenon
  <2> QED
    BY <1>1, <1>2, <2>2, <2>3, <2>4, CoreTyped, CoreFrame, Zenon
<1>4. CASE Arrive(b) \/ PickUp(b) \/ RecordCount(b)
  <2>1. PICK n : /\ n \in {Notice("delivered", b, epoch[b]), Notice("picked_up", b, 0),
                           Notice("correction", b, epoch[b])}
                 /\ sending' = {n}
    BY <1>4, Zenon DEF Arrive, PickUp, RecordCount, ThenSend
  <2>2. UNCHANGED <<epoch, down>>
    BY <1>4, Zenon DEF Arrive, PickUp, RecordCount
  <2>3. EpochsGrow
    BY <2>2, CoreTyped DEF EpochsGrow, Epochs
  <2>4. FineNext(n)
    <3>1. epoch[b] \in 1..MaxEpoch /\ epoch'[b] = epoch[b] /\ MaxEpoch \in Nat
      BY <2>2, CoreTyped, CountPathAssumption, Zenon
    <3>2. CASE n = Notice("picked_up", b, 0)
      BY <3>1, <3>2 DEF FineNext, Notice, Message, Kinds
    <3>3. CASE n = Notice("delivered", b, epoch[b])
      BY <3>1, <3>3 DEF FineNext, Notice, Message, Kinds
    <3>4. CASE n = Notice("correction", b, epoch[b])
      BY <3>1, <3>4 DEF FineNext, Notice, Message, Kinds
    <3> QED
      BY <2>1, <3>2, <3>3, <3>4, Zenon
  <2>5. \A m \in Range(down') \cup sending' : FineNext(m)
    BY <2>1, <2>2, <2>3, <2>4, FineKept, Zenon
  <2>6. ReadBegun'
    BY <1>1, <2>3, ReadKept, Zenon
  <2> QED
    BY <1>1, <1>2, <2>2, <2>3, <2>5, <2>6, CoreTyped, CoreFrame, Zenon
<1> QED
  BY <1>3, <1>4, Zenon

\* The outbox insert after a handler's commit.
LEMMA SendKept == ASSUME IInv, SendDataToEdge PROVE IInv'
<1>1. UNCHANGED <<active, stamp, held, acc, flusher, todo, snap, tick, seqNo, out, sent,
                  batch, wire, at, epoch, uop, last, repaired, handling>>
  BY Zenon DEF SendDataToEdge, slot, accumulator, outbox, drainer, bins, inbox
<1>2. PICK n \in sending : down' = Append(down, n) /\ sending' = {}
  BY Zenon DEF SendDataToEdge
<1>3. EpochsGrow
  BY <1>1, CoreTyped DEF EpochsGrow, Epochs
<1>4. FineNext(n) /\ n \in Message
  BY <1>3, FineKept, Zenon DEF FineNext
<1>5. down' \in Seq(Message) /\ Range(down') = Range(down) \cup {n}
  BY <1>2, <1>4, CoreTyped, Appending
<1>6. \A m \in Range(down') \cup sending' : FineNext(m)
  BY <1>2, <1>3, <1>4, <1>5, FineKept, Zenon
<1>7. ReadBegun'
  BY <1>1, <1>3, ReadKept, Zenon
<1> QED
  BY <1>1, <1>3, <1>5, <1>6, <1>7, CoreTyped, CoreFrame, Zenon

\* Core's consumer takes a row and reads the generation.
LEMMA ReadEpochKept == ASSUME IInv, ReadEpoch PROVE IInv'
<1>1. /\ UNCHANGED <<active, stamp, held, acc, flusher, todo, snap, tick, seqNo, out, sent,
                     batch, at, epoch, uop, last, repaired, sending, down>>
      /\ wire # <<>> /\ wire' = Tail(wire)
      /\ handling' = {[row |-> Head(wire), seen |-> epoch[out[Head(wire)].bin]]}
  BY Zenon DEF ReadEpoch, slot, accumulator, outbox, drainer, bins
<1>2. EpochsGrow
  BY <1>1, CoreTyped DEF EpochsGrow, Epochs
<1>3. wire' \in Seq(DOMAIN out) /\ Head(wire) \in DOMAIN out
  BY <1>1, CoreTyped, Taking, Zenon
<1>4. out[Head(wire)].bin \in Bins
  BY <1>3, CoreTyped, Zenon DEF Delta
<1>5. epoch[out[Head(wire)].bin] \in Epochs /\ epoch[out[Head(wire)].bin] \in 1..MaxEpoch
  BY <1>4, CoreTyped, Zenon
<1>6. handling' \subseteq [row : DOMAIN out, seen : Epochs]
  <2>1. [row |-> Head(wire), seen |-> epoch[out[Head(wire)].bin]] \in [row : DOMAIN out, seen : Epochs]
    BY <1>3, <1>5, Zenon
  <2> QED
    BY <1>1, <2>1, Zenon
<1>7. ReadBegun'
  <2>1. \A h \in handling' :
            h.row = Head(wire) /\ h.seen = epoch[out[Head(wire)].bin]
    BY <1>1
  <2>2. ASSUME NEW e \in 1..MaxEpoch PROVE e \in 1..e
    BY CountPathAssumption
  <2>3. ASSUME NEW h \in handling' PROVE h.seen \in 1..epoch[out[h.row].bin]
    BY <1>5, <2>1, <2>2, Zenon
  <2> QED
    BY <1>1, <2>3, Zenon DEF ReadBegun, Begun
<1>8. \A n \in Range(down') \cup sending' : FineNext(n)
  BY <1>1, <1>2, FineKept, Zenon
<1> QED
  BY <1>1, <1>2, <1>3, <1>6, <1>7, <1>8, CoreTyped, CoreFrame, Zenon

\* The outcomes of ApplyBinUOPDelta.
LEMMA HandlesKept == ASSUME IInv, CoreHandles PROVE IInv'
<1>1. PICK h \in handling : DiscardStale(h) \/ SkipReplay(h) \/ RejectPayload(h) \/ Apply(h)
  BY Zenon DEF CoreHandles
<1>2. Handled(h)
  BY <1>1, Zenon DEF DiscardStale, SkipReplay, RejectPayload, Apply
<1>3. /\ UNCHANGED <<active, stamp, held, acc, flusher, todo, snap, tick, seqNo, out, sent,
                     batch, wire, at, sending>>
      /\ handling' = {}
  BY <1>2, Zenon DEF Handled, slot, accumulator, outbox, drainer
<1> PICK d : d = out[h.row]
  OBVIOUS
<1>4. h.row \in DOMAIN out /\ h.seen \in Epochs /\ d \in Delta /\ d.bin \in Bins
      /\ Begun(d.bin, h.seen)
  BY CoreTyped, Zenon DEF Delta, IInv, ReadBegun
<1>5. ReadBegun' /\ handling' \subseteq [row : DOMAIN out, seen : Epochs]
  BY <1>3, Zenon DEF ReadBegun
<1>6. CASE DiscardStale(h)
  <2>1. UNCHANGED <<epoch, uop, last>> /\ RepairEpoch(d, h.seen)
    BY <1>6, Zenon DEF DiscardStale
  <2>2. EpochsGrow
    BY <2>1, CoreTyped DEF EpochsGrow, Epochs
  <2> PICK m : m = Notice("refresh", d.bin, h.seen)
    OBVIOUS
  <2>3. FineNext(m) /\ m \in Message
    BY <1>4, <2>1, CoreTyped, CountPathAssumption
    DEF FineNext, Notice, Message, Kinds, Begun, Epochs
  <2>4. Append(down, m) \in Seq(Message) /\ Range(Append(down, m)) = Range(down) \cup {m}
    BY <2>3, CoreTyped, Appending
  <2>5. down' \in {down, Append(down, m)} /\ repaired' \in [Bins -> 0..MaxEpoch]
    <3>1. h.seen \in 0..MaxEpoch
      BY <1>4, CountPathAssumption DEF Epochs
    <3>2. /\ down' \in {down, Append(down, m)}
          /\ repaired' = [repaired EXCEPT ![d.bin] = h.seen]
      BY <2>1, Zenon DEF RepairEpoch
    <3>3. repaired \in [Bins -> 0..MaxEpoch]
      BY CoreTyped, Zenon
    <3> QED
      BY <1>4, <3>1, <3>2, <3>3, Zenon
  <2>6. down' \in Seq(Message) /\ \A n \in Range(down') \cup sending' : FineNext(n)
    BY <1>3, <2>2, <2>3, <2>4, <2>5, CoreTyped, FineKept, Zenon
  <2> QED
    BY <1>3, <1>5, <2>1, <2>2, <2>5, <2>6, CoreTyped, CoreFrame, Zenon
<1>7. CASE SkipReplay(h) \/ RejectPayload(h)
  <2>1. UNCHANGED <<epoch, uop, last, repaired, down>>
    BY <1>7, Zenon DEF SkipReplay, RejectPayload
  <2>2. EpochsGrow
    BY <2>1, CoreTyped DEF EpochsGrow, Epochs
  <2>3. \A n \in Range(down') \cup sending' : FineNext(n)
    BY <1>3, <2>1, <2>2, FineKept, Zenon
  <2> QED
    BY <1>3, <1>5, <2>1, <2>2, <2>3, CoreTyped, CoreFrame, Zenon
<1>8. CASE Apply(h)
  <2>1. /\ last' = [last EXCEPT ![d.bin][d.epoch] = d.seq] /\ UNCHANGED repaired
        /\ \/ uop' = [uop EXCEPT ![d.bin] = @ - d.delta] /\ UNCHANGED <<epoch, down>>
           \/ StartLife(d.bin) /\ uop' = [uop EXCEPT ![d.bin] = 0]
    BY <1>8, Zenon DEF Apply
  <2>2. last' \in [Bins -> [Epochs -> Nat]] /\ uop' \in [Bins -> Int]
    <3>1. d.epoch \in Epochs /\ d.seq \in Nat /\ d.delta \in Int
      BY <1>4 DEF Delta
    <3>2. uop \in [Bins -> Int] /\ last \in [Bins -> [Epochs -> Nat]]
      BY CoreTyped, Zenon
    <3>3. last' \in [Bins -> [Epochs -> Nat]]
      BY <1>4, <2>1, <3>1, <3>2, Zenon
    <3>4. uop' \in [Bins -> Int]
      BY <1>4, <2>1, <3>1, <3>2
    <3> QED
      BY <3>3, <3>4, Zenon
  <2>3. EpochsGrow /\ down' \in Seq(Message) /\ \A n \in Range(down') : FineNext(n)
    <3>1. CASE StartLife(d.bin)
      BY <1>4, <3>1, LifeStarts, Zenon
    <3>2. CASE UNCHANGED <<epoch, down>>
      <4>1. EpochsGrow
        BY <3>2, CoreTyped DEF EpochsGrow, Epochs
      <4> QED
        BY <3>2, <4>1, CoreTyped, FineKept, Zenon
    <3> QED
      BY <2>1, <3>1, <3>2, Zenon
  <2>4. \A n \in Range(down') \cup sending' : FineNext(n)
    BY <1>3, <2>3, FineKept, Zenon
  <2> QED
    BY <1>3, <1>5, <2>1, <2>2, <2>3, <2>4, CoreTyped, CoreFrame, Zenon
<1> QED
  BY <1>1, <1>6, <1>7, <1>8, Zenon

-----------------------------------------------------------------------------
(* Edge's message handlers and the restarts.                               *)

\* A notice sets the stamp to what it carries, or leaves the slot alone.
LEMMA NoticeKept ==
    ASSUME IInv, NEW n \in Range(down), EdgeHandles(n) \/ LoseNotice(n) PROVE IInv'
<1>1. Take(n)
  BY Zenon DEF EdgeHandles, LoseNotice, HandleDelivered, HandleUOPAdjustment, BindByNotice,
         HandleBinEpochRefresh, HandleBinPickedUp
<1>2. /\ UNCHANGED <<held, acc, snap, tick, seqNo, out, sent, batch, wire, at, epoch, uop,
                     last, repaired, handling, sending>>
      /\ down # <<>> /\ down' = Tail(down)
  BY <1>1, Zenon DEF Take, outbox, drainer, bins, inbox
<1>3. EpochsGrow
  BY <1>2, CoreTyped DEF EpochsGrow, Epochs
<1>4. down' \in Seq(Message) /\ Range(down') \subseteq Range(down)
  BY <1>2, CoreTyped, Taking, Zenon
<1>5. \A m \in Range(down') \cup sending' : FineNext(m)
  BY <1>2, <1>3, <1>4, FineKept, Zenon
<1>6. n \in Message /\ n.bin \in Bins /\ n.epoch \in 0..MaxEpoch
      /\ (n.kind # "picked_up" => n.epoch \in 1..epoch[n.bin])
  BY NoticesFine DEF Fine, Message
<1>7. flusher' \in Bins \cup {None, Loop} /\ todo' \subseteq Bins
  BY <1>6, Zenon DEF EdgeHandles, LoseNotice, HandleDelivered, HandleUOPAdjustment, BindByNotice,
         HandleBinEpochRefresh, HandleBinPickedUp, StartFlush, IInv, TypesOK, SlotOK
<1>8. \/ UNCHANGED <<active, stamp>>
      \/ n.kind # "picked_up" /\ Bind(n.bin, n.epoch)
  BY Zenon DEF EdgeHandles, LoseNotice, HandleDelivered, HandleUOPAdjustment, BindByNotice,
         HandleBinEpochRefresh, HandleBinPickedUp, Ignore
<1>9. /\ active' \in Bins \cup {None} /\ stamp' \in 0..MaxEpoch
      /\ active' # None => stamp' \in 1..epoch'[active']
  <2>1. /\ active \in Bins \cup {None} /\ stamp \in 0..MaxEpoch /\ None \notin Bins
        /\ active # None => stamp \in 1..epoch[active]
    BY CountPathAssumption, Zenon DEF IInv, TypesOK, SlotOK, SlotBegun, Begun
  <2>2. CASE UNCHANGED <<active, stamp>>
    BY <1>2, <2>1, <2>2, Zenon
  <2>3. CASE n.kind # "picked_up" /\ Bind(n.bin, n.epoch)
    <3>1. active' = n.bin /\ (stamp' = n.epoch \/ (active = n.bin /\ stamp' = stamp))
      BY <2>3, Zenon DEF Bind, Greater
    <3> QED
      BY <1>2, <1>6, <2>1, <2>3, <3>1, Zenon
  <2> QED
    BY <1>8, <2>2, <2>3, Zenon
<1>10. SlotOK'
  BY <1>2, <1>7, <1>9, Zenon DEF IInv, TypesOK, SlotOK
<1>11. OutboxOK'
  BY <1>2, Zenon DEF IInv, TypesOK, OutboxOK
<1>12. CoreOK'
  BY <1>2, <1>4, Zenon DEF IInv, TypesOK, CoreOK
<1>13. FlushFits' /\ RowsBegun' /\ ReadBegun'
  BY <1>2, Zenon DEF IInv, FlushFits, RowsBegun, ReadBegun, Begun
<1>14. SlotBegun'
  BY <1>2, <1>9, Zenon DEF IInv, SlotBegun, Begun
<1>15. NoticesBegun'
  BY <1>5, Zenon DEF NoticesBegun, FineNext, Begun
<1> QED
  BY <1>10, <1>11, <1>12, <1>13, <1>14, <1>15, Zenon DEF IInv, TypesOK

\* A notice that is overtaken is still the same notice.
LEMMA DelayKept == ASSUME IInv, DelayNotice PROVE IInv'
<1>1. /\ UNCHANGED <<active, stamp, held, acc, flusher, todo, snap, tick, seqNo, out, sent,
                     batch, wire, at, epoch, uop, last, repaired, handling, sending>>
      /\ down # <<>> /\ down' = Append(Tail(down), Head(down))
  BY DEF DelayNotice, slot, accumulator, outbox, drainer, bins, inbox
<1>2. EpochsGrow
  BY <1>1, CoreTyped DEF EpochsGrow, Epochs
<1>3. /\ Head(down) \in Message /\ Head(down) \in Range(down)
      /\ Tail(down) \in Seq(Message) /\ Range(Tail(down)) \subseteq Range(down)
  BY <1>1, CoreTyped, Taking, Zenon
<1>4. down' \in Seq(Message) /\ Range(down') \subseteq Range(down)
  <2>1. PICK t, m : t = Tail(down) /\ m = Head(down)
    OBVIOUS
  <2>2. t \in Seq(Message) /\ m \in Message /\ Range(t) \cup {m} \subseteq Range(down)
    BY <1>3, <2>1, Zenon
  <2>3. Append(t, m) \in Seq(Message) /\ Range(Append(t, m)) = Range(t) \cup {m}
    BY <2>2, Appending
  <2>4. down' = Append(t, m)
    BY <1>1, <2>1, Zenon
  <2> QED
    BY <2>2, <2>3, <2>4, Zenon
<1>5. \A m \in Range(down') \cup sending' : FineNext(m)
  BY <1>1, <1>2, <1>4, FineKept, Zenon
<1>6. ReadBegun'
  BY <1>1, <1>2, ReadKept, Zenon
<1> QED
  BY <1>1, <1>2, <1>4, <1>5, <1>6, CoreTyped, CoreFrame, Zenon

\* A restart forgets; it invents no generation.
LEMMA RestartKept == ASSUME IInv, EdgeRestart \/ CoreRestart PROVE IInv'
<1>1. CASE EdgeRestart
  <2>1. /\ acc' = [b \in Bins |-> [delta |-> 0, epoch |-> 0]]
        /\ tick' = {} /\ flusher' = None /\ todo' = {} /\ snap' = {} /\ batch' = {}
        /\ UNCHANGED <<active, stamp, held, seqNo, out, sent, wire, at, epoch, uop, last,
                       repaired, handling, sending, down>>
    BY <1>1, Zenon DEF EdgeRestart, slot, outbox, bins, inbox
  <2>2. acc' \in [Bins -> [delta : Nat, epoch : 0..MaxEpoch]]
    BY <2>1, CountPathAssumption
  <2>3. SlotOK'
    BY <2>1, <2>2, Zenon DEF IInv, TypesOK, SlotOK
  <2>4. OutboxOK' /\ CoreOK'
    BY <2>1, Zenon DEF IInv, TypesOK, OutboxOK, CoreOK
  <2>5. SlotBegun'
    BY <2>1, Zenon DEF IInv, SlotBegun, Begun
  <2> QED
    BY <2>1, <2>3, <2>4, <2>5, Zenon
    DEF IInv, TypesOK, FlushFits, RowsBegun, NoticesBegun, ReadBegun, Begun
<1>2. CASE CoreRestart
  <2>1. /\ repaired' = [b \in Bins |-> 0] /\ handling' = {} /\ sending' = {}
        /\ UNCHANGED <<active, stamp, held, acc, flusher, todo, snap, tick, seqNo, out,
                       sent, batch, wire, at, epoch, uop, last, down>>
    BY <1>2, Zenon DEF CoreRestart, slot, accumulator, outbox, drainer, bins
  <2>2. repaired' \in [Bins -> 0..MaxEpoch]
    BY <2>1, CountPathAssumption
  <2>3. SlotOK' /\ OutboxOK'
    BY <2>1, Zenon DEF IInv, TypesOK, SlotOK, OutboxOK
  <2>4. CoreOK'
    BY <2>1, <2>2, Zenon DEF IInv, TypesOK, CoreOK
  <2> QED
    BY <2>1, <2>3, <2>4, Zenon
    DEF IInv, TypesOK, FlushFits, SlotBegun, RowsBegun, NoticesBegun, ReadBegun, Begun
<1> QED
  BY <1>1, <1>2, Zenon

\* The invariant is inductive.
LEMMA Inductive == IInv /\ [Next]_vars => IInv'
<1> SUFFICES ASSUME IInv, [Next]_vars PROVE IInv'
  OBVIOUS
<1>1. CASE EdgeStep
  BY <1>1, TickStep, FlushKept, DrainKept, Zenon DEF EdgeStep
<1>2. CASE CoreStep
  BY <1>2, HandlerKept, SendKept, ReadEpochKept, HandlesKept, Zenon DEF CoreStep
<1>3. CASE NoticeStep
  BY <1>3, DelayKept, NoticeKept, Zenon DEF NoticeStep
<1>4. CASE EdgeRestart \/ CoreRestart
  BY <1>4, RestartKept, Zenon
<1>5. CASE UNCHANGED vars
  <2>1. UNCHANGED <<active, stamp, held, acc, flusher, todo, snap, tick, seqNo, out, sent,
                    batch, wire, at, epoch, uop, last, repaired, handling, sending, down>>
    BY <1>5, Zenon DEF vars, slot, accumulator, outbox, drainer, bins, inbox
  <2>2. TypesOK'
    BY <2>1, Zenon DEF IInv, TypesOK, SlotOK, OutboxOK, CoreOK
  <2> QED
    BY <2>1, <2>2, Zenon
    DEF IInv, FlushFits, SlotBegun, RowsBegun, NoticesBegun, ReadBegun, Begun
<1> QED
  BY <1>1, <1>2, <1>3, <1>4, <1>5, Zenon DEF Next

\* For every set of bins and every bound: no bound bin is stamped with, and no
\* queued count carries, a generation that Core has not begun (bumpEpoch and
\* its announcement share a transaction; epochAssignOnBind moves the stamp of
\* the same bin forward only).
THEOREM NeverAhead == Spec => []NoFutureStamp
<1>1. IInv => NoFutureStamp
  <2> SUFFICES ASSUME IInv PROVE NoFutureStamp
    OBVIOUS
  <2> USE DEF Begun
  <2>1. active # None => stamp <= epoch[active]
    BY DEF IInv, SlotBegun
  <2>2. \A i \in DOMAIN out : out[i].epoch <= epoch[out[i].bin]
    BY DEF IInv, RowsBegun
  <2> QED
    BY <2>1, <2>2, Zenon DEF NoFutureStamp
<1> QED
  BY <1>1, InitIInv, Inductive, PTL DEF Spec

-----------------------------------------------------------------------------
(* Order and the ledger.  The rows are numbered in their order, and pass   *)
(* through the drainer, the wire and Core's consumer in that order, except *)
(* for those that stumbled: so a number that is not above the last one     *)
(* applied is a replay, or a row that stumbled.                            *)

Twins(i, j) == out[i].bin = out[j].bin /\ out[i].epoch = out[j].epoch

\* Numbers are drawn in the order of the rows, one for each row.
Numbered ==
    /\ \A i \in DOMAIN out : out[i].seq \in 1..seqNo[out[i].bin][out[i].epoch]
    /\ \A i, j \in DOMAIN out : i < j /\ Twins(i, j) => out[i].seq < out[j].seq

\* The dedup row holds the greatest number applied of a bin and generation.
Claimed ==
    /\ \A i \in applied : out[i].seq <= last[out[i].bin][out[i].epoch]
    /\ \A b \in Bins, e \in Epochs : last[b][e] # 0 =>
           \E j \in applied : out[j].bin = b /\ out[j].epoch = e /\ out[j].seq = last[b][e]

\* The row in Core's consumer; the rows Core has handled or that fell out of
\* line; the rows that have left Edge, or fell out of line.
InHand == {h.row : h \in handling}
Through == heard \cup stumbled
Before(k) == {wire[m] : m \in 1..(k - 1)}
Left == Through \cup InHand \cup Range(wire)

\* The rows before one that has come so far have come as far.
HandInOrder ==
    /\ \A g, h \in handling : g = h
    /\ \A j \in applied \cup InHand : \A i \in DOMAIN out : i < j => i \in Through
WireInOrder ==
    \A k \in DOMAIN wire : \A i \in DOMAIN out :
        i < wire[k] => i \in Through \cup InHand \cup Before(k)
PassInOrder ==
    /\ \A j \in batch : \A i \in DOMAIN out \ batch : i < j => i \in Left
    /\ sent \subseteq Left

Rows ==
    /\ applied \subseteq DOMAIN out /\ declared \subseteq applied
    /\ recorded \subseteq DOMAIN out /\ heard \subseteq DOMAIN out
    /\ stumbled \subseteq DOMAIN out

OrderInv ==
    /\ Rows /\ Numbered /\ Claimed /\ HandInOrder /\ WireInOrder /\ PassInOrder
    /\ OnlyOvertakenSkipped /\ CountIsLedger

\* The steps that neither move a row nor touch Core's count.
Still == UNCHANGED <<out, seqNo, sent, batch, wire, handling, last, uop, stumbled, applied,
                     declared, recorded, heard>>

\* What the types say of the rows.
LEMMA RowTyped ==
    ASSUME IInv
    PROVE  /\ out \in Seq(Delta) /\ Len(out) \in Nat /\ DOMAIN out = 1..Len(out)
           /\ IsFiniteSet(DOMAIN out)
           /\ \A i \in DOMAIN out : /\ out[i].bin \in Bins /\ out[i].epoch \in Epochs
                                   /\ out[i].delta \in Nat /\ out[i].seq \in Nat
           /\ sent \subseteq DOMAIN out /\ batch \subseteq DOMAIN out
           /\ wire \in Seq(DOMAIN out) /\ Len(wire) \in Nat /\ DOMAIN wire = 1..Len(wire)
           /\ \A k \in DOMAIN wire : wire[k] \in DOMAIN out
           /\ InHand \subseteq DOMAIN out /\ Range(wire) \subseteq DOMAIN out
<1>1. out \in Seq(Delta) /\ wire \in Seq(DOMAIN out) /\ sent \subseteq DOMAIN out
      /\ batch \subseteq DOMAIN out
  BY Zenon DEF IInv, TypesOK, OutboxOK
<1>2. /\ Len(out) \in Nat /\ DOMAIN out = 1..Len(out)
      /\ Len(wire) \in Nat /\ DOMAIN wire = 1..Len(wire)
      /\ \A k \in DOMAIN wire : wire[k] \in DOMAIN out
  BY <1>1
<1>3. IsFiniteSet(1..Len(out))
  BY <1>2, FS_Interval
<1>4. \A i \in DOMAIN out : out[i] \in Delta
  BY CoreTyped, Zenon
<1>5. \A d \in Delta : /\ d.bin \in Bins /\ d.epoch \in Epochs /\ d.delta \in Nat
                       /\ d.seq \in Nat
  BY Zenon DEF Delta
<1>6. InHand \subseteq DOMAIN out
  <2>1. \A h \in handling : h.row \in DOMAIN out
    BY CoreTyped, Zenon
  <2> QED
    BY <2>1, Zenon DEF InHand
<1>7. Range(wire) \subseteq DOMAIN out
  BY <1>2, Zenon DEF Range
<1> QED
  BY <1>1, <1>2, <1>3, <1>4, <1>5, <1>6, <1>7, Zenon

\* Most steps are still.
LEMMA MostStill ==
    ASSUME \/ TickRead \/ TickApply \/ FlushLoop \/ FlushCommit \/ FlushEnd
           \/ \E b \in Bins : FlushSnapshot(b) \/ Arrive(b) \/ PickUp(b)
           \/ SendDataToEdge \/ NoticeStep \/ UNCHANGED vars
    PROVE  Still
<1>1. CASE TickRead \/ TickApply \/ FlushLoop \/ FlushCommit \/ FlushEnd
           \/ (\E b \in Bins : FlushSnapshot(b)) \/ SendDataToEdge
  BY <1>1, Zenon DEF TickRead, TickApply, FlushLoop, FlushCommit, FlushEnd, FlushSnapshot,
     SendDataToEdge, outbox, drainer, bins, inbox, ledger, verdicts, Still
<1>2. CASE \E b \in Bins : Arrive(b) \/ PickUp(b)
  BY <1>2, Zenon DEF Arrive, PickUp, outbox, drainer, bins, inbox, ledger, verdicts, Still
<1>3. CASE NoticeStep
  <2>1. CASE DelayNotice
    BY <2>1, Zenon DEF DelayNotice, outbox, drainer, bins, inbox, ledger, verdicts, Still
  <2>2. CASE \E n \in Range(down) : EdgeHandles(n) \/ LoseNotice(n)
    <3>1. PICK n : Take(n)
      BY <2>2, Zenon DEF EdgeHandles, LoseNotice, HandleDelivered, HandleUOPAdjustment,
         HandleBinEpochRefresh, HandleBinPickedUp
    <3> QED
      BY <3>1, Zenon DEF Take, outbox, drainer, bins, inbox, ledger, verdicts, Still
  <2> QED
    BY <1>3, <2>1, <2>2, Zenon DEF NoticeStep
<1>4. CASE UNCHANGED vars
  BY <1>4, Zenon DEF vars, outbox, drainer, bins, inbox, ledger, verdicts, Still
<1> QED
  BY <1>1, <1>2, <1>3, <1>4, Zenon

\* The dedup rows and the rows applied are left alone.
LEMMA ClaimedSame ==
    ASSUME Claimed, UNCHANGED <<applied, last>>, \A i \in applied : out'[i] = out[i]
    PROVE  Claimed'
<1>1. ASSUME NEW i \in applied PROVE out'[i].seq <= last'[out'[i].bin][out'[i].epoch]
  BY Zenon DEF Claimed
<1>2. ASSUME NEW b \in Bins, NEW e \in Epochs, last'[b][e] # 0
      PROVE  \E j \in applied' :
                out'[j].bin = b /\ out'[j].epoch = e /\ out'[j].seq = last'[b][e]
  <2>1. PICK j \in applied : out[j].bin = b /\ out[j].epoch = e /\ out[j].seq = last[b][e]
    BY <1>2, Zenon DEF Claimed
  <2>2. out'[j].bin = b /\ out'[j].epoch = e /\ out'[j].seq = last'[b][e]
    BY <2>1, Zenon
  <2> QED
    BY <2>2, Zenon
<1> QED
  BY <1>1, <1>2, Zenon DEF Claimed

\* A still step keeps all of it.
LEMMA StillKept == ASSUME OrderInv, Still PROVE OrderInv'
<1> USE DEF OrderInv, Still
<1>1. Rows' /\ Numbered' /\ Claimed'
  <2>1. Claimed'
    BY ClaimedSame, Zenon
  <2> QED
    BY <2>1, Zenon DEF Rows, Numbered, Twins
<1>2. HandInOrder' /\ WireInOrder' /\ PassInOrder'
  <2>1. UNCHANGED <<InHand, Through, Left>> /\ \A k : Before(k)' = Before(k)
    BY Zenon DEF InHand, Through, Before, Left
  <2> QED
    BY <2>1, Zenon DEF HandInOrder, WireInOrder, PassInOrder
<1>3. OnlyOvertakenSkipped' /\ CountIsLedger'
  BY Zenon DEF OnlyOvertakenSkipped, CountIsLedger
<1> QED
  BY <1>1, <1>2, <1>3, Zenon

\* In the first state there are no rows.
LEMMA InitOrder == ASSUME Init PROVE OrderInv
<1> USE DEF Init
<1>1. DOMAIN out = {} /\ DOMAIN wire = {} /\ InHand = {} /\ applied = {} /\ heard = {}
      /\ stumbled = {} /\ batch = {} /\ sent = {} /\ declared = {} /\ recorded = {}
  BY DEF InHand
<1>2. Rows /\ Numbered
  BY <1>1, Zenon DEF Rows, Numbered
<1>3. Claimed
  BY <1>1, Zenon DEF Claimed
<1>4. HandInOrder /\ WireInOrder /\ PassInOrder
  BY <1>1, Zenon DEF HandInOrder, WireInOrder, PassInOrder
<1>5. OnlyOvertakenSkipped
  BY <1>1, Zenon DEF OnlyOvertakenSkipped
<1>6. CountIsLedger
  <2> SUFFICES ASSUME NEW b \in Bins
               PROVE  uop[b] = -SumFunctionOnSet([i \in DOMAIN out |-> out[i].delta],
                                        {i \in applied \ declared : out[i].bin = b})
    BY Zenon DEF CountIsLedger
  <2>1. {i \in applied \ declared : out[i].bin = b} = {} /\ uop[b] = 0
    BY <1>1, Zenon
  <2>2. SumFunctionOnSet([i \in DOMAIN out |-> out[i].delta], {}) = 0
    BY SumEmpty, Zenon
  <2> QED
    BY <2>1, <2>2
<1> QED
  BY <1>2, <1>3, <1>4, <1>5, <1>6, Zenon DEF OrderInv

\* A new row, behind all the others.
LEMMA FlushSendOrder == ASSUME IInv, OrderInv, FlushSend PROVE OrderInv'
<1> USE DEF OrderInv
<1>1. PICK s \in snap :
        /\ seqNo' = [seqNo EXCEPT ![s.bin][s.epoch] = @ + 1]
        /\ out' = Append(out, [bin |-> s.bin, delta |-> s.delta, epoch |-> s.epoch,
                               seq |-> seqNo[s.bin][s.epoch] + 1])
  BY Zenon DEF FlushSend, Allocate
<1>2. UNCHANGED <<sent, batch, wire, handling, last, uop, stumbled, applied, declared,
                  recorded, heard>>
  BY Zenon DEF FlushSend, drainer, bins, inbox, ledger, verdicts
<1>3. s.bin \in Bins /\ s.epoch \in Epochs /\ s.delta \in Nat
      /\ seqNo \in [Bins -> [Epochs -> Nat]] /\ seqNo[s.bin][s.epoch] \in Nat
  BY Zenon DEF IInv, TypesOK, SlotOK, OutboxOK
<1> PICK d : d = [bin |-> s.bin, delta |-> s.delta, epoch |-> s.epoch,
                  seq |-> seqNo[s.bin][s.epoch] + 1]
  BY Zenon
<1>4. d.bin = s.bin /\ d.epoch = s.epoch /\ d.seq = seqNo[s.bin][s.epoch] + 1
      /\ d \in Delta
  BY <1>3 DEF Delta
<1> PICK n : n = Len(out) + 1
  OBVIOUS
<1>5. /\ DOMAIN out' = DOMAIN out \cup {n} /\ out'[n] = d
      /\ \A i \in DOMAIN out : out'[i] = out[i]
  <2>1. out \in Seq(Delta) /\ out' = Append(out, d) /\ d \in Delta
    BY <1>1, <1>4, RowTyped, Zenon
  <2> QED
    BY ONLY <2>1, n = Len(out) + 1
<1>6. \A i \in DOMAIN out : i < n /\ ~(n < i) /\ i # n
  <2>1. Len(out) \in Nat /\ DOMAIN out = 1..Len(out)
    BY RowTyped, Zenon
  <2> QED
    BY ONLY <2>1, n = Len(out) + 1
<1>7. Rows'
  BY <1>2, <1>5, Zenon DEF Rows
<1>8. Numbered'
  <2>1. /\ seqNo'[s.bin][s.epoch] = d.seq
        /\ \A b \in Bins, e \in Epochs :
               seqNo[b][e] \in Nat /\ seqNo'[b][e] \in Nat /\ seqNo[b][e] <= seqNo'[b][e]
    BY <1>1, <1>3, <1>4
  <2>2. d.seq \in Nat /\ d.seq \in 1..d.seq
    BY <1>3, <1>4
  <2>3. ASSUME NEW i \in DOMAIN out
        PROVE  out[i].seq \in 1..seqNo'[out[i].bin][out[i].epoch]
    <3>1. out[i].seq \in 1..seqNo[out[i].bin][out[i].epoch]
      BY Zenon DEF Numbered
    <3>2. out[i].bin \in Bins /\ out[i].epoch \in Epochs
      BY RowTyped, Zenon
    <3> QED
      BY ONLY <2>1, <3>1, <3>2
  <2>4. ASSUME NEW i \in DOMAIN out', NEW j \in DOMAIN out', i < j, Twins(i, j)'
        PROVE  out'[i].seq < out'[j].seq
    <3>1. i \in DOMAIN out
      BY <1>5, <1>6, <2>4, RowTyped
    <3>2. CASE j \in DOMAIN out
      BY <1>5, <2>4, <3>1, <3>2, Zenon DEF Numbered, Twins
    <3>3. CASE j = n
      <4>1. out'[i] = out[i] /\ out'[j] = d
        BY <1>5, <3>1, <3>3, Zenon
      <4>2. out[i].bin = s.bin /\ out[i].epoch = s.epoch
        BY <1>4, <2>4, <4>1, Zenon DEF Twins
      <4>3. out[i].seq \in 1..seqNo[s.bin][s.epoch]
        BY <3>1, <4>2, Zenon DEF Numbered
      <4>4. out[i].seq < d.seq
        BY ONLY <1>3, <1>4, <4>3
      <4> QED
        BY <4>1, <4>4, Zenon
    <3> QED
      BY <1>5, <3>2, <3>3, Zenon
  <2>5. \A i \in DOMAIN out' : out'[i].seq \in 1..seqNo'[out'[i].bin][out'[i].epoch]
    BY <1>4, <1>5, <2>1, <2>2, <2>3, Zenon
  <2> QED
    BY <2>4, <2>5, Zenon DEF Numbered
<1>9. Claimed'
  <2>1. \A i \in applied : i \in DOMAIN out /\ out'[i] = out[i]
    BY <1>5, Zenon DEF Rows
  <2> QED
    BY <1>2, <2>1, ClaimedSame, Zenon
<1>10. UNCHANGED <<InHand, Through, Left>> /\ \A k : Before(k)' = Before(k)
  BY <1>2, Zenon DEF InHand, Through, Before, Left
<1>11. HandInOrder' /\ WireInOrder' /\ PassInOrder'
  <2>1. applied \cup InHand \subseteq DOMAIN out
    BY RowTyped, Zenon DEF Rows
  <2>2. HandInOrder'
    <3>1. \A j \in applied \cup InHand : \A i \in DOMAIN out' : i < j => i \in Through
      BY <1>5, <1>6, <2>1, Zenon DEF HandInOrder
    <3> QED
      BY <1>2, <1>10, <3>1, Zenon DEF HandInOrder
  <2>3. WireInOrder'
    <3>1. ASSUME NEW k \in DOMAIN wire, NEW i \in DOMAIN out', i < wire[k]
          PROVE  i \in Through \cup InHand \cup Before(k)
      <4>1. wire[k] \in DOMAIN out
        BY RowTyped, Zenon
      <4>2. i \in DOMAIN out
        BY <1>5, <1>6, <3>1, <4>1, Zenon
      <4> QED
        BY <3>1, <4>2, Zenon DEF WireInOrder
    <3> QED
      BY <1>2, <1>10, <3>1, Zenon DEF WireInOrder
  <2>4. PassInOrder'
    <3>1. \A j \in batch : j \in DOMAIN out
      BY RowTyped, Zenon
    <3>2. ASSUME NEW j \in batch, NEW i \in DOMAIN out' \ batch, i < j
          PROVE  i \in Left
      <4>1. i \in DOMAIN out
        BY <1>5, <1>6, <3>1, <3>2, Zenon
      <4> QED
        BY <3>2, <4>1, Zenon DEF PassInOrder
    <3>3. sent \subseteq Left
      BY Zenon DEF PassInOrder
    <3> QED
      BY <1>2, <1>10, <3>2, <3>3, Zenon DEF PassInOrder
  <2> QED
    BY <2>2, <2>3, <2>4, Zenon
<1>12. OnlyOvertakenSkipped'
  <2>1. \A i \in applied \cup heard : out'[i] = out[i]
    BY <1>5, Zenon DEF Rows
  <2>2. ASSUME NEW i \in heard \ (applied \cup recorded)
        PROVE  /\ i \in stumbled
               /\ \E j \in applied : /\ j > i /\ out'[j].bin = out'[i].bin
                                     /\ out'[j].epoch = out'[i].epoch
    <3>1. i \in stumbled
      BY Zenon DEF OnlyOvertakenSkipped
    <3>2. PICK j \in applied : j > i /\ out[j].bin = out[i].bin /\ out[j].epoch = out[i].epoch
      BY Zenon DEF OnlyOvertakenSkipped
    <3>3. out'[j] = out[j] /\ out'[i] = out[i]
      BY <2>1, Zenon
    <3> QED
      BY <3>1, <3>2, <3>3, Zenon
  <2> QED
    BY <1>2, <2>2, Zenon DEF OnlyOvertakenSkipped
<1>13. CountIsLedger'
  <2> SUFFICES ASSUME NEW b \in Bins
               PROVE  uop'[b] = -SumFunctionOnSet([i \in DOMAIN out' |-> out'[i].delta],
                                        {i \in applied' \ declared' : out'[i].bin = b})
    BY Zenon DEF CountIsLedger
  <2> DEFINE S == {i \in applied \ declared : out[i].bin = b}
             f == [i \in DOMAIN out |-> out[i].delta]
             g == [i \in DOMAIN out' |-> out'[i].delta]
  <2>1. {i \in applied' \ declared' : out'[i].bin = b} = S
    BY <1>2, <1>5, Zenon DEF Rows
  <2>2. S \subseteq DOMAIN out /\ IsFiniteSet(S)
    <3>1. S \subseteq DOMAIN out
      BY Zenon DEF Rows
    <3> QED
      BY <3>1, RowTyped, FS_Subset, Zenon
  <2>3. \A x \in S : f[x] = g[x]
    BY <1>5, <2>2, Zenon
  <2>4. uop[b] = -SumFunctionOnSet(f, S)
    BY Zenon DEF CountIsLedger
  <2> HIDE DEF S, f, g
  <2>5. SumFunctionOnSet(f, S) = SumFunctionOnSet(g, S)
    BY <2>2, <2>3, SumSame, Zenon
  <2>6. uop'[b] = -SumFunctionOnSet(g, S)
    BY <1>2, <2>4, <2>5, Zenon
  <2> QED
    BY <2>1, <2>6, Zenon DEF g
<1> QED
  BY <1>7, <1>8, <1>9, <1>11, <1>12, <1>13, Zenon

\* A number drawn for nothing.
LEMMA FlushSendFailsOrder == ASSUME IInv, OrderInv, FlushSendFails PROVE OrderInv'
<1> USE DEF OrderInv
<1>1. PICK s \in snap : seqNo' = [seqNo EXCEPT ![s.bin][s.epoch] = @ + 1]
  BY Zenon DEF FlushSendFails, Allocate
<1>2. UNCHANGED <<out, sent, batch, wire, handling, last, uop, stumbled, applied, declared,
                  recorded, heard>>
  BY Zenon DEF FlushSendFails, drainer, bins, inbox, ledger, verdicts
<1>3. s.bin \in Bins /\ s.epoch \in Epochs /\ seqNo \in [Bins -> [Epochs -> Nat]]
  BY Zenon DEF IInv, TypesOK, SlotOK, OutboxOK
<1>4. \A b \in Bins, e \in Epochs :
          seqNo[b][e] \in Nat /\ seqNo'[b][e] \in Nat /\ seqNo[b][e] <= seqNo'[b][e]
  BY <1>1, <1>3
<1>5. Numbered'
  <2>1. ASSUME NEW i \in DOMAIN out
        PROVE  out[i].seq \in 1..seqNo'[out[i].bin][out[i].epoch]
    <3>1. out[i].seq \in 1..seqNo[out[i].bin][out[i].epoch]
      BY Zenon DEF Numbered
    <3>2. out[i].bin \in Bins /\ out[i].epoch \in Epochs
      BY RowTyped, Zenon
    <3> QED
      BY <1>4, <3>1, <3>2
  <2> QED
    BY <1>2, <2>1, Zenon DEF Numbered, Twins
<1>6. UNCHANGED <<InHand, Through, Left>> /\ \A k : Before(k)' = Before(k)
  BY <1>2, Zenon DEF InHand, Through, Before, Left
<1>7. /\ Rows' /\ Claimed'
      /\ HandInOrder' /\ WireInOrder' /\ PassInOrder'
  <2>1. Rows' /\ Claimed'
    BY <1>2, ClaimedSame, Zenon DEF Rows
  <2>2. HandInOrder' /\ WireInOrder' /\ PassInOrder'
    BY <1>2, <1>6, Zenon DEF HandInOrder, WireInOrder, PassInOrder
  <2> QED
    BY <2>1, <2>2, Zenon
<1>8. OnlyOvertakenSkipped' /\ CountIsLedger'
  BY <1>2, Zenon DEF OnlyOvertakenSkipped, CountIsLedger
<1> QED
  BY <1>5, <1>7, <1>8, Zenon

\* Steps that only move rows along.
LEMMA MoveFrame ==
    ASSUME OrderInv, UNCHANGED <<out, seqNo, last, uop, applied, declared, recorded, heard>>,
           stumbled \subseteq stumbled', stumbled' \subseteq DOMAIN out,
           HandInOrder', WireInOrder', PassInOrder'
    PROVE  OrderInv'
<1> USE DEF OrderInv
<1>1. Rows' /\ Numbered'
  BY Zenon DEF Rows, Numbered, Twins
<1>2. Claimed'
  BY ClaimedSame, Zenon
<1>3. OnlyOvertakenSkipped'
  <2>1. ASSUME NEW i \in heard \ (applied \cup recorded)
        PROVE  /\ i \in stumbled'
               /\ \E j \in applied : /\ j > i /\ out[j].bin = out[i].bin
                                     /\ out[j].epoch = out[i].epoch
    BY Zenon DEF OnlyOvertakenSkipped
  <2> QED
    BY <2>1, Zenon DEF OnlyOvertakenSkipped
<1>4. CountIsLedger'
  BY Zenon DEF CountIsLedger
<1> QED
  BY <1>1, <1>2, <1>3, <1>4, Zenon

\* A pass begins with the rows that have no ack.
LEMMA DrainBeginOrder == ASSUME IInv, OrderInv, DrainBegin PROVE OrderInv'
<1>1. batch' = DOMAIN out \ sent
      /\ UNCHANGED <<out, seqNo, last, uop, applied, declared, recorded, heard, stumbled,
                     sent, wire, handling>>
  BY Zenon DEF DrainBegin, Unsent, outbox, bins, inbox, ledger, verdicts
<1>2. UNCHANGED <<InHand, Through, Left>> /\ \A k : Before(k)' = Before(k)
  BY <1>1, Zenon DEF InHand, Through, Before, Left
<1>3. HandInOrder' /\ WireInOrder'
  BY <1>1, <1>2, Zenon DEF OrderInv, HandInOrder, WireInOrder
<1>4. PassInOrder'
  <2>1. \A i \in DOMAIN out \ batch' : i \in Left
    BY <1>1, Zenon DEF OrderInv, PassInOrder
  <2> QED
    BY <1>1, <1>2, <2>1, Zenon DEF OrderInv, PassInOrder
<1> QED
  BY <1>1, <1>3, <1>4, MoveFrame, Zenon DEF OrderInv, Rows

\* The first row of the pass is published or stumbles.
LEMMA DrainedOrder ==
    ASSUME IInv, OrderInv, NEW n \in batch,
           Publish(n) \/ PublishUnacked(n) \/ PublishFails(n)
    PROVE  OrderInv'
<1>1. /\ \A j \in batch : n <= j
      /\ batch' = batch \ {n}
      /\ UNCHANGED <<out, seqNo, last, uop, applied, declared, recorded, heard, handling>>
  BY Zenon DEF Publish, PublishUnacked, PublishFails, Drained, outbox, bins, inbox, ledger,
     verdicts
<1>2. /\ wire \in Seq(DOMAIN out) /\ n \in DOMAIN out /\ DOMAIN out \subseteq Nat
      /\ batch \subseteq DOMAIN out /\ Len(wire) \in Nat /\ DOMAIN wire = 1..Len(wire)
  <2>1. DOMAIN out \subseteq Nat
    BY RowTyped
  <2> QED
    BY <2>1, RowTyped, Zenon
<1>3. \A i \in DOMAIN out : i < n => i \in Left
  <2>1. ASSUME NEW i \in DOMAIN out, i < n PROVE i \notin batch
    BY <1>1, <1>2, <2>1
  <2> QED
    BY <2>1, Zenon DEF OrderInv, PassInOrder
<1>4. UNCHANGED InHand
  BY <1>1, Zenon DEF InHand
<1>5. CASE PublishFails(n)
  <2>1. stumbled' = stumbled \cup {n} /\ UNCHANGED <<wire, sent>>
    BY <1>5, Zenon DEF PublishFails
  <2>2. /\ Through \subseteq Through' /\ Left \subseteq Left' /\ n \in Left'
        /\ \A k : Before(k)' = Before(k)
    BY <1>1, <1>4, <2>1, Zenon DEF Through, Left, Before
  <2>3. HandInOrder' /\ WireInOrder'
    BY <1>1, <1>4, <2>1, <2>2, Zenon DEF OrderInv, HandInOrder, WireInOrder
  <2>4. PassInOrder'
    BY <1>1, <2>1, <2>2, Zenon DEF OrderInv, PassInOrder
  <2> QED
    BY <1>1, <1>2, <2>1, <2>3, <2>4, MoveFrame, Zenon DEF OrderInv, Rows
<1>6. CASE Publish(n) \/ PublishUnacked(n)
  <2>1. wire' = Append(wire, n) /\ sent \subseteq sent' /\ sent' \subseteq sent \cup {n}
        /\ UNCHANGED stumbled
    BY <1>6, Zenon DEF Publish, PublishUnacked
  <2>2. /\ Len(wire') = Len(wire) + 1 /\ DOMAIN wire' = 1..(Len(wire) + 1)
        /\ wire'[Len(wire) + 1] = n
        /\ \A k \in DOMAIN wire : wire'[k] = wire[k]
    BY <1>2, <2>1
  <2>3. Range(wire') = Range(wire) \cup {n}
    BY <1>2, <2>1, Appending
  <2>4. UNCHANGED Through /\ Left' = Left \cup {n}
    BY <1>1, <1>4, <2>1, <2>3, Zenon DEF Through, Left
  <2>5. \A k \in DOMAIN wire : Before(k)' = Before(k)
    <3> SUFFICES ASSUME NEW k \in DOMAIN wire PROVE Before(k)' = Before(k)
      BY Zenon
    <3>1. \A m \in 1..(k - 1) : m \in DOMAIN wire
      BY <1>2
    <3>2. \A m \in 1..(k - 1) : wire'[m] = wire[m]
      BY <2>2, <3>1, Zenon
    <3> QED
      BY <3>2, Zenon DEF Before
  <2>6. \A k \in DOMAIN wire' : k \in DOMAIN wire \/ k = Len(wire) + 1
    BY <1>2, <2>2
  <2> PICK z : z = Len(wire) + 1
    OBVIOUS
  <2>7. Before(z)' = Range(wire)
    <3>1. 1..(z - 1) = DOMAIN wire
      BY <1>2
    <3>2. {wire'[m] : m \in 1..(z - 1)} = {wire[m] : m \in DOMAIN wire}
      BY <2>2, <3>1, Zenon
    <3> QED
      BY <3>2, Zenon DEF Before, Range
  <2>8. HandInOrder'
    BY <1>1, <1>4, <2>4, Zenon DEF OrderInv, HandInOrder
  <2>9. WireInOrder'
    <3>1. ASSUME NEW k \in DOMAIN wire', NEW i \in DOMAIN out, i < wire'[k]
          PROVE  i \in Through \cup InHand \cup Before(k)'
      <4>1. CASE k \in DOMAIN wire
        BY <2>2, <2>5, <3>1, <4>1, Zenon DEF OrderInv, WireInOrder
      <4>2. CASE k = z
        <5>1. i \in Left
          BY <1>3, <2>2, <3>1, <4>2, Zenon
        <5> QED
          BY <2>7, <4>2, <5>1, Zenon DEF Left
      <4> QED
        BY <2>6, <4>1, <4>2, Zenon
    <3> QED
      BY <1>1, <1>4, <2>4, <3>1, Zenon DEF WireInOrder
  <2>10. PassInOrder'
    BY <1>1, <2>1, <2>4, Zenon DEF OrderInv, PassInOrder
  <2> QED
    BY <1>1, <2>1, <2>8, <2>9, <2>10, MoveFrame, Zenon DEF OrderInv, Rows
<1> QED
  BY <1>5, <1>6, Zenon

\* Core's consumer takes the head of the wire.
LEMMA ReadEpochOrder == ASSUME IInv, OrderInv, ReadEpoch PROVE OrderInv'
<1>1. /\ handling = {} /\ wire # <<>> /\ wire' = Tail(wire)
      /\ handling' = {[row |-> Head(wire), seen |-> epoch[out[Head(wire)].bin]]}
      /\ UNCHANGED <<out, seqNo, last, uop, applied, declared, recorded, heard, stumbled,
                     sent, batch>>
  BY Zenon DEF ReadEpoch, outbox, drainer, bins, ledger, verdicts
<1>2. wire \in Seq(DOMAIN out) /\ Len(wire) \in Nat /\ DOMAIN wire = 1..Len(wire)
  BY RowTyped, Zenon
<1>3. InHand = {} /\ InHand' = {wire[1]} /\ UNCHANGED Through
  BY <1>1, <1>2 DEF InHand, Through
<1>4. /\ DOMAIN wire' = 1..(Len(wire) - 1) /\ 1 \in DOMAIN wire
      /\ \A k \in DOMAIN wire' : k + 1 \in DOMAIN wire /\ wire'[k] = wire[k + 1]
  BY <1>1, <1>2
<1>5. Range(wire) \subseteq {wire[1]} \cup Range(wire')
  <2>1. \A k \in DOMAIN wire : k = 1 \/ (k - 1 \in DOMAIN wire' /\ wire'[k - 1] = wire[k])
    BY <1>1, <1>2, <1>4
  <2> QED
    BY <2>1, Zenon DEF Range
<1>6. Left \subseteq Left'
  BY <1>3, <1>5, Zenon DEF Left
<1>7. \A k \in DOMAIN wire' : Before(k + 1) \subseteq {wire[1]} \cup Before(k)'
  <2>1. ASSUME NEW k \in DOMAIN wire', NEW m \in 1..((k + 1) - 1)
        PROVE  wire[m] \in {wire[1]} \cup Before(k)'
    <3>1. m # 1 => m - 1 \in 1..(k - 1) /\ wire'[m - 1] = wire[m]
      BY <1>1, <1>2, <1>4
    <3> QED
      BY <3>1, Zenon DEF Before
  <2> QED
    BY <2>1, Zenon DEF Before
<1>8. HandInOrder'
  <2>1. \A i \in DOMAIN out : i < wire[1] => i \in Through
    <3>1. Before(1) = {}
      BY DEF Before
    <3> QED
      BY <1>3, <1>4, <3>1, Zenon DEF OrderInv, WireInOrder
  <2>2. \A g, h \in handling' : g = h
    BY <1>1, Zenon
  <2>3. \A j \in applied' \cup InHand' : \A i \in DOMAIN out' : i < j => i \in Through'
    BY <1>1, <1>3, <2>1, Zenon DEF OrderInv, HandInOrder
  <2> QED
    BY <2>2, <2>3, Zenon DEF HandInOrder
<1>9. WireInOrder'
  <2>1. ASSUME NEW k \in DOMAIN wire', NEW i \in DOMAIN out, i < wire'[k]
        PROVE  i \in Through \cup InHand' \cup Before(k)'
    <3>1. i \in Through \cup InHand \cup Before(k + 1)
      BY <1>4, <2>1, Zenon DEF OrderInv, WireInOrder
    <3> QED
      BY <1>3, <1>7, <3>1, Zenon
  <2> QED
    BY <1>1, <1>3, <2>1, Zenon DEF WireInOrder
<1>10. PassInOrder'
  BY <1>1, <1>6, Zenon DEF OrderInv, PassInOrder
<1> QED
  BY <1>1, <1>8, <1>9, <1>10, MoveFrame, Zenon DEF OrderInv, Rows

\* A restart of Edge drops the pass; one of Core drops the row in hand.
LEMMA RestartOrder == ASSUME IInv, OrderInv, EdgeRestart \/ CoreRestart PROVE OrderInv'
<1>1. CASE EdgeRestart
  <2>1. /\ batch' = {}
        /\ UNCHANGED <<out, seqNo, last, uop, applied, declared, recorded, heard, stumbled,
                       sent, wire, handling>>
    BY <1>1, Zenon DEF EdgeRestart, outbox, bins, inbox, ledger, verdicts
  <2>2. UNCHANGED <<InHand, Through, Left>> /\ \A k : Before(k)' = Before(k)
    BY <2>1, Zenon DEF InHand, Through, Before, Left
  <2>3. HandInOrder' /\ WireInOrder' /\ PassInOrder'
    BY <2>1, <2>2, Zenon DEF OrderInv, HandInOrder, WireInOrder, PassInOrder
  <2> QED
    BY <2>1, <2>3, MoveFrame, Zenon DEF OrderInv, Rows
<1>2. CASE CoreRestart
  <2>1. /\ handling' = {} /\ stumbled' = stumbled \cup {h.row : h \in handling}
        /\ UNCHANGED <<out, seqNo, last, uop, applied, declared, recorded, heard,
                       sent, batch, wire>>
    BY <1>2, Zenon DEF CoreRestart, outbox, bins, ledger, verdicts
  <2>2. InHand' = {} /\ Through' = Through \cup InHand /\ stumbled' = stumbled \cup InHand
        /\ \A k : Before(k)' = Before(k)
    BY <2>1, Zenon DEF InHand, Through, Before
  <2>3. UNCHANGED Left
    BY <2>1, <2>2, Zenon DEF Left
  <2>4. HandInOrder'
    BY <2>1, <2>2, Zenon DEF OrderInv, HandInOrder
  <2>5. WireInOrder'
    BY <2>1, <2>2, Zenon DEF OrderInv, WireInOrder
  <2>6. PassInOrder'
    BY <2>1, <2>3, Zenon DEF OrderInv, PassInOrder
  <2>7. stumbled' \subseteq DOMAIN out
    BY <2>2, RowTyped, Zenon DEF OrderInv, Rows
  <2> QED
    BY <2>1, <2>4, <2>5, <2>6, <2>7, MoveFrame, Zenon
<1> QED
  BY <1>1, <1>2, Zenon

\* Arithmetic: a number that is not above the last one applied.
LEMMA NotAbove ==
    ASSUME NEW q \in Nat, NEW m \in Nat, NEW l \in Nat, q \in 1..m, ~(q > l)
    PROVE  l # 0 /\ q <= l
OBVIOUS

\* The last number applied only grows.
LEMMA StillBelow ==
    ASSUME NEW a \in Nat, NEW b \in Nat, NEW l \in Nat, a <= l, b > l PROVE a <= b
OBVIOUS

\* Arithmetic for a bin just declared.
LEMMA MinusZero == 0 = -0
<1>1. \A x \in Int : -x = 0 - x
  OBVIOUS
<1>2. 0 \in Int /\ 0 - 0 = 0
  OBVIOUS
<1> QED
  BY <1>1, <1>2, Zenon

\* The rows that count towards a bin, and what each amounts to.
Open(b) == {i \in applied \ declared : out[i].bin = b}
Amounts == [i \in DOMAIN out |-> out[i].delta]

\* The ledger in these terms.
LEMMA LedgerIs ==
    CountIsLedger <=> \A b \in Bins : uop[b] = -SumFunctionOnSet(Amounts, Open(b))
BY Zenon DEF CountIsLedger, Open, Amounts

\* And in the next state.
LEMMA LedgerIsNext ==
    CountIsLedger' <=> \A b \in Bins : uop'[b] = -SumFunctionOnSet(Amounts', Open(b)')
BY Zenon DEF CountIsLedger, Open, Amounts

\* A declaration counts from nothing.
LEMMA DeclareOrder ==
    ASSUME IInv, OrderInv, NEW b \in Bins, Reset(b) \/ RecordCount(b)
    PROVE  OrderInv'
<1> USE DEF OrderInv
<1>1. /\ uop' = [uop EXCEPT ![b] = 0]
      /\ declared' = declared \cup {i \in applied : out[i].bin = b}
      /\ UNCHANGED <<out, seqNo, sent, batch, wire, handling, last, stumbled, applied,
                     recorded, heard>>
  BY Zenon DEF Reset, RecordCount, Declare, outbox, drainer, inbox, verdicts
<1>2. Rows' /\ Numbered' /\ Claimed'
  <2>1. Rows' /\ Numbered'
    BY <1>1, Zenon DEF Rows, Numbered, Twins
  <2> QED
    BY <1>1, <2>1, ClaimedSame, Zenon
<1>3. UNCHANGED <<InHand, Through, Left>> /\ \A k : Before(k)' = Before(k)
  BY <1>1, Zenon DEF InHand, Through, Before, Left
<1>4. HandInOrder' /\ WireInOrder' /\ PassInOrder'
  BY <1>1, <1>3, Zenon DEF HandInOrder, WireInOrder, PassInOrder
<1>5. OnlyOvertakenSkipped'
  BY <1>1, Zenon DEF OnlyOvertakenSkipped
<1>6. CountIsLedger'
  <2>1. Amounts' = Amounts
    BY <1>1, Zenon DEF Amounts
  <2>2. ASSUME NEW c \in Bins PROVE uop'[c] = -SumFunctionOnSet(Amounts, Open(c)')
    <3>1. CASE c = b
      <4>1. Open(c)' = {}
        BY <1>1, <3>1, Zenon DEF Open
      <4>2. uop'[c] = 0
        BY <1>1, <3>1, CoreTyped, Zenon
      <4>3. SumFunctionOnSet(Amounts, Open(c)') = 0
        BY <4>1, SumEmpty, Zenon
      <4> QED
        BY <4>2, <4>3, MinusZero, Zenon
    <3>2. CASE c # b
      <4>1. Open(c)' = Open(c)
        BY <1>1, <3>2, Zenon DEF Open
      <4>2. uop'[c] = uop[c]
        BY <1>1, <3>2, CoreTyped, Zenon
      <4> QED
        BY <4>1, <4>2, LedgerIs, Zenon
    <3> QED
      BY <3>1, <3>2, Zenon
  <2> QED
    BY <2>1, <2>2, LedgerIsNext, Zenon
<1> QED
  BY <1>2, <1>4, <1>5, <1>6, Zenon

\* Whatever becomes of the row in hand, it is heard.
LEMMA HandledOrder ==
    ASSUME IInv, OrderInv, NEW h \in handling, Handled(h),
           applied \subseteq applied', applied' \subseteq applied \cup {h.row}, UNCHANGED stumbled
    PROVE  HandInOrder' /\ WireInOrder' /\ PassInOrder'
<1>1. /\ handling' = {} /\ heard' = heard \cup {h.row}
      /\ UNCHANGED <<out, sent, batch, wire>>
  BY Zenon DEF Handled, outbox, drainer
<1>2. handling = {h}
  BY Zenon DEF OrderInv, HandInOrder
<1>3. InHand = {h.row} /\ InHand' = {} /\ Through' = Through \cup {h.row}
      /\ \A k : Before(k)' = Before(k)
  BY <1>1, <1>2, Zenon DEF InHand, Through, Before
<1>4. UNCHANGED Left
  BY <1>1, <1>3, Zenon DEF Left
<1>5. HandInOrder'
  <2>1. \A j \in applied' : \A i \in DOMAIN out : i < j => i \in Through
    BY <1>3, Zenon DEF OrderInv, HandInOrder
  <2> QED
    BY <1>1, <1>3, <2>1, Zenon DEF HandInOrder
<1>6. WireInOrder'
  BY <1>1, <1>3, Zenon DEF OrderInv, WireInOrder
<1>7. PassInOrder'
  BY <1>1, <1>4, Zenon DEF OrderInv, PassInOrder
<1> QED
  BY <1>5, <1>6, <1>7, Zenon

\* A row that is recorded or skipped: the count and the dedup row stay.
LEMMA NotAppliedOrder ==
    ASSUME IInv, OrderInv, NEW h \in handling, DiscardStale(h) \/ SkipReplay(h) \/ RejectPayload(h)
    PROVE  OrderInv'
<1> USE DEF OrderInv
<1>1. Handled(h) /\ UNCHANGED <<uop, last, applied, declared>>
  BY Zenon DEF DiscardStale, SkipReplay, RejectPayload, ledger
<1>2. heard' = heard \cup {h.row} /\ UNCHANGED <<out, seqNo, stumbled>>
      /\ recorded \subseteq recorded' /\ recorded' \subseteq recorded \cup {h.row}
  BY <1>1, Zenon DEF Handled, outbox, drainer, DiscardStale, SkipReplay, RejectPayload
<1>3. HandInOrder' /\ WireInOrder' /\ PassInOrder'
  BY <1>1, <1>2, HandledOrder, Zenon
<1>4. h.row \in DOMAIN out /\ h.row \in InHand
  BY CoreTyped, Zenon DEF InHand
<1>5. Rows' /\ Numbered' /\ Claimed' /\ CountIsLedger'
  <2>1. Rows' /\ Numbered'
    BY <1>1, <1>2, <1>4, Zenon DEF Rows, Numbered, Twins
  <2>2. Claimed'
    BY <1>1, <1>2, ClaimedSame, Zenon
  <2>3. CountIsLedger'
    BY <1>1, <1>2, Zenon DEF CountIsLedger
  <2> QED
    BY <2>1, <2>2, <2>3, Zenon
<1>6. ASSUME SkipReplay(h), h.row \notin applied, h.row \notin recorded
      PROVE  /\ h.row \in stumbled
             /\ \E j \in applied : j > h.row /\ Twins(j, h.row)
  <2> PICK n : n = h.row
    OBVIOUS
  <2>1. /\ out[n].bin \in Bins /\ out[n].epoch \in Epochs /\ out[n].seq \in Nat
        /\ out[n].seq \in 1..seqNo[out[n].bin][out[n].epoch]
        /\ ~(out[n].seq > last[out[n].bin][out[n].epoch])
    BY <1>4, <1>6, RowTyped, Zenon DEF SkipReplay, ClaimDeltaSequence, Numbered
  <2>2. last[out[n].bin][out[n].epoch] \in Nat
    BY <2>1, CoreTyped, Zenon
  <2>3. seqNo[out[n].bin][out[n].epoch] \in Nat
    BY <2>1, Zenon DEF IInv, TypesOK, OutboxOK
  <2>4. last[out[n].bin][out[n].epoch] # 0 /\ out[n].seq <= last[out[n].bin][out[n].epoch]
    BY <2>1, <2>2, <2>3, NotAbove, Zenon
  <2>5. PICK j \in applied : /\ out[j].bin = out[n].bin /\ out[j].epoch = out[n].epoch
                             /\ out[j].seq = last[out[n].bin][out[n].epoch]
    BY <2>1, <2>4, Zenon DEF Claimed
  <2>6. j \in DOMAIN out /\ n \in DOMAIN out /\ j # n /\ Twins(j, n)
    BY <1>4, <1>6, <2>5, Zenon DEF Rows, Twins
  <2>7. j \in Nat /\ n \in Nat
    <3>1. Len(out) \in Nat /\ DOMAIN out = 1..Len(out)
      BY RowTyped, Zenon
    <3> QED
      BY ONLY <2>6, <3>1
  <2>8. ~(j < n)
    <3>1. ASSUME j < n PROVE out[j].seq < out[n].seq
      BY <2>6, <3>1, Zenon DEF Numbered
    <3> QED
      BY <2>1, <2>2, <2>4, <2>5, <3>1, Zenon
  <2>9. j > n /\ n < j
    BY <2>6, <2>7, <2>8
  <2>10. n \in Through
    BY <2>6, <2>9, Zenon DEF HandInOrder
  <2>11. n \in stumbled
    BY <1>6, <2>10, Zenon DEF Through, OnlyOvertakenSkipped
  <2> QED
    BY <2>6, <2>9, <2>11, Zenon
<1>7. OnlyOvertakenSkipped'
  <2>1. ASSUME NEW i \in heard' \ (applied \cup recorded')
        PROVE  /\ i \in stumbled
               /\ \E j \in applied : j > i /\ Twins(j, i)
    <3>1. CASE i \in heard
      BY <1>2, <2>1, <3>1, Zenon DEF OnlyOvertakenSkipped, Twins
    <3>2. CASE i = h.row
      <4>1. h.row \notin applied /\ h.row \notin recorded /\ h.row \notin recorded'
        BY <1>2, <2>1, <3>2, Zenon
      <4>2. SkipReplay(h)
        BY <4>1, Zenon DEF DiscardStale, RejectPayload
      <4> QED
        BY <1>6, <3>2, <4>1, <4>2, Zenon
    <3> QED
      BY <1>2, <2>1, <3>1, <3>2, Zenon
  <2>2. \A i, j : Twins(j, i) => out'[j].bin = out'[i].bin /\ out'[j].epoch = out'[i].epoch
    BY <1>2, Zenon DEF Twins
  <2>3. stumbled' = stumbled /\ applied' = applied
    BY <1>1, <1>2, Zenon
  <2> QED
    BY <2>1, <2>2, <2>3, Zenon DEF OnlyOvertakenSkipped
<1> QED
  BY <1>3, <1>5, <1>7, Zenon

\* A row that is applied: its number is above the last, so it is applied once.
LEMMA ApplyOrder == ASSUME IInv, OrderInv, NEW h \in handling, Apply(h) PROVE OrderInv'
<1> USE DEF OrderInv
<1> PICK n : n = h.row
  OBVIOUS
<1> PICK d : d = out[n]
  OBVIOUS
<1>1. /\ Handled(h) /\ d.seq > last[d.bin][d.epoch]
      /\ last' = [last EXCEPT ![d.bin][d.epoch] = d.seq] /\ applied' = applied \cup {n}
      /\ \/ uop' = [uop EXCEPT ![d.bin] = @ - d.delta] /\ UNCHANGED declared
         \/ /\ uop' = [uop EXCEPT ![d.bin] = 0]
            /\ declared' = declared \cup {i \in applied' : out[i].bin = d.bin}
      /\ UNCHANGED recorded
  BY Zenon DEF Apply, ClaimDeltaSequence
<1>2. heard' = heard \cup {n} /\ UNCHANGED <<out, seqNo, stumbled>>
  BY <1>1, Zenon DEF Handled, outbox, drainer
<1>3. HandInOrder' /\ WireInOrder' /\ PassInOrder'
  BY <1>1, <1>2, HandledOrder, Zenon
<1>4. /\ n \in DOMAIN out /\ d.bin \in Bins /\ d.epoch \in Epochs /\ d.delta \in Nat
      /\ d.seq \in Nat
  BY CoreTyped, RowTyped, Zenon
<1>5. last[d.bin][d.epoch] \in Nat /\ uop[d.bin] \in Int
  BY <1>4, CoreTyped, Zenon
<1>6. n \notin applied
  <2>1. n \in applied => d.seq <= last[d.bin][d.epoch]
    BY Zenon DEF Claimed
  <2>2. d.seq > last[d.bin][d.epoch]
    BY <1>1, Zenon
  <2> QED
    BY ONLY <1>4, <1>5, <2>1, <2>2
<1>7. Rows' /\ Numbered'
  BY <1>1, <1>2, <1>4, Zenon DEF Rows, Numbered, Twins
<1>8. /\ last'[d.bin][d.epoch] = d.seq
      /\ \A b \in Bins, e \in Epochs : b # d.bin \/ e # d.epoch => last'[b][e] = last[b][e]
  <2>1. last \in [Bins -> [Epochs -> Nat]] /\ last[d.bin] \in [Epochs -> Nat]
    BY <1>4, CoreTyped, Zenon
  <2>2. /\ last'[d.bin] = [last[d.bin] EXCEPT ![d.epoch] = d.seq]
        /\ \A b \in Bins : b # d.bin => last'[b] = last[b]
    BY <1>1, <1>4, <2>1, Zenon
  <2>3. /\ last'[d.bin][d.epoch] = d.seq
        /\ \A e \in Epochs : e # d.epoch => last'[d.bin][e] = last[d.bin][e]
    BY <1>4, <2>1, <2>2, Zenon
  <2> QED
    BY <2>2, <2>3, Zenon
<1>9. Claimed'
  <2>1. ASSUME NEW i \in applied' PROVE out'[i].seq <= last'[out'[i].bin][out'[i].epoch]
    <3>1. CASE i = n
      <4>1. out'[i] = d /\ last'[d.bin][d.epoch] = d.seq
        BY <1>2, <1>8, <3>1, Zenon
      <4>2. d.seq <= d.seq
        BY ONLY <1>4
      <4> QED
        BY <4>1, <4>2, Zenon
    <3>2. CASE i \in applied
      <4>1. /\ out[i].seq <= last[out[i].bin][out[i].epoch] /\ out[i].bin \in Bins
            /\ out[i].epoch \in Epochs /\ out[i].seq \in Nat
        BY <3>2, RowTyped, Zenon DEF Claimed, Rows
      <4>2. CASE out[i].bin = d.bin /\ out[i].epoch = d.epoch
        <5>1. out[i].seq <= last[d.bin][d.epoch] /\ last'[out[i].bin][out[i].epoch] = d.seq
          BY <1>8, <4>1, <4>2, Zenon
        <5>2. out[i].seq <= d.seq
          BY <1>1, <1>4, <1>5, <4>1, <5>1, StillBelow, Zenon
        <5> QED
          BY <1>2, <5>1, <5>2, Zenon
      <4>3. CASE out[i].bin # d.bin \/ out[i].epoch # d.epoch
        BY <1>2, <1>8, <4>1, <4>3, Zenon
      <4> QED
        BY <4>2, <4>3, Zenon
    <3> QED
      BY <1>1, <3>1, <3>2, Zenon
  <2>2. ASSUME NEW b \in Bins, NEW e \in Epochs, last'[b][e] # 0
        PROVE  \E j \in applied' :
                  out'[j].bin = b /\ out'[j].epoch = e /\ out'[j].seq = last'[b][e]
    <3>1. CASE b = d.bin /\ e = d.epoch
      BY <1>1, <1>2, <1>8, <3>1, Zenon
    <3>2. CASE b # d.bin \/ e # d.epoch
      <4>1. last'[b][e] = last[b][e]
        BY <1>8, <3>2, Zenon
      <4>2. PICK j \in applied : out[j].bin = b /\ out[j].epoch = e /\ out[j].seq = last[b][e]
        BY <2>2, <4>1, Zenon DEF Claimed
      <4> QED
        BY <1>1, <1>2, <4>1, <4>2, Zenon
    <3> QED
      BY <3>1, <3>2, Zenon
  <2> QED
    BY <2>1, <2>2, Zenon DEF Claimed
<1>10. OnlyOvertakenSkipped'
  <2>1. ASSUME NEW i \in heard' \ (applied' \cup recorded')
        PROVE  /\ i \in stumbled'
               /\ \E j \in applied' : /\ j > i /\ out'[j].bin = out'[i].bin
                                      /\ out'[j].epoch = out'[i].epoch
    <3>1. i \in heard \ (applied \cup recorded)
      BY <1>1, <1>2, <2>1, Zenon
    <3>2. PICK j \in applied : /\ j > i /\ out[j].bin = out[i].bin
                               /\ out[j].epoch = out[i].epoch
      BY <3>1, Zenon DEF OnlyOvertakenSkipped
    <3>3. i \in stumbled
      BY <3>1, Zenon DEF OnlyOvertakenSkipped
    <3> QED
      BY <1>1, <1>2, <3>2, <3>3, Zenon
  <2> QED
    BY <2>1, Zenon DEF OnlyOvertakenSkipped
<1>11. CountIsLedger'
  <2>1. Amounts' = Amounts
    BY <1>2, Zenon DEF Amounts
  <2>2. ASSUME NEW c \in Bins PROVE uop'[c] = -SumFunctionOnSet(Amounts, Open(c)')
    <3>1. CASE c # d.bin
      <4>1. Open(c)' = Open(c)
        BY <1>1, <1>2, <3>1, Zenon DEF Open
      <4>2. uop'[c] = uop[c]
        BY <1>1, <1>4, <3>1, CoreTyped, Zenon
      <4> QED
        BY <4>1, <4>2, LedgerIs, Zenon
    <3>2. CASE c = d.bin /\ uop' = [uop EXCEPT ![d.bin] = 0]
                /\ declared' = declared \cup {i \in applied' : out[i].bin = d.bin}
      <4>1. Open(c)' = {}
        BY <1>2, <3>2, Zenon DEF Open
      <4>2. uop'[c] = 0
        BY <3>2, CoreTyped, Zenon
      <4>3. SumFunctionOnSet(Amounts, Open(c)') = 0
        BY <4>1, SumEmpty, Zenon
      <4> QED
        BY <4>2, <4>3, MinusZero, Zenon
    <3>3. CASE c = d.bin /\ uop' = [uop EXCEPT ![d.bin] = @ - d.delta] /\ UNCHANGED declared
      <4>1. CASE n \in declared
        \* not so: what is declared was applied
        BY <1>6, <4>1, Zenon DEF Rows
      <4>2. CASE n \notin declared
        <5>1. Open(c)' = Open(c) \cup {n}
          BY <1>1, <1>2, <3>3, <4>2, Zenon DEF Open
        <5>2. uop'[c] = uop[c] - d.delta
          BY <3>3, CoreTyped, Zenon
        <5>3. n \notin Open(c) /\ Open(c) \cup {n} \subseteq DOMAIN out
          BY <1>4, <1>6, Zenon DEF Open, Rows
        <5>4. IsFiniteSet(Open(c))
          BY <5>3, RowTyped, FS_Subset
        <5>5. (\A y \in Open(c) \cup {n} : Amounts[y] \in Nat) /\ Amounts[n] = d.delta
          BY <1>4, <5>3, RowTyped, Zenon DEF Amounts
        <5>6. SumFunctionOnSet(Amounts, Open(c) \cup {n})
               = SumFunctionOnSet(Amounts, Open(c)) + d.delta
          <6> PICK f : f = Amounts
            OBVIOUS
          <6> PICK S : S = Open(c)
            OBVIOUS
          <6>1. IsFiniteSet(S) /\ n \notin S /\ f[n] = d.delta
            BY <5>3, <5>4, <5>5, Zenon
          <6>2. \A y \in S \cup {n} : f[y] \in Nat
            BY <5>5, Zenon
          <6>3. SumFunctionOnSet(f, S \cup {n}) = SumFunctionOnSet(f, S) + f[n]
            BY ONLY <6>1, <6>2, SumAdd
          <6> QED
            BY <6>1, <6>3, Zenon
        <5>7. uop[c] = -SumFunctionOnSet(Amounts, Open(c))
              /\ SumFunctionOnSet(Amounts, Open(c)) \in Nat
          BY <5>4, <5>5, SumType, LedgerIs, Zenon
        <5>8. uop'[c] = -(SumFunctionOnSet(Amounts, Open(c)) + d.delta)
          BY <1>4, <5>2, <5>7
        <5> QED
          BY <5>1, <5>6, <5>8, Zenon
      <4> QED
        BY <4>1, <4>2, Zenon
    <3> QED
      BY <1>1, <3>1, <3>2, <3>3, Zenon
  <2> QED
    BY <2>1, <2>2, LedgerIsNext, Zenon
<1> QED
  BY <1>3, <1>7, <1>9, <1>10, <1>11, Zenon

\* Every step keeps the order and the ledger.
LEMMA OrderKept == IInv /\ OrderInv /\ [Next]_vars => OrderInv'
<1> SUFFICES ASSUME IInv, OrderInv, [Next]_vars PROVE OrderInv'
  OBVIOUS
<1>1. CASE EdgeStep
  <2>1. CASE FlushStep
    BY <2>1, MostStill, StillKept, FlushSendOrder, Zenon DEF FlushStep
  <2>2. CASE TickRead \/ TickApply \/ FlushLoop \/ FlushSendFails \/ DrainBegin
    BY <2>2, MostStill, StillKept, FlushSendFailsOrder, DrainBeginOrder, Zenon
  <2>3. CASE \E i \in batch : Publish(i) \/ PublishUnacked(i) \/ PublishFails(i)
    BY <2>3, DrainedOrder, Zenon
  <2> QED
    BY <1>1, <2>1, <2>2, <2>3, Zenon DEF EdgeStep
<1>2. CASE CoreStep
  <2>1. CASE \E b \in Bins : Reset(b) \/ Arrive(b) \/ PickUp(b) \/ RecordCount(b)
    BY <2>1, MostStill, StillKept, DeclareOrder, Zenon
  <2>2. CASE SendDataToEdge \/ ReadEpoch
    BY <2>2, MostStill, StillKept, ReadEpochOrder, Zenon
  <2>3. CASE CoreHandles
    BY <2>3, NotAppliedOrder, ApplyOrder, Zenon DEF CoreHandles
  <2> QED
    BY <1>2, <2>1, <2>2, <2>3, Zenon DEF CoreStep
<1>3. CASE NoticeStep \/ UNCHANGED vars
  BY <1>3, MostStill, StillKept, Zenon
<1>4. CASE EdgeRestart \/ CoreRestart
  BY <1>4, RestartOrder, Zenon
<1> QED
  BY <1>1, <1>2, <1>3, <1>4, Zenon DEF Next

\* For every set of bins and every bound: a count that Core handled and neither
\* applied nor recorded had stumbled (its publish failed, or Core stopped with it
\* in hand) and a later count of the same bin and generation was applied before
\* it (claimDeltaSequence): the drainer, the wire and the consumer keep the order
\* of the rows, and AllocateInventoryDeltaSeq numbers them in it.
THEOREM SkipsOnlyOvertaken == Spec => []OnlyOvertakenSkipped
<1>1. OrderInv => OnlyOvertakenSkipped
  BY Zenon DEF OrderInv
<1> QED
  BY <1>1, InitIInv, Inductive, InitOrder, OrderKept, PTL DEF Spec

\* For every set of bins and every bound: bins.uop_remaining is the last
\* declaration less the rows applied since, each once (claimDeltaSequence claims
\* a number above the last one in the transaction that applies the count).
THEOREM UopIsLedger == Spec => []CountIsLedger
<1>1. OrderInv => CountIsLedger
  BY Zenon DEF OrderInv
<1> QED
  BY <1>1, InitIInv, Inductive, InitOrder, OrderKept, PTL DEF Spec

-----------------------------------------------------------------------------
(* Conservation.  Every step of Edge moves parts from one of the places    *)
(* they may be in to another.                                              *)

\* A tick under way has read the parts that are held.
TickHeld ==
    /\ \A s, t \in tick : s = t
    /\ \A t \in tick : t.held = held

\* The places, as functions of the variables that hold them.
Gathered(a) == SumFunctionOnSet([b \in Bins |-> a[b].delta], Bins)
Sending(S) == SumFunction([s \in {s \in S : s.queued} |-> s.delta])
Written(o) == SumFunctionOnSet([i \in DOMAIN o |-> o[i].delta], DOMAIN o)

PartsInv ==
    /\ TickHeld /\ parts \in Nat /\ gone \in Nat /\ again \in Nat
    /\ parts + again = held + (Cardinality(tick) + Gathered(acc) - Sending(snap)) + Written(out) + gone

\* What Edge's memory holds.
LEMMA MemoryIs ==
    InMemory = Cardinality(tick) + Gathered(acc) - Sending(snap)
<1>1. DOMAIN [b \in Bins |-> acc[b].delta] = Bins
  BY Zenon
<1> QED
  BY <1>1, Zenon DEF InMemory, Gathered, Sending, SumFunction

\* The conjunct is the property.
LEMMA PartsAre == PartsInv => PartsConserved
<1>1. DOMAIN [i \in DOMAIN out |-> out[i].delta] = DOMAIN out
  BY Zenon
<1> QED
  BY <1>1, MemoryIs, Zenon DEF PartsInv, PartsConserved, Written, SumFunction

\* The entry in hand counts as sent once its row is written.
LEMMA SendingNone == ASSUME NEW S, \A s \in S : ~s.queued PROVE Sending(S) = 0
<1>1. {s \in S : s.queued} = {}
  BY Zenon
<1> PICK f : f = [s \in {s \in S : s.queued} |-> s.delta]
  BY Zenon
<1>2. DOMAIN f = {}
  BY <1>1, Zenon
<1>3. Sending(S) = SumFunctionOnSet(f, DOMAIN f)
  BY Zenon DEF Sending, SumFunction
<1> QED
  BY <1>2, <1>3, SumEmpty, Zenon

\* And then for what its row carries.
LEMMA SendingOne == ASSUME NEW s, s.queued, s.delta \in Nat PROVE Sending({s}) = s.delta
<1>1. {x \in {s} : x.queued} = {s}
  BY Zenon
<1> PICK f : f = [x \in {x \in {s} : x.queued} |-> x.delta]
  BY Zenon
<1>2. DOMAIN f = {s} /\ f[s] = s.delta
  BY <1>1, Zenon
<1>3. Sending({s}) = SumFunctionOnSet(f, {s})
  BY <1>2, Zenon DEF Sending, SumFunction
<1>4. IsFiniteSet({s}) /\ {s} \ {s} = {}
  BY FS_Singleton, Zenon
<1>5. SumFunctionOnSet(f, {s}) = f[s] + SumFunctionOnSet(f, {})
  BY <1>2, <1>4, SumRemove
<1>6. SumFunctionOnSet(f, {}) = 0
  BY SumEmpty, Zenon
<1> QED
  BY <1>2, <1>3, <1>5, <1>6

\* What the types say of the places.
LEMMA PlacesTyped ==
    ASSUME IInv
    PROVE  /\ held \in Nat /\ Gathered(acc) \in Nat /\ Written(out) \in Nat
           /\ Sending(snap) \in Nat /\ Sending(snap) <= Gathered(acc)
           /\ acc \in [Bins -> [delta : Nat, epoch : 0..MaxEpoch]]
           /\ \A b \in Bins : acc[b].delta \in Nat
<1>1. held \in Nat /\ acc \in [Bins -> [delta : Nat, epoch : 0..MaxEpoch]]
  BY Zenon DEF IInv, TypesOK, SlotOK
<1>2. \A b \in Bins : acc[b].delta \in Nat
  BY <1>1, Zenon
<1> PICK f : f = [b \in Bins |-> acc[b].delta]
  BY Zenon
<1>3. IsFiniteSet(Bins) /\ \A b \in Bins : f[b] = acc[b].delta /\ f[b] \in Nat
  BY <1>2, CountPathAssumption, Zenon
<1>4. Gathered(acc) \in Nat /\ Gathered(acc) = SumFunctionOnSet(f, Bins)
  <2>1. SumFunctionOnSet(f, Bins) \in Nat
    BY <1>3, SumType
  <2> QED
    BY <2>1, Zenon DEF Gathered
<1>5. Written(out) \in Nat
  <2> PICK g : g = [i \in DOMAIN out |-> out[i].delta]
    OBVIOUS
  <2> PICK S : S = DOMAIN out
    OBVIOUS
  <2>1. IsFiniteSet(S) /\ \A i \in S : g[i] \in Nat
    BY RowTyped, Zenon
  <2>2. SumFunctionOnSet(g, S) \in Nat
    BY <2>1, SumType
  <2> QED
    BY <2>2, Zenon DEF Written
<1>6. Sending(snap) \in Nat /\ Sending(snap) <= Gathered(acc)
  <2>1. CASE \A s \in snap : ~s.queued
    <3>1. Sending(snap) = 0
      BY <2>1, SendingNone, Zenon
    <3> QED
      BY <1>4, <3>1
  <2>2. CASE \E s \in snap : s.queued
    <3>1. PICK s \in snap : s.queued
      BY <2>2, Zenon
    <3>2. /\ snap = {s} /\ s.bin \in Bins /\ s.delta \in Nat
          /\ s.delta <= acc[s.bin].delta
      BY Zenon DEF IInv, FlushFits, TypesOK, SlotOK
    <3>3. Sending(snap) = s.delta
      BY <3>1, <3>2, SendingOne, Zenon
    <3>4. SumFunctionOnSet(f, Bins) = f[s.bin] + SumFunctionOnSet(f, Bins \ {s.bin})
      BY <1>3, <3>2, SumRemove
    <3>5. SumFunctionOnSet(f, Bins \ {s.bin}) \in Nat
      <4>1. IsFiniteSet(Bins \ {s.bin})
        BY <1>3, FS_RemoveElement, Zenon
      <4> QED
        BY <1>3, <4>1, SumType
    <3>6. f[s.bin] = acc[s.bin].delta /\ f[s.bin] \in Nat
      BY <1>3, <3>2, Zenon
    <3> QED
      BY <1>4, <3>2, <3>3, <3>4, <3>5, <3>6
  <2> QED
    BY <2>1, <2>2, Zenon
<1> QED
  BY <1>1, <1>2, <1>4, <1>5, <1>6, Zenon

\* One entry of the accumulator changes.
LEMMA GatheredChange ==
    ASSUME IInv, NEW b \in Bins, NEW a, \A c \in Bins : a[c].delta \in Nat,
           \A c \in Bins \ {b} : a[c] = acc[c]
    PROVE  Gathered(a) = Gathered(acc) - acc[b].delta + a[b].delta
<1> PICK f : f = [c \in Bins |-> acc[c].delta]
  BY Zenon
<1> PICK g : g = [c \in Bins |-> a[c].delta]
  BY Zenon
<1>1. IsFiniteSet(Bins) /\ \A c \in Bins : f[c] = acc[c].delta /\ g[c] = a[c].delta
  BY CountPathAssumption, Zenon
<1>2. (\A c \in Bins : f[c] \in Nat /\ g[c] \in Nat) /\ \A c \in Bins \ {b} : g[c] = f[c]
  BY <1>1, PlacesTyped, Zenon
<1>3. SumFunctionOnSet(g, Bins) = SumFunctionOnSet(f, Bins) - f[b] + g[b]
  BY ONLY <1>1, <1>2, b \in Bins, SumChange
<1> QED
  BY <1>1, <1>3, Zenon DEF Gathered

\* Nothing gathered.
LEMMA GatheredNone ==
    ASSUME NEW a, \A b \in Bins : a[b].delta = 0 PROVE Gathered(a) = 0
<1> PICK f : f = [b \in Bins |-> a[b].delta]
  BY Zenon
<1>1. IsFiniteSet(Bins) /\ \A b \in Bins : f[b] = 0
  BY CountPathAssumption, Zenon
<1>2. SumFunctionOnSet(f, Bins) = 0
  BY <1>1, SumZero
<1> QED
  BY <1>2, Zenon DEF Gathered

\* One row more.
LEMMA WrittenMore ==
    ASSUME IInv, NEW d \in Delta
    PROVE  Written(Append(out, d)) = Written(out) + d.delta
<1> PICK n : n = Len(out) + 1
  OBVIOUS
<1> PICK o : o = Append(out, d)
  BY Zenon
<1> PICK S : S = DOMAIN out
  OBVIOUS
<1>1. DOMAIN o = S \cup {n} /\ o[n] = d /\ n \notin S /\ \A i \in S : o[i] = out[i]
  BY RowTyped
<1> PICK f : f = [i \in DOMAIN out |-> out[i].delta]
  BY Zenon
<1> PICK g : g = [i \in DOMAIN o |-> o[i].delta]
  BY Zenon
<1>2. IsFiniteSet(S) /\ (\A i \in S : f[i] = g[i] /\ g[i] \in Nat)
  BY <1>1, RowTyped, Zenon
<1>3. g[n] = d.delta /\ d.delta \in Nat
  BY <1>1, Zenon DEF Delta
<1>4. \A y \in S \cup {n} : g[y] \in Nat
  BY <1>2, <1>3, Zenon
<1>5. SumFunctionOnSet(g, S \cup {n}) = SumFunctionOnSet(g, S) + g[n]
  <2>1. n \notin S /\ IsFiniteSet(S)
    BY <1>1, <1>2, Zenon
  <2> QED
    BY ONLY <1>4, <2>1, SumAdd
<1>6. SumFunctionOnSet(f, S) = SumFunctionOnSet(g, S)
  <2>1. IsFiniteSet(S) /\ \A i \in S : f[i] = g[i]
    BY <1>2, Zenon
  <2> QED
    BY ONLY <2>1, SumSame
<1>7. Written(o) = SumFunctionOnSet(g, S \cup {n}) /\ Written(out) = SumFunctionOnSet(f, S)
  BY <1>1, Zenon DEF Written
<1> QED
  BY <1>3, <1>5, <1>6, <1>7, Zenon

\* The steps that leave every place alone.
Idle == UNCHANGED <<held, tick, acc, snap, out, parts, gone, again>>

\* Core's steps, the drainer's and the notices' are such steps.
LEMMA MostIdle ==
    ASSUME \/ FlushLoop \/ FlushEnd \/ DrainBegin \/ CoreStep \/ NoticeStep \/ CoreRestart
           \/ \E i \in batch : Publish(i) \/ PublishUnacked(i) \/ PublishFails(i)
           \/ UNCHANGED vars
    PROVE  Idle
<1>1. CASE FlushLoop \/ FlushEnd \/ DrainBegin \/ CoreRestart
  BY <1>1, Zenon DEF FlushLoop, FlushEnd, DrainBegin, CoreRestart, slot, accumulator, outbox,
     Idle
<1>2. CASE \E i \in batch : Publish(i) \/ PublishUnacked(i) \/ PublishFails(i)
  <2>1. PICK i : Drained(i)
    BY <1>2, Zenon DEF Publish, PublishUnacked, PublishFails
  <2> QED
    BY <2>1, Zenon DEF Drained, slot, accumulator, outbox, Idle
<1>3. CASE NoticeStep
  <2>1. CASE DelayNotice
    BY <2>1, Zenon DEF DelayNotice, slot, accumulator, outbox, Idle
  <2>2. CASE \E n \in Range(down) : EdgeHandles(n) \/ LoseNotice(n)
    <3>1. PICK n : Take(n)
      BY <2>2, Zenon DEF EdgeHandles, LoseNotice, HandleDelivered, HandleUOPAdjustment,
         HandleBinEpochRefresh, HandleBinPickedUp
    <3> QED
      BY <3>1, Zenon DEF Take, outbox, Idle
  <2> QED
    BY <1>3, <2>1, <2>2, Zenon DEF NoticeStep
<1>4. CASE CoreStep
  <2>1. CASE \E b \in Bins : Reset(b) \/ Arrive(b) \/ PickUp(b) \/ RecordCount(b)
    BY <2>1, Zenon DEF Reset, Arrive, PickUp, RecordCount, slot, accumulator, outbox, Idle
  <2>2. CASE SendDataToEdge \/ ReadEpoch
    BY <2>2, Zenon DEF SendDataToEdge, ReadEpoch, slot, accumulator, outbox, Idle
  <2>3. CASE CoreHandles
    <3>1. PICK h : Handled(h)
      BY <2>3, Zenon DEF CoreHandles, DiscardStale, SkipReplay, RejectPayload, Apply
    <3> QED
      BY <3>1, Zenon DEF Handled, slot, accumulator, outbox, Idle
  <2> QED
    BY <1>4, <2>1, <2>2, <2>3, Zenon DEF CoreStep
<1>5. CASE UNCHANGED vars
  BY <1>5, Zenon DEF vars, slot, accumulator, outbox, Idle
<1> QED
  BY <1>1, <1>2, <1>3, <1>4, <1>5, Zenon

\* A set with at most one element has none or one.
LEMMA CountOne == ASSUME NEW x PROVE Cardinality({x}) = 1 /\ Cardinality({}) = 0
BY FS_Singleton, FS_EmptySet

\* A tick is under way or not.
LEMMA CountIsOne == ASSUME PartsInv PROVE Cardinality(tick) \in {0, 1} /\ Cardinality(tick) \in Nat
<1>1. tick = {} \/ \E t \in tick : tick = {t}
  BY Zenon DEF PartsInv, TickHeld
<1>2. Cardinality(tick) = 0 \/ Cardinality(tick) = 1
  BY <1>1, CountOne, Zenon
<1> QED
  BY <1>2

\* A tick: one part more, and it is charged or held.
LEMMA TickParts == ASSUME IInv, PartsInv, TickRead \/ TickApply PROVE PartsInv'
<1>1. CASE TickRead
  <2>1. /\ tick = {} /\ parts' = parts + 1
        /\ tick' = {[bin |-> active, epoch |-> stamp, held |-> held]}
        /\ UNCHANGED <<held, acc, snap, out, gone, again>>
    BY <1>1, Zenon DEF TickRead, slot, accumulator, outbox
  <2>2. Cardinality(tick) = 0 /\ Cardinality(tick') = 1
    BY <2>1, CountOne, Zenon
  <2>3. TickHeld'
    BY <2>1 DEF TickHeld
  <2>4. UNCHANGED <<Gathered(acc), Sending(snap), Written(out)>>
    BY <2>1, Zenon
  <2>5. parts' = parts + 1 /\ UNCHANGED <<held, gone, again>>
    BY <2>1, Zenon
  <2> QED
    BY <2>2, <2>3, <2>4, <2>5, PlacesTyped DEF PartsInv
<1>2. CASE TickApply
  <2>1. PICK t \in tick : TickHold(t) \/ TickCharge(t)
    BY <1>2, Zenon DEF TickApply
  <2>2. tick' = {} /\ UNCHANGED <<snap, out, parts>>
    BY <1>2, Zenon DEF TickApply, outbox
  <2>3. tick = {t} /\ t.held = held
    BY Zenon DEF PartsInv, TickHeld
  <2>4. Cardinality(tick) = 1 /\ Cardinality(tick') = 0
    BY <2>2, <2>3, CountOne, Zenon
  <2>5. TickHeld'
    BY <2>2, Zenon DEF TickHeld
  <2>6. UNCHANGED <<Sending(snap), Written(out)>>
    BY <2>2, Zenon
  <2>7. CASE t.bin = None
    <3>1. /\ UNCHANGED <<Gathered(acc), again>>
          /\ \/ held' = held + 1 /\ gone' = gone
             \/ held' = held /\ gone' = gone + 1
      BY <2>1, <2>7, Zenon DEF TickHold, TickCharge
    <3> QED
      BY <2>2, <2>4, <2>5, <2>6, <3>1, PlacesTyped DEF PartsInv
  <2>8. CASE t.bin # None
    <3>1. t.bin \in Bins
      BY <2>8, Zenon DEF IInv, TypesOK, SlotOK
    <3>2. /\ gone' = gone
          /\ \/ held' = 0 /\ again' = again
             \/ held' = held /\ again' = again + held
      BY <2>1, <2>3, <2>8, Zenon DEF TickHold, TickCharge
    <3> PICK a : a = acc'
      OBVIOUS
    <3>3. /\ a[t.bin].delta = acc[t.bin].delta + (1 + held)
          /\ \A c \in Bins \ {t.bin} : a[c] = acc[c]
      <4>1. a = [acc EXCEPT ![t.bin] = RecordBin(acc[t.bin], 1 + held, t.epoch)]
        BY <2>1, <2>3, <2>8, Zenon DEF TickHold, TickCharge
      <4>2. /\ a[t.bin] = RecordBin(acc[t.bin], 1 + held, t.epoch)
            /\ \A c \in Bins \ {t.bin} : a[c] = acc[c]
        BY <3>1, <4>1, PlacesTyped, Zenon
      <4> QED
        BY <4>2 DEF RecordBin
    <3>4. \A c \in Bins : a[c].delta \in Nat
      <4>1. acc[t.bin].delta + (1 + held) \in Nat
        BY <3>1, PlacesTyped
      <4> QED
        BY <3>1, <3>3, <4>1, PlacesTyped, Zenon
    <3>5. Gathered(a) = Gathered(acc) - acc[t.bin].delta + a[t.bin].delta
      BY <3>1, <3>3, <3>4, GatheredChange, Zenon
    <3>6. Gathered(acc)' = Gathered(acc) + (1 + held)
      <4>1. Gathered(a) = Gathered(acc) + (1 + held)
        BY <3>1, <3>3, <3>5, PlacesTyped
      <4> QED
        BY <4>1, Zenon
    <3> QED
      BY <2>2, <2>4, <2>5, <2>6, <3>2, <3>6, PlacesTyped DEF PartsInv
  <2> QED
    BY <2>7, <2>8, Zenon
<1> QED
  BY <1>1, <1>2, Zenon

\* The flush: an entry is copied, its row is written, and the entry is reduced.
LEMMA FlushParts ==
    ASSUME IInv, PartsInv,
           (\E b \in Bins : FlushSnapshot(b)) \/ FlushSend \/ FlushSendFails \/ FlushCommit
    PROVE  PartsInv'
<1>1. UNCHANGED <<held, tick, parts, gone, again>>
  BY Zenon DEF FlushSnapshot, FlushSend, FlushSendFails, FlushCommit, slot
<1>2. TickHeld' /\ UNCHANGED Cardinality(tick)
  BY <1>1, Zenon DEF PartsInv, TickHeld
<1>3. \A s \in snap : snap = {s}
  BY Zenon DEF IInv, FlushFits
<1>4. \A s \in snap : s.bin \in Bins /\ s.delta \in Nat /\ s.delta <= acc[s.bin].delta
  BY Zenon DEF IInv, FlushFits, TypesOK, SlotOK
<1>5. CASE (\E b \in Bins : FlushSnapshot(b)) \/ FlushSendFails
  <2>1. UNCHANGED <<acc, out>>
    BY <1>5, Zenon DEF FlushSnapshot, FlushSendFails, outbox
  <2>2. Sending(snap) = 0
    <3>1. \A s \in snap : ~s.queued
      BY <1>3, <1>5, Zenon DEF FlushSnapshot, FlushSendFails
    <3> QED
      BY <3>1, SendingNone, Zenon
  <2>3. Sending(snap)' = 0
    <3>1. CASE FlushSendFails
      <4>1. snap' = {}
        BY <3>1, Zenon DEF FlushSendFails
      <4> QED
        BY <4>1, SendingNone, Zenon
    <3>2. ASSUME NEW b \in Bins, FlushSnapshot(b)
          PROVE  Sending(snap)' = 0
      <4> PICK s : s = [bin |-> b, delta |-> acc[b].delta, epoch |-> acc[b].epoch,
                        queued |-> FALSE]
        OBVIOUS
      <4>1. snap' \subseteq {s} /\ ~s.queued
        BY <3>2, Zenon DEF FlushSnapshot
      <4>2. \A x \in snap' : ~x.queued
        BY <4>1, Zenon
      <4> QED
        BY <4>2, SendingNone, Zenon
    <3> QED
      BY <1>5, <3>1, <3>2, Zenon
  <2>4. UNCHANGED <<Gathered(acc), Written(out)>>
    BY <2>1, Zenon
  <2> QED
    BY <1>1, <1>2, <2>2, <2>3, <2>4, PlacesTyped DEF PartsInv
<1>6. CASE FlushSend
  <2>1. PICK s \in snap :
          /\ ~s.queued
          /\ out' = Append(out, [bin |-> s.bin, delta |-> s.delta, epoch |-> s.epoch,
                                 seq |-> seqNo[s.bin][s.epoch] + 1])
          /\ snap' = {[s EXCEPT !.queued = TRUE]}
    BY <1>6, Zenon DEF FlushSend
  <2>2. UNCHANGED acc
    BY <1>6, Zenon DEF FlushSend
  <2>3. Sending(snap) = 0
    <3>1. \A x \in snap : ~x.queued
      BY <1>3, <2>1, Zenon
    <3> QED
      BY <3>1, SendingNone, Zenon
  <2> PICK q : q = [s EXCEPT !.queued = TRUE]
    OBVIOUS
  <2>4. q.queued /\ q.delta = s.delta
    <3>1. s \in [bin : Bins, delta : Nat, epoch : Epochs, queued : BOOLEAN]
      BY Zenon DEF IInv, TypesOK, SlotOK
    <3> QED
      BY <3>1, Zenon
  <2>5. Sending(snap)' = s.delta
    <3>1. Sending({q}) = q.delta
      BY <1>4, <2>4, SendingOne, Zenon
    <3> QED
      BY <2>1, <2>4, <3>1, Zenon
  <2> PICK d : d = [bin |-> s.bin, delta |-> s.delta, epoch |-> s.epoch,
                    seq |-> seqNo[s.bin][s.epoch] + 1]
    BY Zenon
  <2>6. d \in Delta /\ d.delta = s.delta
    <3>1. s.bin \in Bins /\ s.delta \in Nat /\ s.epoch \in Epochs
          /\ seqNo[s.bin][s.epoch] \in Nat
      BY Zenon DEF IInv, TypesOK, SlotOK, OutboxOK
    <3> QED
      BY <3>1 DEF Delta
  <2>7. Written(out)' = Written(out) + s.delta
    BY <2>1, <2>6, WrittenMore, Zenon
  <2>8. UNCHANGED Gathered(acc)
    BY <2>2, Zenon
  <2>9. parts + again = held + (Cardinality(tick) + Gathered(acc) - 0) + Written(out) + gone
    BY <2>3, Zenon DEF PartsInv
  <2>10. /\ held \in Nat /\ Cardinality(tick) \in Nat /\ Gathered(acc) \in Nat
         /\ Written(out) \in Nat /\ gone \in Nat /\ s.delta \in Nat
    BY <1>4, PlacesTyped, CountIsOne, Zenon DEF PartsInv
  <2>11. parts + again = held + (Cardinality(tick) + Gathered(acc) - s.delta)
                 + (Written(out) + s.delta) + gone
    BY ONLY <2>9, <2>10
  <2> QED
    BY <1>1, <1>2, <2>5, <2>7, <2>8, <2>11, Zenon DEF PartsInv
<1>7. CASE FlushCommit
  <2>1. PICK s \in snap : s.queued /\ acc' = [acc EXCEPT ![s.bin].delta = @ - s.delta]
    BY <1>7, Zenon DEF FlushCommit
  <2>2. snap' = {} /\ UNCHANGED out
    BY <1>7, Zenon DEF FlushCommit, outbox
  <2>3. Sending(snap) = s.delta
    BY <1>3, <1>4, <2>1, SendingOne, Zenon
  <2>4. Sending(snap)' = 0
    BY <2>2, SendingNone, Zenon
  <2> PICK a : a = acc'
    OBVIOUS
  <2>5. /\ a[s.bin].delta = acc[s.bin].delta - s.delta
        /\ \A c \in Bins \ {s.bin} : a[c] = acc[c]
    BY <1>4, <2>1, PlacesTyped
  <2>6. \A c \in Bins : a[c].delta \in Nat
    <3>1. acc[s.bin].delta - s.delta \in Nat
      BY <1>4, PlacesTyped
    <3> QED
      BY <1>4, <2>5, <3>1, PlacesTyped, Zenon
  <2>7. Gathered(a) = Gathered(acc) - acc[s.bin].delta + a[s.bin].delta
    BY <1>4, <2>5, <2>6, GatheredChange, Zenon
  <2>8. Gathered(acc)' = Gathered(acc) - s.delta
    <3>1. Gathered(a) = Gathered(acc) - s.delta
      BY <1>4, <2>5, <2>7, PlacesTyped
    <3> QED
      BY <3>1, Zenon
  <2>9. UNCHANGED Written(out)
    BY <2>2, Zenon
  <2>10. parts + again = held + (Cardinality(tick) + Gathered(acc) - s.delta) + Written(out) + gone
    BY <2>3, Zenon DEF PartsInv
  <2>11. /\ held \in Nat /\ Cardinality(tick) \in Nat /\ Gathered(acc) \in Nat
         /\ Written(out) \in Nat /\ gone \in Nat /\ s.delta \in Nat
    BY <1>4, PlacesTyped, CountIsOne, Zenon DEF PartsInv
  <2>12. parts + again = held + (Cardinality(tick) + (Gathered(acc) - s.delta) - 0) + Written(out) + gone
    BY ONLY <2>10, <2>11
  <2> QED
    BY <1>1, <1>2, <2>4, <2>8, <2>9, <2>12, Zenon DEF PartsInv
<1> QED
  BY <1>5, <1>6, <1>7, Zenon

\* A restart of Edge: what its memory held is gone.
LEMMA RestartParts == ASSUME IInv, PartsInv, EdgeRestart PROVE PartsInv'
<1>1. /\ gone' = gone + InMemory /\ acc' = [b \in Bins |-> [delta |-> 0, epoch |-> 0]]
      /\ tick' = {} /\ snap' = {} /\ UNCHANGED <<held, out, parts, again>>
  BY Zenon DEF EdgeRestart, slot, outbox
<1>2. TickHeld' /\ Cardinality(tick') = 0
  BY <1>1, CountOne, Zenon DEF TickHeld
<1>3. Sending(snap)' = 0 /\ Gathered(acc)' = 0
  <2>1. \A b \in Bins : acc'[b].delta = 0
    BY <1>1, Zenon
  <2>2. \A s \in snap' : ~s.queued
    BY <1>1, Zenon
  <2> QED
    BY <2>1, <2>2, GatheredNone, SendingNone, Zenon
<1>4. UNCHANGED Written(out)
  BY <1>1, Zenon
<1>5. InMemory = Cardinality(tick) + Gathered(acc) - Sending(snap) /\ Cardinality(tick) \in Nat
  BY MemoryIs, CountIsOne, Zenon
<1> QED
  BY <1>1, <1>2, <1>3, <1>4, <1>5, PlacesTyped DEF PartsInv

\* Every step conserves the parts.
LEMMA PartsKept == IInv /\ PartsInv /\ [Next]_vars => PartsInv'
<1> SUFFICES ASSUME IInv, PartsInv, [Next]_vars PROVE PartsInv'
  OBVIOUS
<1>1. CASE Idle
  <2>1. TickHeld' /\ UNCHANGED <<Cardinality(tick), Gathered(acc), Sending(snap), Written(out)>>
    BY <1>1, Zenon DEF Idle, PartsInv, TickHeld
  <2> QED
    BY <1>1, <2>1, Zenon DEF Idle, PartsInv
<1>2. CASE EdgeStep
  BY <1>1, <1>2, MostIdle, TickParts, FlushParts, Zenon DEF EdgeStep, FlushStep
<1>3. CASE EdgeRestart
  BY <1>3, RestartParts, Zenon
<1> QED
  BY <1>1, <1>2, <1>3, MostIdle, Zenon DEF Next

\* In the first state nothing is counted.
LEMMA InitParts == ASSUME Init PROVE PartsInv
<1> USE DEF Init
<1>1. \A b \in Bins : acc[b].delta = 0
  BY Zenon
<1>2. Gathered(acc) = 0 /\ Sending(snap) = 0 /\ Cardinality(tick) = 0
  BY <1>1, GatheredNone, SendingNone, CountOne, Zenon
<1>3. Written(out) = 0
  <2>1. DOMAIN out = {}
    OBVIOUS
  <2> QED
    BY <2>1, SumEmpty, Zenon DEF Written
<1>4. TickHeld
  BY Zenon DEF TickHeld
<1> QED
  BY <1>2, <1>3, <1>4 DEF PartsInv

\* For every set of bins and every bound: each part counted is held for the next
\* bin, in the accumulator or in the outbox, but for those a restart or a failed
\* hold lost and those a failed clear of the hold charged again (applyHoldAndReplay
\* charges what the row it read held; flushBins subtracts what it sent, and nothing
\* when the insert failed).
THEOREM NoPartLost == Spec => []PartsConserved
BY InitIInv, Inductive, InitParts, PartsKept, PartsAre, PTL DEF Spec

-----------------------------------------------------------------------------
(* Types.  What the histories of replies and the used bounds may hold.     *)

Answers ==
    /\ unanswered \in [Bins -> 0..MaxEpoch] /\ discarded \in [Bins -> 0..MaxEpoch]
    /\ moves \in Nat /\ faults \in Nat

\* A step uses one unit of a bound, or none.
Used == \/ UNCHANGED <<moves, faults>>
        \/ moves' = moves + 1 /\ UNCHANGED faults
        \/ faults' = faults + 1 /\ UNCHANGED moves

\* A step notes one generation of one bin in each history, or none.
Noted(f, g) == g = f \/ \E b \in Bins, e \in 0..MaxEpoch : g = [f EXCEPT ![b] = e]

\* Such a step keeps the types.
LEMMA AnswersKept ==
    ASSUME Answers, Used, Noted(unanswered, unanswered'), Noted(discarded, discarded')
    PROVE  Answers'
<1>1. moves' \in Nat /\ faults' \in Nat
  BY DEF Answers, Used
<1>2. ASSUME NEW f \in [Bins -> 0..MaxEpoch], NEW g, Noted(f, g)
      PROVE  g \in [Bins -> 0..MaxEpoch]
  BY <1>2 DEF Noted
<1>3. unanswered' \in [Bins -> 0..MaxEpoch] /\ discarded' \in [Bins -> 0..MaxEpoch]
  BY <1>2, Zenon DEF Answers
<1> QED
  BY <1>1, <1>3, Zenon DEF Answers

\* Outside the stale branch and Edge's notices no history of a reply changes.
LEMMA MostUsed ==
    ASSUME \/ EdgeStep \/ EdgeRestart \/ CoreRestart \/ DelayNotice \/ UNCHANGED vars
           \/ \E b \in Bins : Reset(b) \/ Arrive(b) \/ PickUp(b) \/ RecordCount(b)
           \/ SendDataToEdge \/ ReadEpoch
    PROVE  Used /\ UNCHANGED <<unanswered, discarded>>
<1> USE DEF Used, Fault, verdicts, budget
<1>1. CASE EdgeStep
  <2>1. CASE TickRead \/ TickApply \/ FlushLoop \/ FlushSendFails \/ DrainBegin
    BY <2>1, Zenon DEF TickRead, TickApply, TickHold, TickCharge, FlushLoop, FlushSendFails,
                       DrainBegin
  <2>2. CASE FlushStep
    BY <2>2, Zenon DEF FlushStep, FlushSnapshot, FlushSend, FlushCommit, FlushEnd
  <2>3. CASE \E i \in batch : Publish(i) \/ PublishUnacked(i) \/ PublishFails(i)
    BY <2>3, Zenon DEF Publish, PublishUnacked, PublishFails, Drained
  <2> QED
    BY <1>1, <2>1, <2>2, <2>3, Zenon DEF EdgeStep
<1>2. CASE EdgeRestart \/ CoreRestart \/ DelayNotice
  BY <1>2, Zenon DEF EdgeRestart, CoreRestart, DelayNotice
<1>3. CASE \E b \in Bins : Reset(b) \/ Arrive(b) \/ PickUp(b) \/ RecordCount(b)
  BY <1>3, Zenon DEF Reset, Arrive, PickUp, RecordCount
<1>4. CASE SendDataToEdge \/ ReadEpoch \/ UNCHANGED vars
  BY <1>4, Zenon DEF SendDataToEdge, ReadEpoch, vars
<1> QED
  BY <1>1, <1>2, <1>3, <1>4, Zenon

\* The stale branch notes the generation that the transaction read.
LEMMA HandlesNoted ==
    ASSUME IInv, CoreHandles
    PROVE  Used /\ Noted(unanswered, unanswered') /\ Noted(discarded, discarded')
<1>1. PICK h \in handling : DiscardStale(h) \/ SkipReplay(h) \/ RejectPayload(h) \/ Apply(h)
  BY Zenon DEF CoreHandles
<1>2. Used
  BY <1>1, Zenon DEF DiscardStale, SkipReplay, RejectPayload, Apply, Used, Fault, budget
<1>3. CASE DiscardStale(h)
  <2>1. out[h.row].bin \in Bins /\ h.seen \in 0..MaxEpoch
    <3>1. h.row \in DOMAIN out /\ h.seen \in Epochs
      BY Zenon DEF IInv, TypesOK, CoreOK
    <3>2. \A e \in Epochs : e \in 0..MaxEpoch
      BY CountPathAssumption DEF Epochs
    <3> QED
      BY <3>1, <3>2, RowTyped, Zenon
  <2>2. /\ unanswered' \in {unanswered, [unanswered EXCEPT ![out[h.row].bin] = h.seen]}
        /\ discarded' \in {discarded, [discarded EXCEPT ![out[h.row].bin] = h.seen]}
    BY <1>3, Zenon DEF DiscardStale
  <2> QED
    BY <1>2, <2>1, <2>2, Zenon DEF Noted
<1>4. CASE SkipReplay(h) \/ RejectPayload(h) \/ Apply(h)
  BY <1>2, <1>4, Zenon DEF SkipReplay, RejectPayload, Apply, Noted
<1> QED
  BY <1>1, <1>3, <1>4, Zenon

\* A notice notes its own generation, or that of the reply it came after.
LEMMA NoticeNoted ==
    ASSUME IInv, NEW n \in Range(down), EdgeHandles(n) \/ LoseNotice(n)
    PROVE  Used /\ Noted(unanswered, unanswered') /\ Noted(discarded, discarded')
<1>1. Take(n)
  BY Zenon DEF EdgeHandles, LoseNotice, HandleDelivered, HandleUOPAdjustment,
     HandleBinEpochRefresh, HandleBinPickedUp
<1>2. Noted(discarded, discarded')
  BY <1>1, Zenon DEF Take, Noted
<1>3. Used
  BY Zenon DEF EdgeHandles, LoseNotice, HandleDelivered, HandleUOPAdjustment,
     HandleBinEpochRefresh, HandleBinPickedUp, Used, Fault, budget
<1>4. n.bin \in Bins /\ n.epoch \in 0..MaxEpoch /\ repaired[n.bin] \in 0..MaxEpoch
  <2>1. n \in Message
    BY NoticesFine, Zenon DEF Fine
  <2>2. n.bin \in Bins /\ n.epoch \in 0..MaxEpoch
    BY <2>1 DEF Message
  <2>3. repaired \in [Bins -> 0..MaxEpoch]
    BY Zenon DEF IInv, TypesOK, CoreOK
  <2> QED
    BY <2>2, <2>3, Zenon
<1>5. unanswered' \in {unanswered, [unanswered EXCEPT ![n.bin] = n.epoch],
                       [unanswered EXCEPT ![n.bin] = repaired[n.bin]]}
  BY Zenon DEF EdgeHandles, LoseNotice, HandleDelivered, HandleUOPAdjustment, BindByNotice,
     HandleBinEpochRefresh, HandleBinPickedUp
<1> QED
  BY <1>2, <1>3, <1>4, <1>5, Zenon DEF Noted

\* Every step keeps the types of these histories.
LEMMA AnswersStep == IInv /\ Answers /\ [Next]_vars => Answers'
<1> SUFFICES ASSUME IInv, Answers, [Next]_vars PROVE Answers'
  OBVIOUS
<1>1. CASE Used /\ UNCHANGED <<unanswered, discarded>>
  BY <1>1, AnswersKept, Zenon DEF Noted
<1>2. CASE CoreHandles
  BY <1>2, HandlesNoted, AnswersKept, Zenon
<1>3. CASE \E n \in Range(down) : EdgeHandles(n) \/ LoseNotice(n)
  BY <1>3, NoticeNoted, AnswersKept, Zenon
<1> QED
  BY <1>1, <1>2, <1>3, MostUsed, Zenon DEF Next, CoreStep, NoticeStep

\* For every set of bins and every bound: the state keeps its types.  The
\* accumulator never holds a negative number of parts (flushBins subtracts no more
\* than it sent, while recordBin only adds), every row queued carries a generation
\* that exists, and the audit and the count speak of rows that Edge queued.
THEOREM TypeCorrect == Spec => []TypeOK
<1>1. IInv /\ OrderInv /\ PartsInv /\ Answers => TypeOK
  BY Zenon DEF IInv, TypesOK, OrderInv, Rows, PartsInv, Answers, TypeOK, HistoryOK
<1>2. Init => Answers
  BY CountPathAssumption DEF Init, Answers
<1> QED
  BY <1>1, <1>2, InitIInv, Inductive, InitOrder, OrderKept, InitParts, PartsKept,
     AnswersStep, PTL DEF Spec
=============================================================================
