-------------------------- MODULE VideoStoreProofs --------------------------
(***************************************************************************)
(* Proofs about VideoStore, about the mirror receive thread that feeds it  *)
(* (MirrorStream) and about the MediaSource player that reads it           *)
(* (VideoClient), for every ring length, byte budget, HLS group length and *)
(* playlist window, and every set of sizes, frame times and clocks.        *)
(*                                                                         *)
(* The argument.  RingPlaced says that the slot of n can only hold the     *)
(* newest number up to `latest' congruent to n; SuffixResident that what   *)
(* has bytes is a suffix of 1..latest; ClockKept that fragment times grow  *)
(* with fragment numbers.  The rest about the store follows from these,    *)
(* but for the byte account (BytesKept).  Its total is a sum over the      *)
(* resident fragments, and what a sum does when one element changes or a   *)
(* part leaves is proved by taking the smallest set for which it fails     *)
(* (Fewest).                                                               *)
(*                                                                         *)
(* The player holds answers that may be out of date.  What is still true   *)
(* of one when it comes (Startable, RequestKept) is what no step of the    *)
(* store can take away: generations and `latest' only grow, and a number   *)
(* of a generation never names another fragment.                           *)
(***************************************************************************)
EXTENDS MirrorStream, VideoClient, FiniteSetTheorems, SequenceTheorems, WellFoundedInduction,
        TLAPS

\* One operation of the store, whatever time a frame carries: what the store's
\* own specification and the receive thread have in common.
StoreOperation ==
  \/ \E configured \in BOOLEAN : ClearedAs(configured)
  \/ \E key \in BOOLEAN, pts \in Nat, size \in Sizes : FrameStored(key, pts, size)

-----------------------------------------------------------------------------
(* Lemmas about the ring. *)

\* Every fragment number has a slot.
LEMMA SlotRange == ASSUME NEW n \in Int PROVE Slot(n) \in Slots
  BY PartCountAssumption, SMT DEF Slot, Slots

\* The difference of two times, as the muxer computes it, does not go negative.
LEMMA Difference == \A a, b \in Nat : (b <= a => a - b \in Nat) /\ b + (a - b) <= a
  OBVIOUS

\* Division with remainder by the ring length.
LEMMA DivMod ==
  ASSUME NEW n \in Int
  PROVE  /\ n \div PartCount \in Int
         /\ n = PartCount * (n \div PartCount) + (n % PartCount)
         /\ n % PartCount \in 0 .. PartCount - 1
  BY PartCountAssumption, SMT

\* No multiple of the ring length lies strictly between 0 and it.
LEMMA NoMultipleBetween ==
  ASSUME NEW k \in Int, 0 < PartCount * k, PartCount * k < PartCount
  PROVE  FALSE
  BY PartCountAssumption, SMTT(30)

\* Numbers less than a ring length apart have different slots.
LEMMA SlotDistinct ==
  ASSUME NEW n \in Int, NEW m \in Int, m < n, n < m + PartCount
  PROVE  Slot(n) # Slot(m)
<1> SUFFICES ASSUME n % PartCount = m % PartCount PROVE FALSE BY DEF Slot
<1> DEFINE a == n \div PartCount
           b == m \div PartCount
<1>1. a \in Int /\ b \in Int BY DivMod
<1>2. n - m = PartCount * a - PartCount * b BY DivMod, <1>1, PartCountAssumption
<1>3. PartCount * a - PartCount * b = PartCount * (a - b)
  BY <1>1, PartCountAssumption
<1> HIDE DEF a, b
<1>4. QED BY <1>1, <1>2, <1>3, NoMultipleBetween, PartCountAssumption

\* A slot comes round again after one ring length.
LEMMA SlotPeriod ==
  ASSUME NEW n \in Int
  PROVE  Slot(n + PartCount) = Slot(n)
<1> DEFINE m == n + PartCount
           a == m \div PartCount
           b == n \div PartCount
<1>1. /\ a \in Int /\ b \in Int /\ m \in Int
      /\ Slot(n) \in 0 .. PartCount - 1 /\ Slot(m) \in 0 .. PartCount - 1
  BY DivMod, PartCountAssumption DEF Slot
<1>2. m = PartCount * a + Slot(m) /\ n = PartCount * b + Slot(n)
  BY DivMod, <1>1 DEF Slot
<1>3. PartCount * (a - b - 1) = PartCount * a - PartCount * b - PartCount
  BY <1>1, PartCountAssumption
<1> HIDE DEF a, b
<1>4. PartCount * (a - b - 1) = Slot(n) - Slot(m)
  BY <1>1, <1>2, <1>3, PartCountAssumption
<1>5. PartCount * (b + 1 - a) = Slot(m) - Slot(n)
  BY <1>1, <1>4, PartCountAssumption
<1>6. ~(Slot(n) - Slot(m) > 0) /\ ~(Slot(m) - Slot(n) > 0)
  BY <1>1, <1>4, <1>5, NoMultipleBetween, PartCountAssumption
<1>7. QED BY <1>1, <1>6

-----------------------------------------------------------------------------
(* Lemmas about sums of sizes. *)

\* A set of numbers has a least one.
LEMMA Least ==
  ASSUME NEW T \in SUBSET Nat, T # {} PROVE \E x \in T : \A y \in T : x <= y
<1> DEFINE R == {p \in Nat \X Nat : p[1] < p[2]}
<1>1. IsWellFoundedOn(R, Nat) BY NatLessThanWellFounded, Zenon DEF OpToRel
<1> HIDE DEF R
<1>2. PICK x \in T : \A y \in T : ~ (<<y, x>> \in R) BY <1>1, WFMin
<1>3. \A y \in Nat : y < x => <<y, x>> \in R BY DEF R
<1>4. \A y \in T : y \in Nat /\ ~(y < x) BY <1>2, <1>3
<1>5. QED BY <1>4, x \in Nat

\* The function by which MapThenSumSet adds up sizes, on the sets in D: one chosen
\* element after the other.
Sums(f, ring, D) ==
  f = [s \in D |-> IF s = {} THEN 0
                   ELSE ring[CHOOSE y \in s : TRUE].size + f[s \ {CHOOSE y \in s : TRUE}]]

\* The subsets with n elements or fewer
Small(S, n) == {s \in SUBSET S : Cardinality(s) <= n}

\* A chosen element is one.
LEMMA ChosenIn == ASSUME NEW s, s # {} PROVE (CHOOSE y \in s : TRUE) \in s
OBVIOUS

\* Without its chosen element a set is one smaller.
LEMMA SmallerSet ==
  ASSUME NEW S, IsFiniteSet(S), NEW n \in Nat, NEW s \in Small(S, n+1), s # {}
  PROVE  s \ {CHOOSE y \in s : TRUE} \in Small(S, n)
<1>1. IsFiniteSet(s) /\ s \in SUBSET S BY FS_Subset DEF Small
<1>2. Cardinality(s \ {CHOOSE y \in s : TRUE}) = Cardinality(s) - 1
  BY <1>1, ChosenIn, FS_RemoveElement
<1>3. Cardinality(s) \in Nat BY <1>1, FS_CardinalityType
<1>4. QED BY <1>1, <1>2, <1>3 DEF Small

\* There is such a function: it is built up by the size of the sets.
LEMMA SumsExist ==
  ASSUME NEW S, IsFiniteSet(S), NEW ring PROVE \E f : Sums(f, ring, SUBSET S)
<1> DEFINE Bad == {n \in Nat : ~ \E f : Sums(f, ring, Small(S, n))}
<1>1. 0 \notin Bad
  <2>1. Small(S, 0) = {{}}
    <3>1. \A s \in SUBSET S : IsFiniteSet(s) BY FS_Subset
    <3>2. QED BY <3>1, FS_EmptySet, FS_CardinalityType DEF Small
  <2> DEFINE f == [s \in Small(S, 0) |-> 0]
  <2>2. Sums(f, ring, Small(S, 0)) BY <2>1 DEF Sums
  <2>3. QED BY <2>2
<1>2. ASSUME NEW n \in Nat, n \notin Bad PROVE n + 1 \notin Bad
  <2>1. PICK g : Sums(g, ring, Small(S, n)) BY <1>2
  <2> DEFINE c(s) == CHOOSE y \in s : TRUE
             h(s) == IF s = {} THEN 0 ELSE ring[c(s)].size + g[s \ {c(s)}]
  <2>2. PICK f : f = [s \in Small(S, n+1) |-> h(s)] OBVIOUS
  <2>3. \A s \in Small(S, n) : s \in Small(S, n+1)
    <3>1. \A s \in SUBSET S : Cardinality(s) \in Nat BY FS_Subset, FS_CardinalityType
    <3>2. QED BY <3>1 DEF Small
  <2>4. \A s \in Small(S, n) : f[s] = g[s]
    <3>1. \A s \in Small(S, n) : g[s] = h(s) BY <2>1, Zenon DEF Sums
    <3> HIDE DEF h
    <3>2. QED BY <2>2, <2>3, <3>1
  <2> DEFINE e(s) == IF s = {} THEN 0 ELSE ring[c(s)].size + f[s \ {c(s)}]
  <2>5. \A s \in Small(S, n+1) : h(s) = e(s)
    <3>1. \A s \in Small(S, n+1) : s # {} => f[s \ {c(s)}] = g[s \ {c(s)}]
      BY <2>4, SmallerSet
    <3>2. SUFFICES ASSUME NEW s \in Small(S, n+1) PROVE h(s) = e(s) OBVIOUS
    <3>3. CASE s = {} BY <3>3, Zenon
    <3>4. CASE s # {}
      <4>1. f[s \ {c(s)}] = g[s \ {c(s)}] BY <3>1, <3>4
      <4>2. h(s) = ring[c(s)].size + g[s \ {c(s)}] BY <3>4, Zenon
      <4>3. e(s) = ring[c(s)].size + f[s \ {c(s)}] BY <3>4, Zenon
      <4>4. QED BY <4>1, <4>2, <4>3, Zenon
    <3>5. QED BY <3>3, <3>4
  <2>6. f = [s \in Small(S, n+1) |-> e(s)]
    <3> HIDE DEF h, e
    <3>1. QED BY <2>2, <2>5
  <2>7. Sums(f, ring, Small(S, n+1)) BY <2>6, Zenon DEF Sums
  <2>8. QED BY <2>7
<1>3. Bad = {}
  <2> SUFFICES ASSUME Bad # {} PROVE FALSE OBVIOUS
  <2>1. Bad \in SUBSET Nat OBVIOUS
  <2> HIDE DEF Bad
  <2>2. PICK n \in Bad : \A m \in Bad : n <= m BY <2>1, Least
  <2>3. n \in Nat /\ n # 0 BY <2>1, <2>2, <1>1
  <2>4. n - 1 \in Nat /\ (n - 1) + 1 = n BY <2>3
  <2>5. n - 1 \notin Bad BY <2>2, <2>3, <2>4
  <2>6. QED BY <1>2, <2>2, <2>4, <2>5
<1>4. Cardinality(S) \in Nat BY FS_CardinalityType
<1>5. Small(S, Cardinality(S)) = SUBSET S
  BY FS_Subset DEF Small
<1>6. Cardinality(S) \notin Bad BY <1>3, Zenon
<1>7. QED BY <1>4, <1>5, <1>6

\* The sum is a value of it.
LEMMA SumChosen ==
  ASSUME NEW S, IsFiniteSet(S), NEW ring
  PROVE  /\ Sums(CHOOSE f : Sums(f, ring, SUBSET S), ring, SUBSET S)
         /\ BytesOf(ring, S) = (CHOOSE f : Sums(f, ring, SUBSET S))[S]
<1>1. PICK h : Sums(h, ring, SUBSET S) BY SumsExist
<1>2. Sums(CHOOSE g : Sums(g, ring, SUBSET S), ring, SUBSET S) BY <1>1, Zenon
<1>3. BytesOf(ring, S) = (CHOOSE f : Sums(f, ring, SUBSET S))[S]
   BY DEF BytesOf, MapThenSumSet, MapThenFoldSet, Sums
<1>4. QED BY <1>2, <1>3

\* Nothing has no bytes.
LEMMA SumEmpty == ASSUME NEW ring PROVE BytesOf(ring, {}) = 0
<1>1. IsFiniteSet({}) BY FS_EmptySet
<1> DEFINE f == CHOOSE h : Sums(h, ring, SUBSET {})
<1>2. Sums(f, ring, SUBSET {}) /\ BytesOf(ring, {}) = f[{}] BY <1>1, SumChosen, Zenon
<1> HIDE DEF f
<1>3. QED BY <1>2, {} \in SUBSET {} DEF Sums

\* A set of subsets has one with the fewest elements.
LEMMA Fewest ==
  ASSUME NEW S, IsFiniteSet(S), NEW F \in SUBSET SUBSET S, F # {}
  PROVE  \E U \in F : \A V \in F : Cardinality(U) <= Cardinality(V)
<1> DEFINE N == {Cardinality(U) : U \in F}
<1>1. \A U \in F : Cardinality(U) \in Nat BY FS_Subset, FS_CardinalityType
<1>2. N \in SUBSET Nat /\ N # {} BY <1>1
<1>3. \E n \in N : \A m \in N : n <= m BY <1>2, Least
<1>4. QED BY <1>3

\* One element of a finite set less.
LEMMA OneLess ==
  ASSUME NEW S, IsFiniteSet(S), NEW x \in S
  PROVE  /\ IsFiniteSet(S \ {x}) /\ S \ {x} \in SUBSET S
         /\ Cardinality(S) \in Nat /\ Cardinality(S \ {x}) \in Nat
         /\ Cardinality(S \ {x}) < Cardinality(S)
<1>1. IsFiniteSet(S \ {x}) /\ Cardinality(S \ {x}) = Cardinality(S) - 1 BY FS_RemoveElement
<1>2. QED BY <1>1, FS_CardinalityType

\* Two such functions agree where both are defined.
LEMMA SumsAgree ==
  ASSUME NEW S, IsFiniteSet(S), NEW T \in SUBSET S, NEW ring, NEW f, NEW g,
         Sums(f, ring, SUBSET S), Sums(g, ring, SUBSET T)
  PROVE  f[T] = g[T]
<1> DEFINE Bad == {U \in SUBSET T : f[U] # g[U]}
<1>1. Bad = {}
  <2> SUFFICES ASSUME Bad # {} PROVE FALSE OBVIOUS
  <2>1. IsFiniteSet(T) BY FS_Subset
  <2>2. Bad \in SUBSET SUBSET T OBVIOUS
  <2> HIDE DEF Bad
  <2>3. PICK U \in Bad : \A V \in Bad : Cardinality(U) <= Cardinality(V) BY <2>1, <2>2, Fewest
  <2>4. U \in SUBSET T /\ U \in SUBSET S /\ f[U] # g[U] BY DEF Bad
  <2> DEFINE c == CHOOSE y \in U : TRUE
  <2>5. /\ f[U] = IF U = {} THEN 0 ELSE ring[c].size + f[U \ {c}]
        /\ g[U] = IF U = {} THEN 0 ELSE ring[c].size + g[U \ {c}]
    BY <2>4, Zenon DEF Sums
  <2>6. U # {} /\ f[U \ {c}] # g[U \ {c}] BY <2>4, <2>5, Zenon
  <2>7. c \in U BY <2>6, ChosenIn
  <2> HIDE DEF c
  <2>8. IsFiniteSet(U) BY <2>1, <2>4, FS_Subset
  <2>9. /\ U \ {c} \in SUBSET U /\ Cardinality(U) \in Nat /\ Cardinality(U \ {c}) \in Nat
        /\ Cardinality(U \ {c}) < Cardinality(U)
    BY <2>7, <2>8, OneLess
  <2>10. U \ {c} \in Bad BY <2>4, <2>6, <2>9 DEF Bad
  <2>11. Cardinality(U) <= Cardinality(U \ {c}) BY <2>3, <2>10
  <2>12. QED BY <2>9, <2>11
<1>2. T \notin Bad BY <1>1, Zenon
<1>3. QED BY <1>2

\* The sum, unfolded at the element that is chosen.
LEMMA SumUnfolds ==
  ASSUME NEW S, IsFiniteSet(S), S # {}, NEW ring
  PROVE  LET c == CHOOSE y \in S : TRUE
         IN  BytesOf(ring, S) = ring[c].size + BytesOf(ring, S \ {c})
<1> DEFINE c == CHOOSE y \in S : TRUE
           f == CHOOSE h : Sums(h, ring, SUBSET S)
           g == CHOOSE h : Sums(h, ring, SUBSET (S \ {c}))
<1>1. c \in S BY ChosenIn
<1>2. IsFiniteSet(S \ {c}) BY FS_RemoveElement, <1>1
<1>3. Sums(f, ring, SUBSET S) /\ BytesOf(ring, S) = f[S] BY SumChosen, Zenon
<1>4. Sums(g, ring, SUBSET (S \ {c})) /\ BytesOf(ring, S \ {c}) = g[S \ {c}]
  BY <1>2, SumChosen, Zenon
<1> HIDE DEF f, g
<1>5. f[S] = ring[c].size + f[S \ {c}] BY <1>3, S \in SUBSET S, Zenon DEF Sums
<1>6. f[S \ {c}] = g[S \ {c}]
  <2> HIDE DEF c
  <2> DEFINE T == S \ {c}
  <2>1. T \in SUBSET S OBVIOUS
  <2>2. Sums(g, ring, SUBSET T) BY <1>4, Zenon
  <2> HIDE DEF T
  <2>3. f[T] = g[T] BY <1>3, <2>1, <2>2, SumsAgree
  <2>4. QED BY <2>3 DEF T
<1>7. QED BY <1>3, <1>4, <1>5, <1>6, Zenon

\* Sizes are numbers; the sum is one.
LEMMA SumType ==
  ASSUME NEW S, IsFiniteSet(S), NEW ring, \A s \in S : ring[s].size \in Nat
  PROVE  BytesOf(ring, S) \in Nat
<1> DEFINE Bad == {U \in SUBSET S : BytesOf(ring, U) \notin Nat}
<1>1. Bad = {}
  <2> SUFFICES ASSUME Bad # {} PROVE FALSE OBVIOUS
  <2>1. Bad \in SUBSET SUBSET S OBVIOUS
  <2> HIDE DEF Bad
  <2>2. PICK U \in Bad : \A V \in Bad : Cardinality(U) <= Cardinality(V) BY <2>1, Fewest
  <2>3. U \in SUBSET S /\ IsFiniteSet(U) /\ BytesOf(ring, U) \notin Nat BY FS_Subset DEF Bad
  <2>4. U # {} BY <2>3, SumEmpty
  <2>5. PICK c \in U : BytesOf(ring, U) = ring[c].size + BytesOf(ring, U \ {c})
    BY <2>3, <2>4, SumUnfolds, ChosenIn, Zenon
  <2>6. /\ Cardinality(U) \in Nat /\ Cardinality(U \ {c}) \in Nat
        /\ Cardinality(U \ {c}) < Cardinality(U)
    BY <2>3, OneLess
  <2>7. U \ {c} \notin Bad BY <2>2, <2>6
  <2>8. BytesOf(ring, U \ {c}) \in Nat BY <2>3, <2>7 DEF Bad
  <2>9. QED BY <2>3, <2>5, <2>8
<1>2. S \notin Bad BY <1>1, Zenon
<1>3. QED BY <1>2

\* The sum, unfolded at any element.
LEMMA SumRemoves ==
  ASSUME NEW S, IsFiniteSet(S), NEW ring, \A s \in S : ring[s].size \in Nat, NEW x \in S
  PROVE  BytesOf(ring, S) = ring[x].size + BytesOf(ring, S \ {x})
<1> DEFINE Bad == {U \in SUBSET S : \E y \in U :
                     BytesOf(ring, U) # ring[y].size + BytesOf(ring, U \ {y})}
<1>1. Bad = {}
  <2> SUFFICES ASSUME Bad # {} PROVE FALSE OBVIOUS
  <2>1. Bad \in SUBSET SUBSET S OBVIOUS
  <2> HIDE DEF Bad
  <2>2. PICK U \in Bad : \A V \in Bad : Cardinality(U) <= Cardinality(V) BY <2>1, Fewest
  <2>3. U \in SUBSET S /\ IsFiniteSet(U) BY FS_Subset DEF Bad
  <2>4. PICK y \in U : BytesOf(ring, U) # ring[y].size + BytesOf(ring, U \ {y}) BY DEF Bad
  <2>5. PICK c \in U : BytesOf(ring, U) = ring[c].size + BytesOf(ring, U \ {c})
    <3>1. U # {} BY <2>4
    <3> DEFINE d == CHOOSE z \in U : TRUE
    <3>2. d \in U BY <3>1, ChosenIn
    <3>3. BytesOf(ring, U) = ring[d].size + BytesOf(ring, U \ {d})
      BY <2>3, <3>1, SumUnfolds, Zenon
    <3> HIDE DEF d
    <3>4. QED BY <3>2, <3>3
  <2>6. c # y BY <2>4, <2>5
  <2>7. IsFiniteSet(U \ {c}) /\ IsFiniteSet(U \ {y}) /\ IsFiniteSet((U \ {y}) \ {c})
    BY <2>3, FS_Difference, FS_Singleton
  <2>8. \A V \in SUBSET U : V # U => V \notin Bad
    <3>1. \A V \in SUBSET U : V # U => Cardinality(V) < Cardinality(U) /\ Cardinality(V) \in Nat
      BY <2>3, FS_Subset, FS_CardinalityType
    <3>2. Cardinality(U) \in Nat BY <2>3, FS_CardinalityType
    <3>3. QED BY <2>2, <3>1, <3>2
  <2>9. BytesOf(ring, U \ {c}) = ring[y].size + BytesOf(ring, (U \ {c}) \ {y})
    <3>1. U \ {c} \notin Bad /\ y \in U \ {c} /\ U \ {c} \in SUBSET S BY <2>3, <2>6, <2>8
    <3>2. QED BY <3>1, Zenon DEF Bad
  <2>10. BytesOf(ring, U \ {y}) = ring[c].size + BytesOf(ring, (U \ {y}) \ {c})
    <3>1. U \ {y} \notin Bad /\ c \in U \ {y} /\ U \ {y} \in SUBSET S BY <2>3, <2>6, <2>8
    <3>2. QED BY <3>1, Zenon DEF Bad
  <2>11. (U \ {c}) \ {y} = (U \ {y}) \ {c} OBVIOUS
  <2>12. /\ BytesOf(ring, (U \ {y}) \ {c}) \in Nat /\ ring[c].size \in Nat /\ ring[y].size \in Nat
    BY <2>3, <2>7, SumType
  <2>13. QED BY <2>4, <2>5, <2>9, <2>10, <2>11, <2>12
<1>2. S \notin Bad BY <1>1, Zenon
<1>3. QED BY <1>2, Zenon

\* Sums of the same sizes are the same.
LEMMA SumSame ==
  ASSUME NEW S, IsFiniteSet(S), NEW ring, NEW other, \A s \in S : ring[s].size = other[s].size
  PROVE  BytesOf(ring, S) = BytesOf(other, S)
<1> DEFINE Bad == {U \in SUBSET S : BytesOf(ring, U) # BytesOf(other, U)}
<1>1. Bad = {}
  <2> SUFFICES ASSUME Bad # {} PROVE FALSE OBVIOUS
  <2>1. Bad \in SUBSET SUBSET S OBVIOUS
  <2> HIDE DEF Bad
  <2>2. PICK U \in Bad : \A V \in Bad : Cardinality(U) <= Cardinality(V) BY <2>1, Fewest
  <2>3. U \in SUBSET S /\ IsFiniteSet(U) /\ BytesOf(ring, U) # BytesOf(other, U)
    BY FS_Subset DEF Bad
  <2>4. U # {} BY <2>3, SumEmpty
  <2> DEFINE c == CHOOSE y \in U : TRUE
  <2>5. c \in U BY <2>4, ChosenIn
  <2>6. /\ BytesOf(ring, U) = ring[c].size + BytesOf(ring, U \ {c})
        /\ BytesOf(other, U) = other[c].size + BytesOf(other, U \ {c})
    BY <2>3, <2>4, SumUnfolds, Zenon
  <2> HIDE DEF c
  <2>7. /\ Cardinality(U) \in Nat /\ Cardinality(U \ {c}) \in Nat
        /\ Cardinality(U \ {c}) < Cardinality(U)
    BY <2>3, <2>5, OneLess
  <2>8. U \ {c} \notin Bad BY <2>2, <2>7
  <2>9. BytesOf(ring, U \ {c}) = BytesOf(other, U \ {c}) BY <2>3, <2>8 DEF Bad
  <2>10. QED BY <2>3, <2>5, <2>6, <2>9, Zenon
<1>2. S \notin Bad BY <1>1, Zenon
<1>3. QED BY <1>2

\* The sum of a set and that of a part of it.
LEMMA SumParts ==
  ASSUME NEW S, IsFiniteSet(S), NEW ring, \A s \in S : ring[s].size \in Nat, NEW T \in SUBSET S
  PROVE  BytesOf(ring, S) = BytesOf(ring, T) + BytesOf(ring, S \ T)
<1> DEFINE Bad == {U \in SUBSET S : T \subseteq U
                     /\ BytesOf(ring, U) # BytesOf(ring, T) + BytesOf(ring, U \ T)}
<1>1. Bad = {}
  <2> SUFFICES ASSUME Bad # {} PROVE FALSE OBVIOUS
  <2>1. Bad \in SUBSET SUBSET S OBVIOUS
  <2> HIDE DEF Bad
  <2>2. PICK U \in Bad : \A V \in Bad : Cardinality(U) <= Cardinality(V) BY <2>1, Fewest
  <2>3. /\ U \in SUBSET S /\ IsFiniteSet(U) /\ T \subseteq U
        /\ BytesOf(ring, U) # BytesOf(ring, T) + BytesOf(ring, U \ T)
    BY FS_Subset DEF Bad
  <2>4. BytesOf(ring, T) \in Nat BY FS_Subset, SumType
  <2>5. U # T
    <3>1. T \ T = {} OBVIOUS
    <3>2. BytesOf(ring, T) = BytesOf(ring, T) + BytesOf(ring, T \ T) BY <2>4, <3>1, SumEmpty
    <3>3. QED BY <2>3, <3>2
  <2>6. PICK x \in U : x \notin T BY <2>3, <2>5
  <2>7. /\ Cardinality(U) \in Nat /\ Cardinality(U \ {x}) \in Nat
        /\ Cardinality(U \ {x}) < Cardinality(U)
    BY <2>3, OneLess
  <2>8. U \ {x} \notin Bad BY <2>2, <2>7
  <2>9. BytesOf(ring, U \ {x}) = BytesOf(ring, T) + BytesOf(ring, (U \ {x}) \ T)
    <3>1. T \subseteq U \ {x} /\ U \ {x} \in SUBSET S BY <2>3, <2>6
    <3>2. QED BY <2>8, <3>1 DEF Bad
  <2>10. BytesOf(ring, U) = ring[x].size + BytesOf(ring, U \ {x}) BY <2>3, SumRemoves
  <2>11. IsFiniteSet(U \ T) /\ x \in U \ T BY <2>3, <2>6, FS_Difference
  <2>12. BytesOf(ring, U \ T) = ring[x].size + BytesOf(ring, (U \ T) \ {x})
    BY <2>3, <2>11, SumRemoves
  <2>13. (U \ T) \ {x} = (U \ {x}) \ T OBVIOUS
  <2>14. BytesOf(ring, (U \ {x}) \ T) \in Nat /\ ring[x].size \in Nat
    <3>1. IsFiniteSet((U \ {x}) \ T) /\ (U \ {x}) \ T \in SUBSET S BY <2>3, FS_Subset
    <3>2. QED BY <2>3, <3>1, SumType
  <2>15. BytesOf(ring, U \ T) = ring[x].size + BytesOf(ring, (U \ {x}) \ T)
    BY <2>12, <2>13, Zenon
  <2>16. QED BY <2>3, <2>4, <2>9, <2>10, <2>14, <2>15
<1>2. S \notin Bad BY <1>1, Zenon
<1>3. QED BY <1>2

-----------------------------------------------------------------------------
(* One lemma per way the store changes. *)

\* The empty slot is a fragment record.
LEMMA EmptyPartType == EmptyPart \in Part
<1>1. 0 \in Nat OBVIOUS
<1>2. QED BY <1>1, Zenon DEF EmptyPart, Part

\* Freeing a fragment's bytes keeps its number, time and key flag.
LEMMA FreedPart ==
  ASSUME NEW p \in Part
  PROVE  /\ Freed(p) \in Part
         /\ Freed(p).seq = p.seq /\ Freed(p).pts = p.pts
         /\ Freed(p).key = p.key /\ Freed(p).data = 0
<1>1. p.seq \in Nat /\ p.pts \in Nat /\ p.key \in BOOLEAN /\ 0 \in Nat BY DEF Part
<1>2. Freed(p) \in Part BY <1>1, Zenon DEF Part, Freed
<1>3. QED BY <1>2, Zenon DEF Freed

\* The initial store satisfies the invariant.
LEMMA InitIInv == Init => IInv
<1> SUFFICES ASSUME Init PROVE IInv OBVIOUS
<1>1. TypeOK
  <2>1. config \in BOOLEAN /\ mux \in BOOLEAN BY Zenon DEF Init
  <2>2. parts \in [Slots -> Part] BY EmptyPartType DEF Init
  <2>3. /\ generation \in Nat /\ latest \in Nat /\ start \in Nat
        /\ first_pts \in Nat /\ last_pts \in Nat \cup {-1}
    BY DEF Init
  <2>4. QED BY <2>1, <2>2, <2>3 DEF TypeOK
<1>2. RingPlaced BY DEF Init, RingPlaced, EmptyPart
<1>3. SuffixResident /\ ClockKept /\ StartKept /\ LifeKept
  BY DEF Init, SuffixResident, ClockKept, StartKept, LifeKept, EmptyPart
<1>4. QED BY <1>1, <1>2, <1>3 DEF IInv

\* clear_locked() leaves a store that satisfies it, whatever was there before.
LEMMA ClearedIInv ==
  ASSUME IInv, NEW configured \in BOOLEAN, ClearedAs(configured)
  PROVE  IInv'
<1>1. TypeOK'
  <2>1. config' \in BOOLEAN /\ mux' \in BOOLEAN BY Zenon DEF ClearedAs
  <2>2. parts' \in [Slots -> Part] BY EmptyPartType DEF ClearedAs
  <2>3. /\ generation' \in Nat /\ latest' \in Nat /\ start' \in Nat
        /\ first_pts' \in Nat /\ last_pts' \in Nat \cup {-1}
    BY DEF ClearedAs, IInv, TypeOK
  <2>4. QED BY <2>1, <2>2, <2>3 DEF TypeOK
<1>2. RingPlaced' BY DEF ClearedAs, RingPlaced, EmptyPart
<1>3. SuffixResident' /\ ClockKept' /\ StartKept'
  BY DEF ClearedAs, SuffixResident, ClockKept, StartKept, EmptyPart
<1>4. LifeKept' BY DEF IInv, TypeOK, ClearedAs, LifeKept
<1>5. QED BY <1>1, <1>2, <1>3, <1>4 DEF IInv

\* What storing a frame does to the ring, seen slot by slot: the new fragment
\* enters its slot, and some cut separates what loses its bytes.
LEMMA FrameEffect ==
  ASSUME IInv, NEW key \in BOOLEAN, NEW pts \in Nat, NEW size \in Sizes,
         FrameStored(key, pts, size)
  PROVE  /\ Slot(latest + 1) \in Slots
         /\ latest' = latest + 1
         /\ first_pts' \in Nat /\ first_pts' <= pts
         /\ last_pts # -1 => first_pts' = first_pts
         /\ last_pts' = pts /\ pts \in Nat /\ last_pts < pts
         /\ generation # 0 /\ generation' = generation
         /\ \E cut \in Int :
              parts' = [s \in Slots |->
                LET p == IF s = Slot(latest + 1)
                           THEN [seq |-> latest + 1, pts |-> pts - first_pts', size |-> size,
                                 key |-> key, data |-> generation]
                           ELSE parts[s]
                IN  IF p.data # 0 /\ p.seq < cut THEN Freed(p) ELSE p]
<1>1. Slot(latest + 1) \in Slots BY SlotRange DEF IInv, TypeOK
<1>2. pts \in Nat /\ last_pts < pts BY DEF FrameStored, Muxable, IInv, TypeOK
<1>3. first_pts' \in Nat /\ first_pts' <= pts /\ (last_pts # -1 => first_pts' = first_pts)
  BY <1>2 DEF FrameStored, IInv, TypeOK, ClockKept
<1>4. generation # 0 BY DEF FrameStored, Muxable, IInv, LifeKept
<1> DEFINE part == [seq |-> latest + 1, pts |-> pts - first_pts', size |-> size,
                    key |-> key, data |-> generation]
           ring == [parts EXCEPT ![Slot(latest + 1)] = part]
           total == total_size - parts[Slot(latest + 1)].size + size
           cuts == Cuts(ring, total, latest + 1)
<1>5. PICK cut \in cuts : parts' = Evict(ring, cut)
  BY DEF FrameStored
<1>6. ring = [s \in Slots |-> IF s = Slot(latest + 1) THEN part ELSE parts[s]]
  BY DEF IInv, TypeOK
<1> HIDE DEF part
<1>7. \A s \in Slots : ring[s].seq \in Int
  BY <1>6 DEF IInv, TypeOK, Part, part
<1> HIDE DEF ring
<1>8. cut \in Int
  BY <1>7 DEF Cuts, Resident, IInv, TypeOK
<1> HIDE DEF total, cuts
<1>9. parts' = [s \in Slots |->
                  IF ring[s].data # 0 /\ ring[s].seq < cut
                    THEN Freed(ring[s]) ELSE ring[s]]
  BY <1>5 DEF Evict, OlderThan, Resident
<1>10. parts' = [s \in Slots |->
                  LET p == IF s = Slot(latest + 1) THEN part ELSE parts[s]
                  IN  IF p.data # 0 /\ p.seq < cut
                        THEN Freed(p) ELSE p]
  BY <1>6, <1>9
<1>11. QED BY <1>1, <1>2, <1>3, <1>4, <1>8, <1>10 DEF FrameStored, part

\* Storing a frame keeps the invariant.
LEMMA FrameStoredIInv ==
  ASSUME IInv, NEW key \in BOOLEAN, NEW pts \in Nat, NEW size \in Sizes,
         FrameStored(key, pts, size)
  PROVE  IInv'
<1> DEFINE n == latest + 1
           here == Slot(n)
           new == [seq |-> n, pts |-> pts - first_pts', size |-> size,
                   key |-> key, data |-> generation]
<1>1. /\ here \in Slots /\ latest' = n /\ latest \in Nat /\ n \in Nat
      /\ first_pts' \in Nat /\ first_pts' <= pts
      /\ last_pts # -1 => first_pts' = first_pts
      /\ last_pts' = pts /\ pts \in Nat /\ last_pts < pts
      /\ generation \in Nat /\ generation # 0 /\ generation' = generation
  <2>1. latest \in Nat /\ generation \in Nat BY DEF IInv, TypeOK
  <2>2. n \in Nat BY <2>1
  <2>3. QED BY <2>1, <2>2, FrameEffect, Zenon
<1>2. PICK cut \in Int :
        parts' = [s \in Slots |->
          LET p == IF s = here THEN new ELSE parts[s]
          IN  IF p.data # 0 /\ p.seq < cut THEN Freed(p) ELSE p]
  BY FrameEffect
<1>3. new \in Part
  <2>1. /\ n \in Nat /\ pts - first_pts' \in Nat /\ size \in Nat /\ generation \in Nat
    <3>1. size \in Nat BY SizesAssumption, TotalLimitAssumption
    <3>2. pts - first_pts' \in Nat
      <4>1. first_pts' \in Nat /\ pts \in Nat /\ first_pts' <= pts BY <1>1, Zenon
      <4>2. QED BY <4>1, Difference, Zenon
    <3>3. QED BY <1>1, <3>1, <3>2, Zenon
  <2>2. QED BY <2>1, Zenon DEF Part
<1>4. \A s \in Slots : parts[s] \in Part BY DEF IInv, TypeOK
<1>5. ASSUME NEW s \in Slots
      PROVE  /\ parts'[s] \in Part
             /\ parts'[s].seq = IF s = here THEN n ELSE parts[s].seq
             /\ parts'[s].pts = IF s = here THEN pts - first_pts' ELSE parts[s].pts
             /\ parts'[s].data = 0 \/ parts'[s].data = (IF s = here THEN generation ELSE parts[s].data)
             /\ parts'[s].data # 0 => parts'[s].seq >= cut
             /\ (s = here \/ parts[s].data # 0) /\ parts'[s].seq >= cut => parts'[s].data # 0
  <2> DEFINE p == IF s = here THEN new ELSE parts[s]
  <2>1. p \in Part BY <1>3, <1>4
  <2>2. parts'[s] = IF p.data # 0 /\ p.seq < cut THEN Freed(p) ELSE p
    BY <1>2
  <2>3. /\ p.seq = IF s = here THEN n ELSE parts[s].seq
        /\ p.pts = IF s = here THEN pts - first_pts' ELSE parts[s].pts
        /\ p.data = IF s = here THEN generation ELSE parts[s].data
    OBVIOUS
  <2> HIDE DEF p, new, here, n
  <2>4. CASE p.data # 0 /\ p.seq < cut
    <3>1. parts'[s] = Freed(p) BY <2>2, <2>4
    <3>2. parts'[s] \in Part /\ parts'[s].seq = p.seq /\ parts'[s].pts = p.pts /\ parts'[s].data = 0
      BY <2>1, <3>1, FreedPart, Zenon
    <3>3. p.seq \in Nat BY <2>1 DEF Part
    <3>4. QED BY <2>3, <2>4, <3>2, <3>3
  <2>5. CASE ~(p.data # 0 /\ p.seq < cut)
    <3>1. parts'[s] = p BY <2>2, <2>5
    <3>2. p.seq \in Nat /\ p.data \in Nat BY <2>1 DEF Part
    <3>3. QED BY <1>1, <2>1, <2>3, <2>5, <3>1, <3>2
  <2>6. QED BY <2>4, <2>5
<1>6. \A s \in Slots : parts[s].seq \in Nat /\ parts[s].pts \in Nat /\ parts[s].data \in Nat
  BY <1>4 DEF Part
<1>7. /\ latest \in Nat /\ start \in Nat /\ first_pts \in Nat
      /\ last_pts \in Nat \cup {-1} /\ generation \in Nat
      /\ PartCount \in Nat \ {0}
  BY PartCountAssumption DEF IInv, TypeOK
<1> HIDE DEF new, here, n
<1>8. n = latest + 1 BY DEF n
<1>9. TypeOK'
  <2>1. config' \in BOOLEAN /\ mux' \in BOOLEAN
    <3>1. config \in BOOLEAN BY DEF IInv, TypeOK
    <3>2. QED BY <3>1, Zenon DEF FrameStored
  <2>2. parts' \in [Slots -> Part]
    <3>1. \A s \in Slots : parts'[s] \in Part BY <1>5
    <3>2. QED BY <1>2, <3>1, Zenon
  <2>3. start' \in Nat
    <3>1. \A s \in Slots : parts'[s].seq \in Nat BY <2>2 DEF Part
    <3>2. \A k \in KeySeqs(parts') : k \in Nat BY <3>1 DEF KeySeqs, Resident
    <3>3. start' \in KeySeqs(parts') \cup {0} BY Zenon DEF FrameStored
    <3>4. QED BY <3>2, <3>3
  <2>4. latest' \in Nat /\ generation' \in Nat /\ first_pts' \in Nat /\ last_pts' \in Nat \cup {-1}
    BY <1>1, Zenon
  <2>5. QED BY <2>1, <2>2, <2>3, <2>4 DEF TypeOK
<1>10. RingPlaced'
  <2>1. ASSUME NEW s \in Slots, parts'[s].seq # 0
        PROVE  Slot(parts'[s].seq) = s /\ n - PartCount < parts'[s].seq /\ parts'[s].seq <= n
    <3>1. CASE s = here
      <4>1. parts'[s].seq = n BY <1>5, <3>1
      <4>2. n - PartCount < n /\ n <= n BY <1>1, <1>7
      <4>3. QED BY <3>1, <4>1, <4>2 DEF here
    <3>2. CASE s # here
      <4>1. parts'[s].seq = parts[s].seq BY <1>5, <3>2
      <4>2. /\ Slot(parts[s].seq) = s /\ latest - PartCount < parts[s].seq
            /\ parts[s].seq <= latest
        BY <2>1, <4>1 DEF IInv, RingPlaced
      <4>3. parts[s].seq # n - PartCount
        <5>1. SUFFICES ASSUME parts[s].seq = n - PartCount PROVE FALSE OBVIOUS
        <5>2. parts[s].seq \in Int /\ parts[s].seq + PartCount = n BY <1>1, <1>6, <1>7, <5>1
        <5>3. Slot(n) = Slot(parts[s].seq) BY <5>2, SlotPeriod
        <5>4. QED BY <3>2, <4>2, <5>3 DEF here
      <4>4. parts[s].seq \in Nat BY <1>6
      <4>5. n - PartCount < parts[s].seq /\ parts[s].seq <= n
        BY <1>7, <1>8, <4>2, <4>3, <4>4
      <4>6. QED BY <4>1, <4>2, <4>5
    <3>3. QED BY <3>1, <3>2
  <2>2. ASSUME NEW m \in 1 .. n, n - PartCount < m
        PROVE  parts'[Slot(m)].seq = m
    <3>1. m \in Int /\ Slot(m) \in Slots BY <1>1, SlotRange
    <3>2. CASE m = n BY <1>1, <1>5, <3>2 DEF here
    <3>3. CASE m # n
      <4>1. m < n /\ n < m + PartCount /\ m \in 1 .. latest /\ latest - PartCount < m /\ n \in Int
        BY <1>7, <1>8, <2>2, <3>3
      <4>2. Slot(m) # here BY <3>1, <4>1, SlotDistinct DEF here
      <4>3. parts[Slot(m)].seq = m BY <4>1 DEF IInv, RingPlaced
      <4>4. QED BY <1>5, <3>1, <4>2, <4>3
    <3>4. QED BY <3>2, <3>3
  <2>3. QED BY <1>1, <2>1, <2>2 DEF RingPlaced, Slot
<1>11. SuffixResident'
  <2>1. ASSUME NEW s \in Slots, parts'[s].data # 0
        PROVE  parts'[s].seq # 0 /\ parts'[s].data = generation
    <3>1. CASE s = here BY <1>1, <1>5, <1>7, <1>8, <2>1, <3>1
    <3>2. CASE s # here
      BY <1>5, <2>1, <3>2 DEF IInv, SuffixResident
    <3>3. QED BY <3>1, <3>2
  <2>2. ASSUME NEW s \in Slots, NEW t \in Slots,
               parts'[s].data # 0, parts'[s].seq < parts'[t].seq
        PROVE  parts'[t].data # 0
    <3>1. parts'[s].seq >= cut /\ parts'[s].seq \in Nat /\ parts'[t].seq \in Nat
      BY <1>1, <1>5, <1>6, <2>2
    <3>2. parts'[t].seq >= cut BY <2>2, <3>1
    <3>3. CASE t = here BY <1>5, <3>2, <3>3
    <3>4. CASE t # here /\ s = here
      <4>1. parts[t].seq > n BY <1>5, <2>2, <3>4
      <4>2. parts[t].seq # 0 /\ parts[t].seq \in Nat BY <1>1, <1>6, <4>1
      <4>3. parts[t].seq <= latest BY <4>2 DEF IInv, RingPlaced
      <4>4. QED BY <1>7, <1>8, <4>1, <4>2, <4>3
    <3>5. CASE t # here /\ s # here
      <4>1. parts[s].data # 0 /\ parts[s].seq < parts[t].seq BY <1>5, <2>2, <3>5
      <4>2. parts[t].data # 0 BY <4>1 DEF IInv, SuffixResident
      <4>3. QED BY <1>5, <3>2, <4>2
    <3>6. QED BY <3>3, <3>4, <3>5
  <2>3. QED BY <1>1, <2>1, <2>2 DEF SuffixResident
<1>12. ClockKept'
  <2>1. pts # -1 /\ first_pts' <= pts BY <1>1
  <2>2. \A s \in Slots : parts[s].seq # 0 => last_pts # -1 /\ first_pts + parts[s].pts <= last_pts
    <3>1. ASSUME NEW s \in Slots, parts[s].seq # 0 PROVE last_pts # -1
      <4>1. parts[s].seq <= latest /\ parts[s].seq \in Nat BY <1>6, <3>1 DEF IInv, RingPlaced
      <4>2. latest # 0 BY <1>7, <3>1, <4>1
      <4>3. QED BY <4>2 DEF IInv, ClockKept
    <3>2. QED BY <3>1 DEF IInv, ClockKept
  <2>3. \A s \in Slots : s # here /\ parts[s].seq # 0 => parts[s].pts < pts - first_pts'
    BY <1>1, <1>6, <1>7, <2>2
  <2>4. ASSUME NEW s \in Slots, parts'[s].seq # 0
        PROVE  first_pts' + parts'[s].pts <= pts
    <3>1. CASE s = here
      <4>1. parts'[s].pts = pts - first_pts' BY <1>5, <3>1
      <4>2. first_pts' \in Nat /\ pts \in Nat BY <1>1, Zenon
      <4>3. QED BY <4>1, <4>2, Difference, Zenon
    <3>2. CASE s # here
      <4>1. parts'[s].pts = parts[s].pts /\ parts[s].seq # 0 BY <1>5, <2>4, <3>2
      <4>2. parts[s].pts < pts - first_pts' BY <2>3, <3>2, <4>1
      <4>3. first_pts' \in Nat /\ pts \in Nat /\ parts[s].pts \in Nat BY <1>1, <1>6, Zenon
      <4>4. QED BY <4>1, <4>2, <4>3
    <3>3. QED BY <3>1, <3>2
  <2>5. ASSUME NEW s \in Slots, NEW t \in Slots,
               parts'[s].seq # 0, parts'[s].seq < parts'[t].seq
        PROVE  parts'[s].pts < parts'[t].pts
    <3>1. CASE s = here /\ t = here
      <4>1. n < n BY <1>5, <2>5, <3>1
      <4>2. QED BY <1>7, <1>8, <4>1
    <3>2. CASE s # here /\ t = here BY <1>5, <2>3, <2>5, <3>2
    <3>3. CASE s = here /\ t # here
      <4>1. n < parts[t].seq BY <1>5, <2>5, <3>3
      <4>2. parts[t].seq # 0 /\ parts[t].seq \in Nat BY <1>1, <1>6, <4>1
      <4>3. parts[t].seq <= latest BY <4>2 DEF IInv, RingPlaced
      <4>4. QED BY <1>7, <1>8, <4>1, <4>2, <4>3
    <3>4. CASE s # here /\ t # here
      <4>1. parts[s].seq # 0 /\ parts[s].seq < parts[t].seq BY <1>5, <2>5, <3>4
      <4>2. parts[s].pts < parts[t].pts BY <4>1 DEF IInv, ClockKept
      <4>3. QED BY <1>5, <3>4, <4>2
    <3>5. QED BY <3>1, <3>2, <3>3, <3>4
  <2>6. QED BY <1>1, <2>1, <2>4, <2>5 DEF ClockKept
<1>13. StartKept'
  <2>1. PICK s0 \in KeySeqs(parts') \cup {0} :
          start' = s0 /\ \A k \in KeySeqs(parts') : k <= s0
    BY Zenon DEF FrameStored
  <2>2. start' # 0 => \E s \in Slots : parts'[s].data # 0 /\ parts'[s].key /\ parts'[s].seq = start'
    BY <2>1 DEF KeySeqs, Resident
  <2>3. \A s \in Slots : parts'[s].data # 0 /\ parts'[s].key => parts'[s].seq <= start'
    BY <2>1 DEF KeySeqs, Resident
  <2>4. QED BY <2>2, <2>3 DEF StartKept
<1>14. LifeKept'
  BY <1>1, Zenon DEF LifeKept, FrameStored
<1>15. QED BY <1>9, <1>10, <1>11, <1>12, <1>13, <1>14 DEF IInv

\* Every operation of airtizen_video.c keeps the invariant.
LEMMA StoreStepIInv == IInv /\ [StoreOperation]_vars => IInv'
<1> SUFFICES ASSUME IInv, [StoreOperation]_vars PROVE IInv' OBVIOUS
<1>1. ASSUME NEW configured \in BOOLEAN, ClearedAs(configured) PROVE IInv'
  BY <1>1, ClearedIInv
<1>2. ASSUME NEW key \in BOOLEAN, NEW pts \in Nat, NEW size \in Sizes, FrameStored(key, pts, size)
      PROVE  IInv'
  BY <1>2, FrameStoredIInv
<1>3. CASE UNCHANGED vars
  BY <1>3 DEF vars, IInv, TypeOK, RingPlaced, SuffixResident, ClockKept, StartKept, LifeKept
<1>4. QED BY <1>1, <1>2, <1>3 DEF StoreOperation

\* Storing a frame keeps the account: the slot's old bytes leave the sum, the new ones
\* enter it, and what the eviction loop frees leaves it.  The loop stops before the new
\* fragment, which alone fits the budget.
LEMMA FrameStoredBytes ==
  ASSUME IInv, BytesKept, NEW key \in BOOLEAN, NEW pts \in Nat, NEW size \in Sizes,
         FrameStored(key, pts, size)
  PROVE  BytesKept'
<1> DEFINE n == latest + 1
           here == Slot(n)
           part == [seq |-> n, pts |-> pts - first_pts', size |-> size,
                    key |-> key, data |-> generation]
           ring == [parts EXCEPT ![here] = part]
           total == total_size - parts[here].size + size
           cuts == Cuts(ring, total, n)
           R == Resident(ring)
           old(c) == OlderThan(ring, c)
<1>1. PICK cut \in cuts : /\ \A c \in cuts : cut <= c
                          /\ parts' = Evict(ring, cut)
                          /\ total_size' = total - BytesOf(ring, old(cut))
  BY DEF FrameStored
<1>2. /\ here \in Slots /\ latest \in Nat /\ n \in Nat /\ latest' = n
      /\ generation # 0 /\ size \in Nat /\ size <= TotalLimit /\ TotalLimit \in Nat
  BY FrameEffect, SizesAssumption, TotalLimitAssumption DEF IInv, TypeOK
<1>3. ring = [s \in Slots |-> IF s = here THEN part ELSE parts[s]] BY DEF IInv, TypeOK
<1>4. /\ ring[here].seq = n /\ ring[here].size = size /\ ring[here].data # 0
      /\ \A s \in Slots \ {here} : ring[s] = parts[s]
  BY <1>2, <1>3
<1>5. \A s \in Slots : parts[s].size \in Nat /\ parts[s].seq \in Nat
  BY DEF IInv, TypeOK, Part
<1>6. \A s \in Slots : ring[s].size \in Nat /\ ring[s].seq \in Nat
  BY <1>2, <1>4, <1>5, Zenon
<1>7. \A s \in Slots : ring[s].data = 0 => ring[s].size = 0
  BY <1>4, Zenon DEF BytesKept
<1> HIDE DEF part, ring
<1>8. IsFiniteSet(Slots)
  <2>1. 0 \in Int /\ PartCount - 1 \in Int BY PartCountAssumption
  <2>2. QED BY <2>1, FS_Interval, Zenon DEF Slots
<1>9. \A S \in SUBSET Slots : IsFiniteSet(S) BY <1>8, FS_Subset
<1>10. R \in SUBSET Slots /\ here \in R /\ Resident(parts) \in SUBSET Slots
  BY <1>2, <1>4 DEF Resident
<1>11. BytesOf(ring, R) = total
  <2>1. BytesOf(ring, R) = size + BytesOf(ring, R \ {here})
    <3>1. IsFiniteSet(R) /\ \A s \in R : ring[s].size \in Nat BY <1>6, <1>9, <1>10
    <3>2. BytesOf(ring, R) = ring[here].size + BytesOf(ring, R \ {here})
      BY <1>10, <3>1, SumRemoves
    <3>3. QED BY <1>4, <3>2, Zenon
  <2>2. R \ {here} = Resident(parts) \ {here} BY <1>4 DEF Resident
  <2>3. BytesOf(ring, R \ {here}) = BytesOf(parts, R \ {here})
    <3>1. IsFiniteSet(R \ {here}) BY <1>9, <1>10
    <3>2. \A s \in R \ {here} : ring[s].size = parts[s].size BY <1>4, <1>10
    <3>3. QED BY <3>1, <3>2, SumSame
  <2>4. total_size = parts[here].size + BytesOf(parts, Resident(parts) \ {here})
    <3>1. CASE here \in Resident(parts)
      <4>1. /\ IsFiniteSet(Resident(parts))
            /\ \A s \in Resident(parts) : parts[s].size \in Nat
        BY <1>5, <1>9, <1>10
      <4>2. QED BY <3>1, <4>1, SumRemoves DEF BytesKept
    <3>2. CASE here \notin Resident(parts)
      <4>1. Resident(parts) \ {here} = Resident(parts) BY <3>2
      <4>2. parts[here].size = 0 BY <1>2, <3>2 DEF BytesKept, Resident
      <4>3. BytesOf(parts, Resident(parts)) \in Nat BY <1>5, <1>9, <1>10, SumType
      <4>4. total_size = BytesOf(parts, Resident(parts) \ {here}) BY <4>1, Zenon DEF BytesKept
      <4>5. BytesOf(parts, Resident(parts) \ {here}) \in Nat BY <4>1, <4>3, Zenon
      <4>6. QED BY <4>2, <4>4, <4>5
    <3>3. QED BY <3>1, <3>2
  <2>5. BytesOf(ring, R \ {here}) = BytesOf(parts, Resident(parts) \ {here})
    BY <2>2, <2>3, Zenon
  <2>6. BytesOf(parts, Resident(parts) \ {here}) \in Nat
    <3>1. /\ IsFiniteSet(Resident(parts) \ {here})
          /\ \A s \in Resident(parts) \ {here} : parts[s].size \in Nat
      BY <1>5, <1>9, <1>10
    <3>2. QED BY <3>1, SumType
  <2>7. parts[here].size \in Nat BY <1>2, <1>5
  <2>8. QED BY <1>2, <2>1, <2>4, <2>5, <2>6, <2>7
<1> HIDE DEF total
<1>12. total - BytesOf(ring, old(n)) = size
  <2>1. old(n) = R \ {here}
    <3>1. \A s \in R \ {here} : ring[s].seq < n
      <4>1. \A s \in Slots : parts[s].seq # 0 => parts[s].seq <= latest
        BY DEF IInv, RingPlaced
      <4>2. QED BY <1>2, <1>4, <1>5, <1>10, <4>1
    <3>2. here \notin old(n) BY <1>2, <1>4 DEF OlderThan
    <3>3. QED BY <3>1, <3>2 DEF OlderThan
  <2>2. IsFiniteSet(R) /\ \A s \in R : ring[s].size \in Nat BY <1>6, <1>9, <1>10
  <2>3. BytesOf(ring, R) = ring[here].size + BytesOf(ring, R \ {here})
    BY <1>10, <2>2, SumRemoves
  <2>4. BytesOf(ring, R \ {here}) \in Nat
    <3>1. /\ IsFiniteSet(R \ {here}) /\ \A s \in R \ {here} : ring[s].size \in Nat
      BY <1>9, <1>10, <2>2
    <3>2. QED BY <3>1, SumType
  <2>5. total = size + BytesOf(ring, old(n)) BY <1>4, <1>11, <2>1, <2>3, Zenon
  <2>6. BytesOf(ring, old(n)) \in Nat BY <2>1, <2>4, Zenon
  <2>7. QED BY <1>2, <2>5, <2>6
<1>13. n \in cuts
  <2>1. n \in {ring[s].seq : s \in R} BY <1>4, <1>10
  <2>2. total - BytesOf(ring, old(n)) <= TotalLimit BY <1>2, <1>12
  <2>3. QED BY <2>1, <2>2 DEF Cuts
<1>14. cut <= n BY <1>1, <1>13
<1>15. cut \in Int
  BY <1>1, <1>2, <1>6, <1>10 DEF Cuts
<1>16. total - BytesOf(ring, old(cut)) <= TotalLimit
  <2>1. cut # n + 1 BY <1>2, <1>14, <1>15
  <2>2. QED BY <1>1, <2>1 DEF Cuts
<1>17. parts' = [s \in Slots |-> IF s \in old(cut) THEN Freed(ring[s]) ELSE ring[s]]
  BY <1>1, Zenon DEF Evict
<1>18. here \notin old(cut) BY <1>2, <1>4, <1>14, <1>15 DEF OlderThan
<1>19. Holds(latest)'
  <2>1. parts'[here] = ring[here] BY <1>2, <1>17, <1>18
  <2>2. parts'[Slot(latest')] = ring[here] BY <1>2, <2>1, Zenon
  <2>3. QED BY <1>2, <1>4, <2>2 DEF Holds
<1>20. \A s \in Slots : parts'[s].data = 0 => parts'[s].size = 0
  BY <1>7, <1>17 DEF Freed
<1>21. Resident(parts') = R \ old(cut)
  BY <1>17 DEF Resident, OlderThan, Freed
<1>22. BytesOf(parts', Resident(parts')) = BytesOf(ring, R \ old(cut))
  <2>1. \A s \in R \ old(cut) : parts'[s].size = ring[s].size BY <1>10, <1>17
  <2>2. IsFiniteSet(R \ old(cut)) BY <1>9, <1>10
  <2>3. BytesOf(parts', R \ old(cut)) = BytesOf(ring, R \ old(cut)) BY <2>1, <2>2, SumSame
  <2>4. QED BY <1>21, <2>3, Zenon
<1>23. BytesOf(ring, R) = BytesOf(ring, old(cut)) + BytesOf(ring, R \ old(cut))
  <2>1. old(cut) \in SUBSET R BY DEF OlderThan
  <2>2. IsFiniteSet(R) /\ \A s \in R : ring[s].size \in Nat BY <1>6, <1>9, <1>10
  <2>3. QED BY <2>1, <2>2, SumParts
<1>24. BytesOf(ring, old(cut)) \in Nat /\ BytesOf(ring, R \ old(cut)) \in Nat
  <2>1. /\ old(cut) \in SUBSET Slots /\ R \ old(cut) \in SUBSET Slots
    BY <1>10 DEF OlderThan
  <2>2. /\ IsFiniteSet(old(cut)) /\ IsFiniteSet(R \ old(cut))
        /\ \A s \in old(cut) : ring[s].size \in Nat
        /\ \A s \in R \ old(cut) : ring[s].size \in Nat
    BY <1>6, <1>9, <2>1
  <2>3. QED BY <2>2, SumType
<1>25. total_size' = BytesOf(parts', Resident(parts'))
  BY <1>1, <1>11, <1>22, <1>23, <1>24
<1>26. total_size' <= TotalLimit BY <1>1, <1>16
<1>27. QED BY <1>19, <1>20, <1>25, <1>26, Zenon DEF BytesKept

\* Every operation of airtizen_video.c keeps the account.
LEMMA StoreStepBytes == IInv /\ BytesKept /\ [StoreOperation]_vars => BytesKept'
<1> SUFFICES ASSUME IInv, BytesKept, [StoreOperation]_vars PROVE BytesKept' OBVIOUS
<1>1. ASSUME NEW configured \in BOOLEAN, ClearedAs(configured) PROVE BytesKept'
  <2>1. parts' = [s \in Slots |-> EmptyPart] /\ total_size' = 0 /\ latest' = 0
    BY <1>1 DEF ClearedAs
  <2>2. Resident(parts') = {} BY <2>1 DEF Resident, EmptyPart
  <2>3. BytesOf(parts', Resident(parts')) = 0 BY <2>2, SumEmpty, Zenon
  <2>4. \A s \in Slots : parts'[s].size = 0 BY <2>1 DEF EmptyPart
  <2>5. 0 <= TotalLimit BY TotalLimitAssumption
  <2>6. QED BY <2>1, <2>3, <2>4, <2>5, Zenon DEF BytesKept
<1>2. ASSUME NEW key \in BOOLEAN, NEW pts \in Nat, NEW size \in Sizes, FrameStored(key, pts, size)
      PROVE  BytesKept'
  BY <1>2, FrameStoredBytes
<1>3. CASE UNCHANGED vars
  <2>1. UNCHANGED <<parts, total_size, latest>> BY <1>3 DEF vars
  <2>2. QED BY <2>1, Zenon DEF BytesKept, Holds
<1>4. QED BY <1>1, <1>2, <1>3 DEF StoreOperation

\* An empty store has the account of an empty store.
LEMMA InitBytesKept == Init => BytesKept
<1> SUFFICES ASSUME Init PROVE BytesKept OBVIOUS
<1>1. parts = [s \in Slots |-> EmptyPart] /\ total_size = 0 /\ latest = 0 BY DEF Init
<1>2. Resident(parts) = {} BY <1>1 DEF Resident, EmptyPart
<1>3. BytesOf(parts, Resident(parts)) = 0 BY <1>2, SumEmpty, Zenon
<1>4. \A s \in Slots : parts[s].size = 0 BY <1>1 DEF EmptyPart
<1>5. 0 <= TotalLimit BY TotalLimitAssumption
<1>6. QED BY <1>1, <1>3, <1>4, <1>5, Zenon DEF BytesKept

\* The steps of the store's own specification are such operations.
LEMMA NextIsStoreStep == [Next]_vars => [StoreOperation]_vars
  BY PtsAssumption
  DEF Next, Reset, Configure, FrameFailed, FrameDropped, StoreOperation

-----------------------------------------------------------------------------
(* What the invariant implies. *)

\* The readable fragments are one unbroken run up to the newest.
LEMMA LiveWindowHolds == IInv => LiveWindow
<1> SUFFICES ASSUME IInv, NEW s \in Slots, parts[s].data # 0
             PROVE  /\ parts[s].data = generation
                    /\ \A n \in parts[s].seq .. latest : Holds(n)
  BY DEF LiveWindow, Resident
<1>1. parts[s].data = generation /\ parts[s].seq # 0 BY DEF IInv, SuffixResident
<1>2. parts[s].seq \in Nat /\ latest \in Nat BY DEF IInv, TypeOK, Part
<1>3. ASSUME NEW n \in parts[s].seq .. latest PROVE Holds(n)
  <2>1. n \in 1 .. latest /\ n \in Int BY <1>1, <1>2
  <2>2. latest - PartCount < n
    BY <1>1, <1>2, <2>1, PartCountAssumption DEF IInv, RingPlaced
  <2>3. Slot(n) \in Slots /\ parts[Slot(n)].seq = n
    BY <2>1, <2>2, SlotRange DEF IInv, RingPlaced
  <2>4. CASE parts[s].seq < n BY <2>3, <2>4 DEF IInv, SuffixResident, Holds
  <2>5. CASE parts[s].seq = n
    <3>1. Slot(parts[s].seq) = s BY <1>1 DEF IInv, RingPlaced
    <3>2. QED BY <2>3, <2>5, <3>1 DEF Holds
  <2>6. QED BY <1>2, <2>1, <2>4, <2>5
<1>4. QED BY <1>1, <1>3

\* Groups start later the later they are.
LEMMA GroupOrder ==
  ASSUME NEW f \in Nat, NEW g \in Nat, f <= g
  PROVE  GroupFirst(f) \in Nat /\ GroupFirst(g) \in Nat /\ GroupFirst(f) <= GroupFirst(g)
<1>1. f * HlsGroup \in Nat /\ g * HlsGroup \in Nat BY HlsAssumption
<1>2. f * HlsGroup <= g * HlsGroup
  <2>1. g * HlsGroup - f * HlsGroup = (g - f) * HlsGroup BY HlsAssumption
  <2>2. (g - f) * HlsGroup >= 0 BY HlsAssumption
  <2>3. QED BY <1>1, <2>1, <2>2
<1>3. QED BY <1>1, <1>2 DEF GroupFirst

\* A whole group of the playlist ends at or before `latest'.
LEMMA GroupEnd ==
  ASSUME latest \in Nat, NEW g \in Nat, g <= latest \div HlsGroup - 1
  PROVE  GroupLast(g) \in Nat /\ GroupLast(g) <= latest
<1> DEFINE d == latest \div HlsGroup
           r == latest % HlsGroup
<1>1. d \in Int /\ r \in Nat /\ latest = HlsGroup * d + r BY HlsAssumption, SMT
<1>2. g <= d - 1 OBVIOUS
<1> HIDE DEF d, r
<1>3. GroupLast(g) = (g + 1) * HlsGroup BY HlsAssumption DEF GroupLast, GroupFirst
<1>4. HlsGroup * d - (g + 1) * HlsGroup = (d - g - 1) * HlsGroup BY <1>1, HlsAssumption
<1>5. (d - g - 1) * HlsGroup >= 0 BY <1>1, <1>2, HlsAssumption
<1>6. (g + 1) * HlsGroup \in Nat /\ HlsGroup * d \in Int BY <1>1, HlsAssumption
<1>7. QED BY <1>1, <1>3, <1>4, <1>5, <1>6

\* Every advertised group is whole, although only the first one is checked.
LEMMA AdvertisedHolds == IInv /\ LiveWindow => AdvertisedBytesExist
<1> SUFFICES ASSUME IInv, LiveWindow, NEW g \in Advertised
             PROVE  GroupWhole(g) /\ GroupLast(g) <= latest
  BY DEF AdvertisedBytesExist
<1>1. latest \in Nat BY DEF IInv, TypeOK
<1>2. LastGroup \in Int /\ FirstGroup \in Nat
  BY <1>1, HlsAssumption, SMT DEF LastGroup, FirstGroup
<1>3. g \in FirstGroup .. LastGroup /\ \E f \in FirstGroup .. g : GroupWhole(f)
  BY DEF Advertised
<1>4. PICK f \in FirstGroup .. g : GroupWhole(f) BY <1>3
<1>5. f \in Nat /\ g \in Nat /\ f <= g /\ g <= LastGroup BY <1>2, <1>3, <1>4
<1>6. GroupLast(g) \in Nat /\ GroupLast(g) <= latest BY <1>1, <1>5, GroupEnd DEF LastGroup
<1>7. GroupFirst(f) \in Nat /\ GroupFirst(g) \in Nat /\ GroupFirst(f) <= GroupFirst(g)
  BY <1>5, GroupOrder
<1>8. Holds(GroupFirst(f))
  <2>1. GroupFirst(f) \in GroupSeqs(f) BY <1>7, HlsAssumption DEF GroupSeqs, GroupLast
  <2>2. QED BY <1>4, <2>1 DEF GroupWhole
<1>9. Slot(GroupFirst(f)) \in Slots BY <1>7, SlotRange
<1>10. \A n \in GroupFirst(f) .. latest : Holds(n)
  BY <1>8, <1>9 DEF LiveWindow, Resident, Holds
<1>11. GroupWhole(g)
  BY <1>1, <1>6, <1>7, <1>10 DEF GroupWhole, GroupSeqs
<1>12. QED BY <1>6, <1>11

\* The account is right, and a group that is advertised is served: its fragments are
\* resident, so together they are within the budget.
LEMMA BudgetHolds == IInv /\ BytesKept /\ AdvertisedBytesExist => BudgetKept
<1> SUFFICES ASSUME IInv, BytesKept, AdvertisedBytesExist, NEW g \in Advertised
             PROVE  SegmentServed(generation, g)
  BY DEF BudgetKept, BytesKept
<1>1. GroupWhole(g) /\ GroupLast(g) <= latest BY DEF AdvertisedBytesExist
<1> DEFINE S == {Slot(n) : n \in GroupSeqs(g)}
<1>2. latest \in Nat /\ g \in Nat
  BY HlsAssumption, SMT DEF IInv, TypeOK, Advertised, LastGroup, FirstGroup
<1>3. GroupFirst(g) \in Nat BY <1>2, GroupOrder
<1>4. \A n \in GroupSeqs(g) : Slot(n) \in Slots
  BY <1>3, SlotRange, HlsAssumption DEF GroupSeqs, GroupLast
<1>5. S \in SUBSET Resident(parts)
  BY <1>1, <1>4 DEF GroupWhole, Holds, Resident
<1>6. /\ IsFiniteSet(Resident(parts)) /\ IsFiniteSet(S) /\ IsFiniteSet(Resident(parts) \ S)
      /\ \A s \in Resident(parts) : parts[s].size \in Nat
  <2>1. 0 \in Int /\ PartCount - 1 \in Int BY PartCountAssumption
  <2>2. IsFiniteSet(Slots) BY <2>1, FS_Interval, Zenon DEF Slots
  <2>3. Resident(parts) \in SUBSET Slots BY DEF Resident
  <2>4. IsFiniteSet(Resident(parts)) BY <2>2, <2>3, FS_Subset
  <2>5. QED BY <1>5, <2>3, <2>4, FS_Subset DEF IInv, TypeOK, Part
<1> HIDE DEF S
<1>7. BytesOf(parts, Resident(parts)) = BytesOf(parts, S) + BytesOf(parts, Resident(parts) \ S)
  BY <1>5, <1>6, SumParts
<1>8. BytesOf(parts, S) \in Nat /\ BytesOf(parts, Resident(parts) \ S) \in Nat
  <2>1. (\A s \in S : parts[s].size \in Nat) /\ \A s \in Resident(parts) \ S : parts[s].size \in Nat
    BY <1>5, <1>6
  <2>2. QED BY <1>6, <2>1, SumType
<1>9. BytesOf(parts, S) <= TotalLimit BY <1>7, <1>8, TotalLimitAssumption DEF BytesKept
<1>10. QED BY <1>1, <1>9, Zenon DEF SegmentServed, S

\* Available video can be played from `start' on.
LEMMA StartHolds == IInv /\ LiveWindow => StartPlayable
<1> SUFFICES ASSUME IInv, LiveWindow, start # 0
             PROVE  /\ mux /\ parts[Slot(start)].key
                    /\ \A n \in start .. latest : Holds(n)
                    /\ \A k \in KeySeqs(parts) : k <= start
  BY DEF StartPlayable
<1>1. PICK s \in Slots : parts[s].data # 0 /\ parts[s].key /\ parts[s].seq = start
  BY DEF IInv, StartKept
<1>2. Slot(start) = s /\ start <= latest
  BY <1>1 DEF IInv, RingPlaced
<1>3. mux
  <2>1. latest # 0 BY <1>2 DEF IInv, TypeOK
  <2>2. QED BY <2>1 DEF IInv, LifeKept
<1>4. \A n \in start .. latest : Holds(n) BY <1>1 DEF LiveWindow, Resident
<1>5. \A k \in KeySeqs(parts) : k <= start
  BY DEF KeySeqs, Resident, IInv, StartKept
<1>6. QED BY <1>1, <1>2, <1>3, <1>4, <1>5

\* Fragment times follow fragment numbers.
LEMMA TimesHold == IInv /\ AdvertisedBytesExist => TimesAdvance
<1> SUFFICES ASSUME IInv, AdvertisedBytesExist PROVE TimesAdvance OBVIOUS
<1>1. \A s, t \in Resident(parts) : parts[s].seq < parts[t].seq => parts[s].pts < parts[t].pts
  BY DEF Resident, IInv, ClockKept, SuffixResident
<1>2. ASSUME NEW g \in Advertised PROVE GroupDuration(g) >= 0
  <2>1. GroupWhole(g) BY DEF AdvertisedBytesExist
  <2>2. latest \in Nat BY DEF IInv, TypeOK
  <2>3. g \in Nat BY <2>2, HlsAssumption, SMT DEF Advertised, LastGroup, FirstGroup
  <2>4. GroupFirst(g) \in Nat BY <2>3, GroupOrder
  <2>5. /\ GroupLast(g) \in Nat /\ GroupFirst(g) <= GroupLast(g)
        /\ GroupFirst(g) \in GroupSeqs(g) /\ GroupLast(g) \in GroupSeqs(g)
    BY <2>4, HlsAssumption DEF GroupLast, GroupSeqs
  <2> DEFINE a == Slot(GroupFirst(g))
             b == Slot(GroupLast(g))
  <2>6. a \in Slots /\ b \in Slots BY <2>4, <2>5, SlotRange
  <2>7. /\ parts[a].seq = GroupFirst(g) /\ parts[a].data # 0
        /\ parts[b].seq = GroupLast(g) /\ parts[b].data # 0
    BY <2>1, <2>5 DEF GroupWhole, Holds
  <2>8. parts[a].pts \in Nat /\ parts[b].pts \in Nat BY <2>6 DEF IInv, TypeOK, Part
  <2>9. GroupDuration(g) = parts[b].pts - parts[a].pts BY DEF GroupDuration
  <2> HIDE DEF a, b
  <2>10. CASE GroupFirst(g) = GroupLast(g)
    <3>1. a = b BY <2>10 DEF a, b
    <3>2. QED BY <2>8, <2>9, <3>1
  <2>11. CASE GroupFirst(g) < GroupLast(g)
    <3>1. parts[a].pts < parts[b].pts BY <1>1, <2>6, <2>7, <2>11 DEF Resident
    <3>2. QED BY <2>8, <2>9, <3>1
  <2>12. QED BY <2>4, <2>5, <2>10, <2>11
<1>3. QED BY <1>1, <1>2 DEF TimesAdvance

\* What a step may do to the names of fragments (the action of SameNameSameBytes).
NameKept ==
  \/ generation' > generation
  \/ /\ generation' = generation
     /\ latest' >= latest
     /\ \A s \in Slots :
          parts'[s].data # 0 => \/ parts'[s] = parts[s]
                                \/ parts'[s].seq > latest

\* No operation of the store gives a name of a fragment to other bytes.
LEMMA StoreStepNames == IInv /\ [StoreOperation]_vars => [NameKept]_vars
<1> SUFFICES ASSUME IInv, [StoreOperation]_vars PROVE NameKept \/ UNCHANGED vars OBVIOUS
<1>1. ASSUME NEW configured \in BOOLEAN, ClearedAs(configured) PROVE NameKept
  <2>1. generation \in Nat /\ generation' = generation + 1
    BY <1>1 DEF ClearedAs, IInv, TypeOK
  <2>2. QED BY <2>1 DEF NameKept
<1>2. ASSUME NEW key \in BOOLEAN, NEW pts \in Nat, NEW size \in Sizes,
             FrameStored(key, pts, size)
      PROVE  NameKept
  <2> DEFINE new == [seq |-> latest + 1, pts |-> pts - first_pts', size |-> size,
                     key |-> key, data |-> generation]
  <2>1. PICK cut \in Int :
          parts' = [s \in Slots |->
            LET p == IF s = Slot(latest + 1) THEN new ELSE parts[s]
            IN  IF p.data # 0 /\ p.seq < cut THEN Freed(p) ELSE p]
    BY <1>2, FrameEffect
  <2>2. generation' = generation /\ latest' = latest + 1 /\ latest \in Nat
    BY <1>2 DEF FrameStored, IInv, TypeOK
  <2>3. ASSUME NEW s \in Slots, parts'[s].data # 0
        PROVE  parts'[s] = parts[s] \/ parts'[s].seq > latest
    <3> DEFINE p == IF s = Slot(latest + 1) THEN new ELSE parts[s]
    <3>1. parts'[s] = IF p.data # 0 /\ p.seq < cut THEN Freed(p) ELSE p BY <2>1
    <3> HIDE DEF p
    <3>2. parts'[s] = p
      <4>1. Freed(p).data = 0 BY DEF Freed
      <4>2. QED BY <2>3, <3>1, <4>1
    <3>3. CASE s = Slot(latest + 1)
      <4>1. parts'[s].seq = latest + 1 BY <3>2, <3>3 DEF p
      <4>2. QED BY <2>2, <4>1
    <3>4. QED BY <3>2, <3>3 DEF p
  <2>4. latest' >= latest BY <2>2
  <2>5. QED BY <2>2, <2>3, <2>4 DEF NameKept
<1>3. QED BY <1>1, <1>2 DEF StoreOperation

-----------------------------------------------------------------------------
(* The theorems about the store by itself. *)

\* IInv holds in every reachable state of the store.
THEOREM StoreInvariant == Spec => []IInv
  BY InitIInv, StoreStepIInv, NextIsStoreStep, PTL DEF Spec

\* The state of airtizen_video.c keeps its types, whatever the ring and sizes.
THEOREM StoreTypes == Spec => []TypeOK
<1>1. IInv => TypeOK BY DEF IInv
<1>2. QED BY StoreInvariant, <1>1, PTL

\* The readable fragments are one unbroken run up to the newest, of the current
\* generation: ring reuse and eviction never leave a hole.
THEOREM StoreLiveWindow == Spec => []LiveWindow
  BY StoreInvariant, LiveWindowHolds, PTL

\* Every group of an HLS playlist has all its bytes, although only the first
\* one is checked ("all advertised bytes must exist", airtizen_video.c:188).
THEOREM StoreAdvertised == Spec => []AdvertisedBytesExist
  BY StoreInvariant, LiveWindowHolds, AdvertisedHolds, PTL

\* Available video can be played from `start' on without a gap.
THEOREM StoreStartPlayable == Spec => []StartPlayable
  BY StoreInvariant, LiveWindowHolds, StartHolds, PTL

\* Fragment times follow fragment numbers and no EXTINF subtraction wraps.
THEOREM StoreTimesAdvance == Spec => []TimesAdvance
  BY StoreInvariant, LiveWindowHolds, AdvertisedHolds, TimesHold, PTL

\* The total that the eviction loop trusts is what the readable fragments add up to; it is
\* within the budget, the newest fragment is never evicted to keep it there, and every
\* segment that a playlist names is served.
THEOREM StoreBudget == Spec => []BudgetKept
<1>1. IInv /\ BytesKept /\ [Next]_vars => BytesKept' BY NextIsStoreStep, StoreStepBytes
<1>2. Spec => []BytesKept BY <1>1, InitBytesKept, StoreInvariant, PTL DEF Spec
<1>3. QED BY <1>2, StoreInvariant, StoreAdvertised, BudgetHolds, PTL

\* A generation and a number never come to mean other bytes.
THEOREM StoreSameBytes == Spec => SameNameSameBytes
<1>1. SameNameSameBytes <=> [][NameKept]_vars BY DEF SameNameSameBytes, NameKept
<1>2. QED BY StoreInvariant, StoreStepNames, NextIsStoreStep, <1>1, PTL DEF Spec

-----------------------------------------------------------------------------
(* The theorems about the store as the mirror receive thread feeds it. *)

\* The time a frame is given counts from the base of its clip, never below 0, and
\* the base stays a time of the sender's clock.
LEMMA FrameTime ==
  ASSUME base \in Nat \cup {-1}, NEW micros \in Clock
  PROVE  micros - Based(micros) \in Nat /\ Based(micros) \in Nat
  BY ClockAssumption DEF Based

\* Whatever the receive thread and the RTSP side do, the store sees one of its
\* operations or nothing.
LEMMA MirrorIsStoreStep ==
  ASSUME base \in Nat \cup {-1}, [NextMirror]_mirror_vars
  PROVE  [StoreOperation]_vars
<1>1. CASE StartMirror \/ StopMirror \/ Accept \/ TakePacket \/ Exit \/ Abort
  BY <1>1 DEF StartMirror, StopMirror, Accept, TakePacket, Exit, Abort
<1>2. CASE StopJoined \/ Dismissed \/ ChannelClosed
  BY <1>2 DEF StopJoined, Dismissed, ChannelClosed, Reset, StoreOperation
<1>3. CASE ReceiveConfig BY <1>3 DEF ReceiveConfig, Configure, StoreOperation
<1>4. ASSUME NEW key \in BOOLEAN, NEW micros \in Clock, NEW size \in Sizes,
             ReceiveFrame(key, micros, size)
      PROVE  [StoreOperation]_vars
  <2> DEFINE pts == micros - Based(micros)
  <2>1. pts \in Nat BY FrameTime
  <2>2. FrameStored(key, pts, size) \/ FrameFailed(key, pts) \/ FrameDropped(key, pts)
    BY <1>4 DEF ReceiveFrame
  <2> HIDE DEF pts
  <2>3. QED BY <2>1, <2>2 DEF FrameFailed, FrameDropped, StoreOperation
<1>5. CASE UNCHANGED mirror_vars BY <1>5 DEF mirror_vars
<1>6. QED BY <1>1, <1>2, <1>3, <1>4, <1>5 DEF NextMirror

\* The receive thread and its session: a step keeps MirrorKept.
LEMMA MirrorKeptStep == MirrorKept /\ [NextMirror]_mirror_vars => MirrorKept'
<1> SUFFICES ASSUME MirrorKept, [NextMirror]_mirror_vars PROVE MirrorKept' OBVIOUS
<1> USE DEF MirrorKept, EndedChannelShowsNothing
<1>1. CASE StartMirror BY <1>1 DEF StartMirror, vars
<1>2. CASE StopMirror BY <1>2 DEF StopMirror, vars
<1>3. CASE StopJoined BY <1>3 DEF StopJoined, Reset, ClearedAs
<1>4. CASE Dismissed BY <1>4 DEF Dismissed, Reset, ClearedAs, thread
<1>5. CASE Accept BY <1>5 DEF Accept, vars
<1>6. CASE TakePacket BY <1>6 DEF TakePacket, vars
<1>7. CASE ChannelClosed BY <1>7 DEF ChannelClosed, Reset, ClearedAs
<1>8. CASE Exit BY <1>8 DEF Exit, vars
<1>9. CASE Abort BY <1>9 DEF Abort, vars
<1>10. CASE ReceiveConfig BY <1>10 DEF ReceiveConfig
<1>11. ASSUME NEW key \in BOOLEAN, NEW micros \in Clock, NEW size \in Sizes,
              ReceiveFrame(key, micros, size)
       PROVE  MirrorKept'
  BY <1>11, FrameTime DEF ReceiveFrame
<1>12. CASE UNCHANGED mirror_vars BY <1>12 DEF mirror_vars, vars, thread
<1>13. QED
  BY <1>1, <1>2, <1>3, <1>4, <1>5, <1>6, <1>7, <1>8, <1>9, <1>10, <1>11, <1>12 DEF NextMirror

\* The store's invariant and MirrorKept hold whatever the sender, the receive thread
\* and the HTTP requests that dismiss the mirror do, in whatever order.
THEOREM MirrorInvariant == SpecMirror => [](IInv /\ MirrorKept)
<1>1. InitMirror => IInv /\ MirrorKept
  <2>1. InitMirror => MirrorKept
    BY DEF InitMirror, Init, MirrorKept, EndedChannelShowsNothing
  <2>2. QED BY <2>1, InitIInv DEF InitMirror
<1>2. IInv /\ MirrorKept /\ [NextMirror]_mirror_vars => (IInv /\ MirrorKept)'
  <2>1. MirrorKept => base \in Nat \cup {-1} BY DEF MirrorKept
  <2>2. QED BY <2>1, MirrorIsStoreStep, StoreStepIInv, MirrorKeptStep
<1>3. QED BY <1>1, <1>2, PTL DEF SpecMirror

\* MirrorStream implements the store: whatever the thread is told and the sender's clock
\* does, every step of it is one operation of the store with a time that is a number, or
\* nothing to it; a packet that fails or is dropped half way leaves no half operation.
THEOREM MirrorImplementsStore == SpecMirror => Init /\ [][StoreOperation]_vars
<1>1. InitMirror => Init BY DEF InitMirror
<1>2. MirrorKept /\ [NextMirror]_mirror_vars => [StoreOperation]_vars
  <2>1. MirrorKept => base \in Nat \cup {-1} BY DEF MirrorKept
  <2>2. QED BY <2>1, MirrorIsStoreStep
<1>3. QED BY <1>1, <1>2, MirrorInvariant, PTL DEF SpecMirror

\* No video outlives its channel or its session: neither a packet in hand when a stop
\* comes nor a thread that ended by itself leaves something to show.
THEOREM MirrorEndsVideo == SpecMirror => []EndedChannelShowsNothing
<1>1. MirrorKept => EndedChannelShowsNothing BY DEF MirrorKept
<1>2. QED BY MirrorInvariant, <1>1, PTL

\* Fed by the receive thread, the store still shows one unbroken run of fragments.
THEOREM MirrorLiveWindow == SpecMirror => []LiveWindow
  BY MirrorInvariant, LiveWindowHolds, PTL

\* Fed by the receive thread, the store still advertises only groups that are whole.
THEOREM MirrorAdvertised == SpecMirror => []AdvertisedBytesExist
  BY MirrorInvariant, LiveWindowHolds, AdvertisedHolds, PTL

\* Fed by the receive thread, available video can be played from `start' on.
THEOREM MirrorStartPlayable == SpecMirror => []StartPlayable
  BY MirrorInvariant, LiveWindowHolds, StartHolds, PTL

\* Fed by the receive thread, the store keeps to its budget and serves every segment that
\* a playlist names.
THEOREM MirrorBudget == SpecMirror => []BudgetKept
<1>1. InitMirror => BytesKept BY InitBytesKept DEF InitMirror
<1>2. IInv /\ MirrorKept /\ BytesKept /\ [NextMirror]_mirror_vars => BytesKept'
  <2>1. MirrorKept => base \in Nat \cup {-1} BY DEF MirrorKept
  <2>2. QED BY <2>1, MirrorIsStoreStep, StoreStepBytes
<1>3. SpecMirror => []BytesKept BY <1>1, <1>2, MirrorInvariant, PTL DEF SpecMirror
<1>4. QED BY <1>3, MirrorInvariant, MirrorAdvertised, BudgetHolds, PTL

\* The clock of a sender may jump back or start again at any frame, and yet fragment
\* times follow fragment numbers.
THEOREM MirrorTimesAdvance == SpecMirror => []TimesAdvance
  BY MirrorInvariant, LiveWindowHolds, AdvertisedHolds, TimesHold, PTL

\* No channel, configuration, stop or dismissal gives a generation and a number to
\* other bytes.
THEOREM MirrorSameBytes == SpecMirror => SameNameSameBytes
<1>1. SameNameSameBytes <=> [][NameKept]_vars BY DEF SameNameSameBytes, NameKept
<1>2. IInv /\ MirrorKept /\ [NextMirror]_mirror_vars => [NameKept]_vars
  <2>1. MirrorKept => base \in Nat \cup {-1} BY DEF MirrorKept
  <2>2. QED BY <2>1, MirrorIsStoreStep, StoreStepNames
<1>3. QED BY MirrorInvariant, <1>1, <1>2, PTL DEF SpecMirror

-----------------------------------------------------------------------------
(* The theorems about the MediaSource player that reads the store. *)

\* A number that a player may begin with stays one, whatever the store does: its
\* generation ends, or the fragment keeps its bytes until they are evicted.
LEMMA StartableStays ==
  ASSUME IInv, [StoreOperation]_vars, NEW g \in Int, NEW n \in Nat, Startable(g, n)
  PROVE  Startable(g, n)' /\ generation <= generation'
<1>1. generation \in Nat /\ latest \in Nat BY DEF IInv, TypeOK
<1>2. IInv' BY StoreStepIInv
<1>3. generation' \in Nat /\ latest' \in Nat /\ parts' \in [Slots -> Part] BY <1>2 DEF IInv, TypeOK
<1>4. CASE UNCHANGED vars BY <1>1, <1>4 DEF vars, Startable, Holds, Slot
<1>5. CASE NameKept
  <2>1. CASE generation' > generation BY <1>1, <1>3, <2>1 DEF Startable
  <2>2. CASE generation' = generation
    <3>1. latest' >= latest
          /\ \A s \in Slots : parts'[s].data # 0 => parts'[s] = parts[s] \/ parts'[s].seq > latest
      BY <1>1, <1>5, <2>2 DEF NameKept
    <3>2. g <= generation' BY <2>2 DEF Startable
    <3>3. ASSUME g = generation' PROVE n <= latest' /\ (Holds(n)' => parts'[Slot(n)].key)
      <4>1. n <= latest /\ (Holds(n) => parts[Slot(n)].key) BY <2>2, <3>3 DEF Startable
      <4>2. Slot(n) \in Slots BY SlotRange
      <4>3. ASSUME Holds(n)' PROVE parts'[Slot(n)].key
        <5>1. parts'[Slot(n)].seq = n /\ parts'[Slot(n)].data # 0 BY <4>3 DEF Holds, Slot
        <5>2. ~(n > latest) BY <1>1, <4>1
        <5>3. parts'[Slot(n)] = parts[Slot(n)] BY <3>1, <4>2, <5>1, <5>2
        <5>4. QED BY <4>1, <5>1, <5>3 DEF Holds
      <4>4. QED BY <1>1, <1>3, <3>1, <4>1, <4>3
    <3>4. QED BY <1>1, <2>2, <3>2, <3>3 DEF Startable, Slot
  <2>3. QED BY <1>5, <2>1, <2>2 DEF NameKept
<1>6. QED BY <1>4, <1>5, StoreStepNames

\* What /status names as the start is such a number.
LEMMA StartIsStartable == IInv /\ start # 0 => Startable(generation, start)
<1> SUFFICES ASSUME IInv, start # 0 PROVE Startable(generation, start) OBVIOUS
<1>1. parts[Slot(start)].key BY LiveWindowHolds, StartHolds DEF StartPlayable
<1>2. PICK s \in Slots : parts[s].data # 0 /\ parts[s].seq = start BY DEF IInv, StartKept
<1>3. start <= latest BY <1>2 DEF IInv, RingPlaced
<1>4. generation <= generation BY DEF IInv, TypeOK
<1>5. QED BY <1>1, <1>3, <1>4 DEF Startable

\* A request that is out is the one thing the player waits for.
LEMMA OnlyRequest ==
  ASSUME PlayerOK, OneChain, NEW i \in DOMAIN requests
  PROVE  /\ i = 1 /\ Len(requests) = 1 /\ DOMAIN requests = {1} /\ requests[1] \in Requests
         /\ ~timer /\ ~stopped /\ media \in {"none", "ready"}
<1>1. Len(requests) \in Nat /\ DOMAIN requests = 1 .. Len(requests) BY LenProperties DEF PlayerOK
<1>2. Len(requests) >= 1 BY <1>1
<1>3. Len(requests) = 1 /\ ~timer /\ ~stopped /\ media \in {"none", "ready"}
  <2> DEFINE t == IF timer THEN 1 ELSE 0
             m == IF media \in {"opening", "updating", "removing"} THEN 1 ELSE 0
             p == IF stopped THEN 0 ELSE 1
  <2>1. t + Len(requests) + m = p BY DEF OneChain, Pending
  <2>2. t \in {0, 1} /\ m \in {0, 1} /\ p \in {0, 1} OBVIOUS
  <2>3. (t = 0 => ~timer) /\ (p = 1 => ~stopped)
        /\ (m = 0 => media \in {"none", "ready"})
    BY DEF PlayerOK
  <2> HIDE DEF t, m, p
  <2>4. Len(requests) = 1 /\ t = 0 /\ m = 0 /\ p = 1 BY <1>1, <1>2, <2>1, <2>2
  <2>5. QED BY <2>3, <2>4
<1>4. requests[1] \in Requests
  <2>1. 1 \in 1 .. Len(requests) BY <1>3
  <2>2. requests \in Seq(Requests) BY DEF PlayerOK
  <2>3. QED BY <2>1, <2>2, ElementOfSeq
<1>5. QED BY <1>1, <1>3, <1>4

\* The store moves on under the player.
LEMMA StoreMoves ==
  ASSUME ClientInv, [StoreOperation]_vars, UNCHANGED player
  PROVE  ClientInv'
<1> USE DEF ClientInv
<1>1. IInv' BY StoreStepIInv
<1>2. PlayerOK' /\ OneChain' /\ FedInOrder' BY DEF player, PlayerOK, OneChain, Pending, FedInOrder
<1>3. generation \in Nat /\ generation' \in Nat BY <1>1 DEF IInv, TypeOK
<1>4. generation <= generation'
  BY <1>3, StoreStepNames DEF NameKept, vars
<1>5. FeedKept'
  <2>1. client_generation <= generation' BY <1>3, <1>4 DEF FeedKept, PlayerOK
  <2>2. client_generation # -1 /\ Len(fed) <= 1 => Startable(client_generation, next)'
    <3> SUFFICES ASSUME client_generation # -1, Len(fed) <= 1
                 PROVE  Startable(client_generation, next)'
      OBVIOUS
    <3> DEFINE g == client_generation  n == next
    <3>1. g \in Int /\ n \in Nat /\ Startable(g, n) BY DEF FeedKept, PlayerOK
    <3>2. g' = g /\ n' = n BY DEF player
    <3>3. QED BY <3>1, <3>2, StartableStays DEF Startable, Holds, Slot
  <2>3. QED BY <2>1, <2>2 DEF FeedKept, player
<1>6. RequestsKept'
  <2> SUFFICES ASSUME NEW i \in DOMAIN requests PROVE RequestKept(requests[i])'
    BY DEF RequestsKept, player
  <2> DEFINE r == requests[i]
  <2>1. r \in Requests /\ RequestKept(r) /\ r' = r
    BY OnlyRequest DEF RequestsKept, player
  <2>2. ASSUME r.path = "status", r.reply \in StatusReplies
        PROVE  /\ r.reply.generation <= generation'
               /\ r.reply.available => Startable(r.reply.generation, r.reply.start)'
    <3>1. r.reply.generation \in Nat /\ r.reply.start \in Nat BY <2>2 DEF StatusReplies
    <3>2. r.reply.generation <= generation
          /\ (r.reply.available => Startable(r.reply.generation, r.reply.start))
      BY <2>1, <2>2 DEF RequestKept
    <3>3. r.reply.generation <= generation' BY <1>3, <1>4, <3>1, <3>2
    <3>4. QED BY <2>1, <3>1, <3>2, <3>3, StartableStays DEF Startable, Holds, Slot
  <2>3. QED BY <2>1, <2>2 DEF RequestKept, player
<1>7. QED BY <1>1, <1>2, <1>5, <1>6

\* Nothing the player does changes the store.
LEMMA StoreStands ==
  ASSUME IInv, UNCHANGED vars
  PROVE  IInv' /\ generation' \in Nat /\ UNCHANGED <<generation, latest, parts, start, mux>>
<1>1. IInv' BY StoreStepIInv
<1>2. QED BY <1>1 DEF vars, IInv, TypeOK

\* The empty sequences, and one request.
LEMMA NoRequests == << >> \in Seq(Requests) /\ << >> \in Seq(Given) /\ Len(<< >>) = 0
                    /\ DOMAIN << >> = {}
BY EmptySeq

LEMMA SentOne ==
  ASSUME NEW path \in {"status", "init", "segment"}, NEW n \in Nat
  PROVE  /\ Sent(path, n) \in Requests
         /\ Sent(path, n).path = path /\ Sent(path, n).seq = n
         /\ Sent(path, n).reply \notin StatusReplies \cup SegmentReplies
         /\ <<Sent(path, n)>> \in Seq(Requests) /\ Len(<<Sent(path, n)>>) = 1
         /\ DOMAIN <<Sent(path, n)>> = {1} /\ <<Sent(path, n)>>[1] = Sent(path, n)
<1>1. Sent(path, n) \in Requests /\ Sent(path, n).path = path /\ Sent(path, n).seq = n
      /\ Sent(path, n).reply = Waiting
  BY DEF Sent, Requests, Unanswered
<1>2. Waiting \notin StatusReplies \cup SegmentReplies BY DEF Waiting, StatusReplies, SegmentReplies
<1> HIDE DEF Sent
<1>3. QED BY <1>1, <1>2

\* dispose(): the player forgets everything and waits for its timer, or for nothing.
LEMMA Disposed ==
  ASSUME ClientInv, UNCHANGED vars, NEW i, NEW again \in BOOLEAN, Dispose(i, again),
         stopped' \in BOOLEAN, again <=> ~stopped'
  PROVE  ClientInv'
<1>1. IInv' /\ generation' \in Nat BY StoreStands DEF ClientInv
<1>2. /\ client_generation' = -1 /\ ~active' /\ media' = "none" /\ fed' = << >>
      /\ requests' = << >> /\ next' = next /\ (timer' <=> again)
  BY DEF Dispose, Outstanding
<1>3. active' \in BOOLEAN /\ timer' \in BOOLEAN BY Zenon DEF Dispose
<1>4. PlayerOK' BY <1>2, <1>3, NoRequests DEF ClientInv, PlayerOK
<1>5. OneChain'
  <2>1. Len(requests') = 0 BY <1>2, NoRequests
  <2>2. QED BY <1>2, <2>1 DEF OneChain, Pending
<1>6. FedInOrder' /\ RequestsKept' BY <1>2, NoRequests DEF FedInOrder, RequestsKept
<1>7. FeedKept' BY <1>1, <1>2, NoRequests DEF FeedKept
<1>8. QED BY <1>1, <1>4, <1>5, <1>6, <1>7 DEF ClientInv

\* schedule() after a status that asks for nothing.
LEMMA Scheduled ==
  ASSUME ClientInv, UNCHANGED vars, NEW i \in DOMAIN requests, requests[i].path = "status",
         Again, UNCHANGED stopped
  PROVE  ClientInv'
<1>1. IInv' /\ generation' \in Nat /\ UNCHANGED <<generation, latest, parts>>
  BY StoreStands DEF ClientInv
<1>2. i = 1 /\ DOMAIN requests = {1} /\ ~stopped /\ media \in {"none", "ready"}
  BY OnlyRequest DEF ClientInv
<1>3. timer' /\ requests' = << >> /\ UNCHANGED <<active, client_generation, next, media, fed>>
  BY DEF Again
<1>4. timer' \in BOOLEAN BY Zenon DEF Again
<1>5. PlayerOK' BY <1>3, <1>4, NoRequests DEF ClientInv, PlayerOK
<1>6. OneChain'
  <2>1. Len(requests') = 0 BY <1>3, NoRequests
  <2>2. QED BY <1>2, <1>3, <2>1 DEF OneChain, Pending
<1>7. FedInOrder' /\ RequestsKept'
  BY <1>3, NoRequests DEF ClientInv, FedInOrder, RequestsKept
<1>8. FeedKept'
  BY <1>1, <1>2, <1>3 DEF ClientInv, FeedKept, Startable, Holds, Slot
<1>9. QED BY <1>1, <1>5, <1>6, <1>7, <1>8 DEF ClientInv

\* A request gets its answer, or none.
LEMMA Replied ==
  ASSUME ClientInv, UNCHANGED <<vars, stopped, active, client_generation, next, timer, media, fed>>,
         NEW i \in DOMAIN requests, NEW reply, requests' = [requests EXCEPT ![i].reply = reply],
         [requests[i] EXCEPT !.reply = reply] \in Requests,
         RequestKept([requests[i] EXCEPT !.reply = reply])
  PROVE  ClientInv'
<1> DEFINE r == [requests[i] EXCEPT !.reply = reply]
<1>1. IInv' /\ generation' \in Nat /\ UNCHANGED <<generation, latest, parts>>
  BY StoreStands DEF ClientInv, vars
<1>2. i = 1 /\ Len(requests) = 1 /\ DOMAIN requests = {1} /\ requests[1] \in Requests
  BY OnlyRequest DEF ClientInv
<1>3. requests' = [requests EXCEPT ![1] = r] BY <1>2
<1>4. r.path = requests[1].path BY <1>2 DEF Requests
<1> HIDE DEF r
<1>5. requests' \in Seq(Requests) /\ Len(requests') = 1 /\ DOMAIN requests' = {1}
      /\ requests'[1] = r
  <2>1. requests \in Seq(Requests) /\ r \in Requests /\ 1 \in 1 .. Len(requests)
    BY <1>2 DEF ClientInv, PlayerOK, r
  <2>2. requests' \in Seq(Requests) /\ Len(requests') = Len(requests)
    BY <1>3, <2>1, ExceptSeq
  <2>3. QED BY <1>2, <1>3, <2>2
<1>6. PlayerOK' BY <1>5 DEF ClientInv, PlayerOK
<1>7. OneChain' BY <1>2, <1>5 DEF ClientInv, OneChain, Pending
<1>8. FedInOrder' BY DEF ClientInv, FedInOrder
<1>9. RequestsKept'
  <2>1. RequestKept(r) BY DEF r
  <2>2. QED BY <1>1, <1>5, <2>1 DEF RequestsKept, RequestKept, Startable, Holds, Slot
<1>10. FeedKept'
  BY <1>1, <1>2, <1>4, <1>5 DEF ClientInv, FeedKept, Startable, Holds, Slot
<1>11. QED BY <1>1, <1>6, <1>7, <1>8, <1>9, <1>10 DEF ClientInv

LEMMA StatusReply ==
  ASSUME NEW a \in BOOLEAN, NEW g \in Nat, NEW f \in Nat, NEW l \in Nat
  PROVE  LET x == [answered |-> TRUE, ok |-> TRUE, available |-> a, generation |-> g,
                   start |-> f, latest |-> l]
         IN  x \in StatusReplies /\ x.generation = g /\ x.start = f /\ (x.available <=> a)
BY DEF StatusReplies

\* Serve(i): what the server answers is still true when the answer arrives.
LEMMA Served ==
  ASSUME ClientInv, NEW i \in DOMAIN requests, Serve(i)
  PROVE  ClientInv'
<1> DEFINE r == requests[i]
           s == [r EXCEPT !.reply = Answer(r)]
<1>1. i = 1 /\ r \in Requests /\ RequestKept(r)
  BY OnlyRequest DEF ClientInv, RequestsKept
<1>2. generation \in Nat /\ start \in Nat /\ latest \in Nat BY DEF ClientInv, IInv, TypeOK
<1>3. s.path = r.path /\ s.seq = r.seq /\ s.reply = Answer(r) BY <1>1 DEF Requests
<1>4. NoData \notin StatusReplies \cup SegmentReplies BY DEF NoData, StatusReplies, SegmentReplies
<1>5. CASE r.path = "status"
  <2>1. Answer(r) = [answered |-> TRUE, ok |-> TRUE, available |-> start # 0,
                     generation |-> generation, start |-> start, latest |-> latest]
    BY <1>5 DEF Answer
  <2>2. Answer(r) \in StatusReplies /\ Answer(r).generation = generation
        /\ Answer(r).start = start /\ (Answer(r).available <=> start # 0)
    <3>1. PICK a \in BOOLEAN : a = (start # 0) OBVIOUS
    <3>2. Answer(r) = [answered |-> TRUE, ok |-> TRUE, available |-> a,
                       generation |-> generation, start |-> start, latest |-> latest]
      BY <2>1, <3>1, Zenon
    <3>3. Answer(r) \in StatusReplies /\ Answer(r).generation = generation
          /\ Answer(r).start = start /\ (Answer(r).available <=> a)
      BY <1>2, <3>2, StatusReply
    <3>4. a <=> start # 0 BY <3>1
    <3>5. QED BY <3>3, <3>4
  <2>3. s \in Requests BY <1>1, <1>5, <2>2 DEF Requests
  <2>4. RequestKept(s)
    BY <1>2, <1>3, <1>5, <2>2, StartIsStartable DEF RequestKept, ClientInv
  <2>5. QED BY <2>3, <2>4, Replied DEF Serve
<1>6. CASE r.path = "init"
  <2>1. Answer(r) \in InitReplies \cup {NoData} BY <1>2, <1>6 DEF Answer, InitReplies
  <2>2. s \in Requests BY <1>1, <1>6, <2>1 DEF Requests, Unanswered
  <2>3. RequestKept(s) BY <1>1, <1>3, <1>6 DEF RequestKept
  <2>4. QED BY <2>2, <2>3, Replied DEF Serve
<1>7. CASE r.path = "segment"
  <2>1. r.seq = next /\ fed # << >> /\ next \in Nat
    BY <1>1, <1>7 DEF RequestKept, ClientInv, PlayerOK
  <2>2. CASE Holds(r.seq)
    <3>1. Answer(r) = [answered |-> TRUE, ok |-> TRUE, generation |-> generation,
                       key |-> parts[Slot(r.seq)].key]
      BY <1>7, <2>2 DEF Answer
    <3>2. parts[Slot(r.seq)].key \in BOOLEAN
      <4>1. Slot(r.seq) \in Slots BY <2>1, SlotRange
      <4>2. parts[Slot(r.seq)] \in Part BY <4>1 DEF ClientInv, IInv, TypeOK
      <4>3. QED BY <4>2 DEF Part
    <3>3. Answer(r) \in SegmentReplies /\ Answer(r).generation = generation
          /\ (Answer(r).key <=> parts[Slot(r.seq)].key)
      BY <1>2, <3>1, <3>2 DEF SegmentReplies
    <3>4. s \in Requests BY <1>1, <1>7, <3>3 DEF Requests
    <3>5. ASSUME generation = client_generation, Len(fed) = 1 PROVE parts[Slot(r.seq)].key
      <4>1. Startable(client_generation, next) BY <3>5, <1>2 DEF ClientInv, FeedKept
      <4>2. QED BY <2>1, <2>2, <3>5, <4>1 DEF Startable
    <3>6. RequestKept(s) BY <1>3, <1>7, <2>1, <3>3, <3>5 DEF RequestKept
    <3>7. QED BY <3>4, <3>6, Replied DEF Serve
  <2>3. CASE ~Holds(r.seq)
    <3>1. Answer(r) = NoData BY <1>7, <2>3 DEF Answer
    <3>2. s \in Requests BY <1>1, <1>7, <3>1 DEF Requests, Unanswered
    <3>3. RequestKept(s) BY <1>3, <1>4, <1>7, <2>1, <3>1 DEF RequestKept
    <3>4. QED BY <3>2, <3>3, Replied DEF Serve
  <2>4. QED BY <2>2, <2>3
<1>8. QED BY <1>1, <1>5, <1>6, <1>7 DEF Requests

\* An answer that came is what the server said.
LEMMA ReplyKinds ==
  ASSUME NEW r \in Requests, r.reply.answered, r.reply.ok
  PROVE  /\ r.path = "status" => r.reply \in StatusReplies
         /\ r.path = "init" => r.reply \in InitReplies
         /\ r.path = "segment" => r.reply \in SegmentReplies
BY DEF Requests, Unanswered, Waiting, NoData

\* With a timer, or an event of the media element, nothing else is awaited.
LEMMA OnlyTimer ==
  ASSUME PlayerOK, OneChain, timer \/ media \in {"opening", "updating", "removing"}
  PROVE  /\ Len(requests) = 0 /\ requests = << >> /\ ~stopped
         /\ timer <=> media \notin {"opening", "updating", "removing"}
<1> DEFINE t == IF timer THEN 1 ELSE 0
           m == IF media \in {"opening", "updating", "removing"} THEN 1 ELSE 0
           p == IF stopped THEN 0 ELSE 1
<1>1. t + Len(requests) + m = p BY DEF OneChain, Pending
<1>2. t \in {0, 1} /\ m \in {0, 1} /\ p \in {0, 1} /\ (t = 1 \/ m = 1) OBVIOUS
<1>3. Len(requests) \in Nat BY LenProperties DEF PlayerOK
<1>4. (t = 0 <=> ~timer) /\ (p = 1 => ~stopped)
      /\ (m = 0 <=> media \notin {"opening", "updating", "removing"})
  BY DEF PlayerOK
<1> HIDE DEF t, m, p
<1>5. Len(requests) = 0 /\ p = 1 /\ (t = 0 <=> m # 0) BY <1>1, <1>2, <1>3
<1>6. requests = << >> BY <1>5, EmptySeq DEF PlayerOK
<1>7. QED BY <1>4, <1>5, <1>6

\* begin(): a new MediaSource for the generation and the start that /status named.
LEMMA Begun ==
  ASSUME ClientInv, NEW i \in DOMAIN requests, Begin(i)
  PROVE  ClientInv'
<1> DEFINE r == requests[i]
<1>1. i = 1 /\ r \in Requests /\ RequestKept(r) /\ ~stopped
  BY OnlyRequest DEF ClientInv, RequestsKept
<1>2. r.path = "status" /\ r.reply \in StatusReplies /\ r.reply.available
  BY <1>1, ReplyKinds DEF Begin, StatusVideo
<1>3. r.reply.generation \in Nat /\ r.reply.start \in Nat /\ r.reply.generation <= generation
      /\ Startable(r.reply.generation, r.reply.start)
  BY <1>1, <1>2 DEF RequestKept, StatusReplies
<1>4. IInv' /\ generation' \in Nat /\ UNCHANGED <<generation, latest, parts>>
  BY StoreStands DEF ClientInv, Begin
<1>5. /\ client_generation' = r.reply.generation /\ next' = r.reply.start
      /\ ~timer' /\ requests' = << >> /\ media' = "opening" /\ fed' = << >> /\ stopped' = stopped
  BY DEF Begin, Outstanding
<1>6. active' \in BOOLEAN /\ timer' \in BOOLEAN BY Zenon DEF Begin
<1> HIDE DEF r
<1>7. PlayerOK' BY <1>3, <1>5, <1>6, NoRequests DEF ClientInv, PlayerOK
<1>8. OneChain'
  <2>1. Len(requests') = 0 BY <1>5, NoRequests
  <2>2. QED BY <1>1, <1>5, <2>1 DEF OneChain, Pending
<1>9. FedInOrder' /\ RequestsKept' BY <1>5, NoRequests DEF FedInOrder, RequestsKept
<1>10. FeedKept'
  <2>1. Startable(client_generation, next)'
    BY <1>3, <1>4, <1>5 DEF Startable, Holds, Slot
  <2>2. Len(fed') = 0 BY <1>5, NoRequests
  <2>3. QED BY <1>3, <1>4, <1>5, <2>1, <2>2 DEF FeedKept
<1>11. QED BY <1>4, <1>7, <1>8, <1>9, <1>10 DEF ClientInv

\* The next request of a player that goes on: for a status, the initialization, or
\* the next fragment once the initialization is in.
LEMMA Asked ==
  ASSUME ClientInv, NEW path \in {"status", "init", "segment"}, NEW n \in Nat,
         requests' = <<Sent(path, n)>>, ~stopped, ~timer', timer' \in BOOLEAN,
         UNCHANGED <<vars, stopped, active, client_generation, next, fed>>,
         media' \in {"none", "ready"},
         path = "init" => fed = << >>,
         path = "segment" => fed # << >> /\ n = next,
         media' = "ready" /\ fed = << >> => path = "init"
  PROVE  ClientInv'
<1> DEFINE r == Sent(path, n)
<1>1. IInv' /\ generation' \in Nat /\ UNCHANGED <<generation, latest, parts>>
  BY StoreStands DEF ClientInv, vars
<1>2. /\ requests' \in Seq(Requests) /\ Len(requests') = 1 /\ DOMAIN requests' = {1}
      /\ requests'[1] = r /\ r.path = path /\ r.seq = n
      /\ r.reply \notin StatusReplies \cup SegmentReplies
  BY SentOne
<1> HIDE DEF r
<1>3. PlayerOK' BY <1>2 DEF ClientInv, PlayerOK
<1>4. OneChain' BY <1>2 DEF OneChain, Pending
<1>5. FedInOrder' BY DEF ClientInv, FedInOrder
<1>6. RequestsKept' BY <1>2 DEF RequestsKept, RequestKept
<1>7. FeedKept' BY <1>1, <1>2 DEF ClientInv, FeedKept, Startable, Holds, Slot
<1>8. QED BY <1>1, <1>3, <1>4, <1>5, <1>6, <1>7 DEF ClientInv

\* Data of the generation that is playing is appended.
LEMMA Fed ==
  ASSUME ClientInv, NEW i \in DOMAIN requests, InitArrives(i) \/ SegmentArrives(i),
         Usable(requests[i])
  PROVE  ClientInv'
<1> DEFINE r == requests[i]
           k == Len(fed)
<1>1. i = 1 /\ r \in Requests /\ RequestKept(r) /\ ~stopped /\ ~timer
  BY OnlyRequest DEF ClientInv, RequestsKept
<1>2. IInv' /\ generation' \in Nat /\ UNCHANGED <<generation, latest, parts>>
  BY StoreStands DEF ClientInv, InitArrives, SegmentArrives
<1>3. /\ media' = "updating" /\ requests' = << >>
      /\ UNCHANGED <<active, client_generation, timer, stopped>>
      /\ r.reply.answered /\ r.reply.ok /\ r.reply.generation = client_generation
  BY DEF InitArrives, SegmentArrives, Usable
<1>4. client_generation \in Nat \cup {-1} /\ next \in Nat /\ fed \in Seq(Given) /\ k \in Nat
      /\ DOMAIN fed = 1 .. k
  BY LenProperties DEF ClientInv, PlayerOK
<1>5. \A x \in Given : /\ Append(fed, x) \in Seq(Given) /\ Len(Append(fed, x)) = k + 1
                       /\ \A j \in 1 .. k : Append(fed, x)[j] = fed[j]
                       /\ Append(fed, x)[k + 1] = x
  BY <1>4, AppendProperties
<1>6. Len(requests') = 0 BY <1>3, NoRequests
<1>7. OneChain' BY <1>1, <1>3, <1>6 DEF OneChain, Pending
<1>8. RequestsKept' BY <1>3, NoRequests DEF RequestsKept
<1>9. CASE InitArrives(i)
  <2> DEFINE x == [generation |-> r.reply.generation, seq |-> 0, key |-> FALSE]
  <2>1. r.path = "init" /\ fed' = Append(fed, x) /\ next' = next
    BY <1>9 DEF InitArrives
  <2>2. fed = << >> /\ k = 0 BY <1>1, <2>1, NoRequests DEF RequestKept
  <2>3. r.reply \in InitReplies BY <1>1, <1>3, <2>1, ReplyKinds
  <2>4. x \in Given /\ x.generation = client_generation /\ x.seq = 0 /\ client_generation # -1
    <3>1. r.reply.generation \in Nat /\ client_generation = r.reply.generation
      BY <1>3, <2>3 DEF InitReplies
    <3>2. client_generation # -1 BY <3>1
    <3>3. QED BY <3>1, <3>2 DEF Given
  <2> HIDE DEF x
  <2>5. fed' \in Seq(Given) /\ Len(fed') = 1 /\ fed'[1] = x /\ DOMAIN fed' = 1 .. 1
    <3>1. fed' \in Seq(Given) /\ Len(fed') = k + 1 /\ fed'[k + 1] = x BY <1>5, <2>1, <2>4
    <3>2. QED BY <2>2, <3>1, LenProperties
  <2>6. PlayerOK' BY <1>3, <2>1, <2>5, NoRequests DEF ClientInv, PlayerOK
  <2>7. FedInOrder' BY <1>3, <2>4, <2>5 DEF FedInOrder
  <2>8. FeedKept'
    <3>1. Startable(client_generation, next) BY <2>2, <2>4 DEF ClientInv, FeedKept
    <3>2. Startable(client_generation, next)'
      BY <1>2, <1>3, <2>1, <3>1 DEF Startable, Holds, Slot
    <3>3. fed' # << >>
      <4>1. Len(fed') # 0 BY <2>5
      <4>2. QED BY <4>1, NoRequests, Zenon
    <3>4. QED BY <1>2, <1>3, <2>1, <2>5, <3>2, <3>3 DEF ClientInv, FeedKept
  <2>9. QED BY <1>2, <1>7, <1>8, <2>6, <2>7, <2>8 DEF ClientInv
<1>10. CASE SegmentArrives(i)
  <2> DEFINE x == [generation |-> r.reply.generation, seq |-> r.seq, key |-> r.reply.key]
  <2>1. r.path = "segment" /\ fed' = Append(fed, x) /\ next' = next + 1
    BY <1>10 DEF SegmentArrives
  <2>2. fed # << >> /\ r.seq = next /\ r.reply \in SegmentReplies
        /\ (k = 1 => r.reply.key)
    BY <1>1, <1>3, <2>1, ReplyKinds DEF RequestKept
  <2>3. k # 0 BY <1>4, <2>2, EmptySeq
  <2>4. x \in Given /\ x.generation = client_generation /\ x.seq = next
        /\ (k = 1 => x.key)
    BY <1>3, <1>4, <2>2 DEF Given, SegmentReplies
  <2> HIDE DEF x
  <2>5. /\ fed' \in Seq(Given) /\ Len(fed') = k + 1 /\ fed'[k + 1] = x
        /\ \A j \in 1 .. k : fed'[j] = fed[j]
    BY <1>5, <2>1, <2>4
  <2>6. DOMAIN fed' = 1 .. k + 1 BY <2>5, LenProperties
  <2>7. PlayerOK' BY <1>3, <1>4, <2>1, <2>5, NoRequests DEF ClientInv, PlayerOK
  <2>8. FedInOrder'
    <3> SUFFICES ASSUME NEW j \in 1 .. k + 1
                 PROVE  /\ fed'[j].generation = client_generation'
                        /\ j = 1 => fed'[j].seq = 0
                        /\ j = 2 => fed'[j].key
                        /\ j > 2 => fed'[j].seq = fed'[j - 1].seq + 1
      BY <2>6 DEF FedInOrder
    <3> HIDE DEF k
    <3>1. CASE j \in 1 .. k
      <4>1. /\ fed[j].generation = client_generation
            /\ j = 1 => fed[j].seq = 0
            /\ j = 2 => fed[j].key
            /\ j > 2 => fed[j].seq = fed[j - 1].seq + 1
        BY <1>4, <3>1 DEF ClientInv, FedInOrder
      <4>2. j > 2 => j - 1 \in 1 .. k BY <1>4, <3>1
      <4>3. QED BY <1>3, <2>5, <3>1, <4>1, <4>2
    <3>2. CASE j = k + 1
      <4>1. j # 1 /\ (j = 2 => k = 1) /\ (j > 2 => k > 1 /\ j - 1 = k /\ k \in 1 .. k)
        BY <1>4, <2>3, <3>2
      <4>2. k > 1 => next = fed[k].seq + 1 BY DEF ClientInv, FeedKept, k
      <4>3. fed'[j] = x BY <2>5, <3>2
      <4>4. QED BY <1>3, <2>4, <2>5, <4>1, <4>2, <4>3
    <3>3. QED BY <1>4, <3>1, <3>2
  <2>9. FeedKept'
    <3>1. Len(fed') > 1 /\ fed'[Len(fed')].seq = next BY <1>4, <2>3, <2>4, <2>5
    <3>2. fed' # << >> BY <3>1, NoRequests
    <3>3. QED BY <1>2, <1>3, <2>1, <3>1, <3>2 DEF ClientInv, FeedKept
  <2>10. QED BY <1>2, <1>7, <1>8, <2>7, <2>8, <2>9 DEF ClientInv
<1>11. QED BY <1>9, <1>10

\* Every step of the store, the server and the player keeps the invariant.
LEMMA ClientStep == ClientInv /\ [NextClient]_client_vars => ClientInv'
<1> SUFFICES ASSUME ClientInv, [NextClient]_client_vars PROVE ClientInv' OBVIOUS
<1>1. CASE StoreStep
  <2>1. [StoreOperation]_vars BY <1>1, NextIsStoreStep DEF StoreStep
  <2>2. QED BY <1>1, <2>1, StoreMoves DEF StoreStep
<1>2. CASE StartPlayer
  <2>1. IInv' /\ UNCHANGED <<generation, latest, parts>>
    BY <1>2, StoreStands DEF ClientInv, StartPlayer
  <2>2. /\ stopped /\ ~stopped' /\ timer'
        /\ UNCHANGED <<active, client_generation, next, requests, media, fed>>
    BY <1>2 DEF StartPlayer
  <2>3. stopped' \in BOOLEAN /\ timer' \in BOOLEAN BY <1>2, Zenon DEF StartPlayer
  <2>4. PlayerOK' BY <2>2, <2>3 DEF ClientInv, PlayerOK
  <2>5. OneChain'
    <3> DEFINE t == IF timer THEN 1 ELSE 0
               m == IF media \in {"opening", "updating", "removing"} THEN 1 ELSE 0
    <3>1. t + Len(requests) + m = 0 BY <2>2 DEF ClientInv, OneChain, Pending
    <3>2. t \in {0, 1} /\ m \in {0, 1} OBVIOUS
    <3>3. Len(requests) \in Nat BY LenProperties DEF ClientInv, PlayerOK
    <3>4. 1 + Len(requests) + m = 1 /\ m' = m
      <4>1. m' = m BY <2>2
      <4> HIDE DEF t, m
      <4>2. QED BY <3>1, <3>2, <3>3, <4>1
    <3>5. QED BY <2>2, <3>4 DEF OneChain, Pending
  <2>6. FedInOrder' BY <2>2 DEF ClientInv, FedInOrder
  <2>7. RequestsKept'
    BY <2>1, <2>2 DEF ClientInv, RequestsKept, RequestKept, Startable, Holds, Slot
  <2>8. FeedKept' BY <2>1, <2>2 DEF ClientInv, FeedKept, Startable, Holds, Slot
  <2>9. QED BY <2>1, <2>4, <2>5, <2>6, <2>7, <2>8 DEF ClientInv
<1>3. CASE StopPlayer
  <2>1. stopped' \in BOOLEAN /\ stopped' BY <1>3, Zenon DEF StopPlayer
  <2>2. Dispose(0, FALSE) /\ UNCHANGED vars BY <1>3 DEF StopPlayer
  <2>3. QED BY <2>1, <2>2, Disposed
<1>4. CASE MediaError
  <2>1. ~stopped' /\ stopped' \in BOOLEAN BY <1>4 DEF MediaError, ClientInv, PlayerOK
  <2>2. Dispose(0, TRUE) /\ UNCHANGED vars BY <1>4 DEF MediaError
  <2>3. QED BY <2>1, <2>2, Disposed
<1>5. CASE Poll
  <2>1. requests = << >> /\ ~stopped /\ media \in {"none", "ready"}
    BY <1>5, OnlyTimer DEF Poll, ClientInv, PlayerOK
  <2>2. requests' = <<Sent("status", 0)>>
    <3>1. requests' = Append(<< >>, Sent("status", 0)) BY <1>5, <2>1 DEF Poll
    <3>2. QED BY <3>1
  <2>3. ~timer' /\ timer' \in BOOLEAN BY <1>5, Zenon DEF Poll
  <2>4. UNCHANGED <<vars, stopped, active, client_generation, next, fed, media>> BY <1>5 DEF Poll
  <2>5. ~(media = "ready" /\ fed = << >>) BY <2>1, NoRequests DEF ClientInv, FeedKept
  <2>6. QED BY <2>1, <2>2, <2>3, <2>4, <2>5, Asked
<1>6. CASE SourceOpen
  <2>1. ~timer /\ ~stopped /\ fed = << >> /\ timer' = timer
    BY <1>6, OnlyTimer DEF SourceOpen, ClientInv, FeedKept
  <2>2. requests' = <<Sent("init", 0)>> /\ media' = "ready"
        /\ UNCHANGED <<vars, stopped, active, client_generation, next, fed>>
    BY <1>6 DEF SourceOpen
  <2>3. timer' \in BOOLEAN BY <2>1 DEF ClientInv, PlayerOK
  <2>4. QED BY <2>1, <2>2, <2>3, Asked
<1>7. CASE UpdateEnd
  <2>1. IInv' /\ UNCHANGED <<generation, latest, parts>>
    BY <1>7, StoreStands DEF ClientInv, UpdateEnd
  <2>2. media \in {"updating", "removing"} BY <1>7 DEF UpdateEnd
  <2>3. Len(requests) = 0 /\ requests = << >> /\ ~timer /\ ~stopped /\ fed # << >>
    BY <2>2, OnlyTimer DEF ClientInv, FeedKept
  <2>4. UNCHANGED <<stopped, client_generation, next, requests, fed>> BY <1>7 DEF UpdateEnd
  <2>5. active' \in BOOLEAN BY <1>7, Zenon DEF UpdateEnd
  <2>6. (media' = "ready" /\ timer') \/ (media' = "removing" /\ timer' = timer)
    BY <1>7 DEF UpdateEnd
  <2>7. timer' \in BOOLEAN
    <3>1. timer \in BOOLEAN BY DEF ClientInv, PlayerOK
    <3>2. QED BY <1>7, <3>1, Zenon DEF UpdateEnd
  <2>8. PlayerOK' BY <2>4, <2>5, <2>6, <2>7 DEF ClientInv, PlayerOK
  <2>9. OneChain' BY <2>3, <2>4, <2>6 DEF OneChain, Pending
  <2>10. FedInOrder' BY <2>4 DEF ClientInv, FedInOrder
  <2>11. RequestsKept' BY <2>3, <2>4, NoRequests DEF RequestsKept
  <2>12. FeedKept' BY <2>1, <2>3, <2>4, <2>6 DEF ClientInv, FeedKept, Startable, Holds, Slot
  <2>13. QED BY <2>1, <2>8, <2>9, <2>10, <2>11, <2>12 DEF ClientInv
<1>8. ASSUME NEW i \in DOMAIN requests, Serve(i) PROVE ClientInv' BY <1>8, Served
<1>9. ASSUME NEW i \in DOMAIN requests, NoVideo(i) PROVE ClientInv'
  <2>1. ~stopped' /\ stopped' \in BOOLEAN
    BY <1>9, OnlyRequest DEF NoVideo, ClientInv, PlayerOK
  <2>2. CASE Dispose(i, TRUE) BY <1>9, <2>1, <2>2, Disposed DEF NoVideo
  <2>3. CASE Again BY <1>9, <2>3, Scheduled DEF NoVideo
  <2>4. QED BY <1>9, <2>2, <2>3 DEF NoVideo
<1>10. ASSUME NEW i \in DOMAIN requests, Begin(i) PROVE ClientInv' BY <1>10, Begun
<1>11. ASSUME NEW i \in DOMAIN requests, Follow(i) PROVE ClientInv'
  <2>1. i = 1 /\ DOMAIN requests = {1} /\ requests[1].path = "status" /\ ~stopped /\ ~timer
    BY <1>11, OnlyRequest DEF Follow, StatusVideo, ClientInv
  <2>2. CASE Again BY <1>11, <2>1, <2>2, Scheduled DEF Follow
  <2>3. CASE ~Again
    <3>1. /\ media = "ready" /\ requests' = <<Sent("segment", next)>>
          /\ UNCHANGED <<vars, stopped, active, client_generation, next, timer, media, fed>>
      BY <1>11, <2>3 DEF Follow
    <3>2. fed # << >> BY <2>1, <3>1 DEF ClientInv, FeedKept
    <3>3. next \in Nat /\ timer' \in BOOLEAN /\ ~timer' BY <2>1, <3>1 DEF ClientInv, PlayerOK
    <3>4. QED BY <2>1, <3>1, <3>2, <3>3, Asked
  <2>4. QED BY <2>2, <2>3
<1>12. ASSUME NEW i \in DOMAIN requests, InitArrives(i) \/ SegmentArrives(i) PROVE ClientInv'
  <2>a. UNCHANGED <<vars, stopped>> BY <1>12, Zenon DEF InitArrives, SegmentArrives
  <2>b. ~stopped /\ stopped \in BOOLEAN BY OnlyRequest DEF ClientInv, PlayerOK
  <2>1. ~stopped' /\ stopped' \in BOOLEAN /\ UNCHANGED vars BY <2>a, <2>b
  <2>2. CASE Usable(requests[i]) BY <1>12, <2>2, Fed
  <2>3. CASE ~Usable(requests[i])
    <3>1. Dispose(i, TRUE) BY <1>12, <2>3 DEF InitArrives, SegmentArrives
    <3>2. QED BY <2>1, <3>1, Disposed
  <2>4. QED BY <2>2, <2>3
<1>13. ASSUME NEW i \in DOMAIN requests, Lost(i) PROVE ClientInv'
  <2> DEFINE r == requests[i]
             s == [r EXCEPT !.reply = NoData]
  <2>1. r \in Requests /\ RequestKept(r) BY OnlyRequest DEF ClientInv, RequestsKept
  <2>2. s \in Requests /\ s.path = r.path /\ s.seq = r.seq /\ s.reply = NoData
    BY <2>1 DEF Requests, Unanswered
  <2>3. NoData \notin StatusReplies \cup SegmentReplies BY DEF NoData, StatusReplies, SegmentReplies
  <2>4. RequestKept(s) BY <2>1, <2>2, <2>3 DEF RequestKept
  <2>5. QED BY <1>13, <2>2, <2>4, Replied DEF Lost
<1>14. CASE UNCHANGED client_vars BY <1>14, StoreMoves DEF client_vars
<1>15. QED
  BY <1>1, <1>2, <1>3, <1>4, <1>5, <1>6, <1>7, <1>8, <1>9, <1>10, <1>11, <1>12, <1>13, <1>14
  DEF NextClient, PlayerStep, StatusWithout, StatusShared

\* The player's invariant holds whatever the store evicts, clears or restarts between
\* an answer and its arrival, and whatever is lost.
THEOREM ClientInvariant == SpecClient => []ClientInv
<1>1. InitClient => ClientInv
  <2> SUFFICES ASSUME InitClient PROVE ClientInv OBVIOUS
  <2>1. IInv /\ generation = 0 BY InitIInv DEF InitClient, Init
  <2>2. stopped \in BOOLEAN /\ active \in BOOLEAN /\ timer \in BOOLEAN BY Zenon DEF InitClient
  <2>3. PlayerOK BY <2>2, NoRequests DEF InitClient, PlayerOK
  <2>4. Len(requests) = 0 BY NoRequests DEF InitClient
  <2>5. OneChain BY <2>4 DEF InitClient, OneChain, Pending
  <2>6. FedInOrder /\ RequestsKept BY NoRequests DEF InitClient, FedInOrder, RequestsKept
  <2>7. FeedKept BY <2>1, NoRequests DEF InitClient, FeedKept
  <2>8. QED BY <2>1, <2>3, <2>5, <2>6, <2>7 DEF ClientInv
<1>2. ClientInv /\ [NextClient]_client_vars => ClientInv' BY ClientStep
<1>3. QED BY <1>1, <1>2, PTL DEF SpecClient

\* The callbacks of video-mse.js neither fork nor break off: a player that runs waits
\* for exactly one of timer, request and media event.
THEOREM ClientOneChain == SpecClient => []OneChain
<1>1. ClientInv => OneChain BY DEF ClientInv
<1>2. QED BY <1>1, ClientInvariant, PTL

\* The SourceBuffer is given one generation, from its initialization and a key frame
\* on and without a gap.
THEOREM ClientFedInOrder == SpecClient => []FedInOrder
<1>1. ClientInv => FedInOrder BY DEF ClientInv
<1>2. QED BY <1>1, ClientInvariant, PTL
=============================================================================
