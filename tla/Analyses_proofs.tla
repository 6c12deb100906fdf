---------------------------- MODULE Analyses_proofs ----------------------------
(***************************************************************************)
(* What is computed from the traffic: contacts, captures, the risk register *)
(* and the flows of the reports.  Each has its own specification and its     *)
(* own invariant.                                                            *)
(*                                                                           *)
(* Recursion.  Sums and loops are recursive functions: that they exist and   *)
(* what they return is shown by induction on numbers, stated for sets        *)
(* (NumbersInduct), and from it on finite sets (FiniteInduct).  The laws of   *)
(* sums follow: a sum is split, renamed, and regrouped by any key.           *)
(*                                                                           *)
(* New addresses and lists.  Nothing is reported during the baseline, and    *)
(* what was reported is known (NewIpInv); the set a list uses is that of its *)
(* last good download, and every key held back was reported at the time      *)
(* noted (ListsInv).                                                         *)
(*                                                                           *)
(* Beacons.  Contacts of a pair lie a second apart, and every packet of the   *)
(* window is one or follows one within a second (BeaconInv).  So the contacts *)
(* of a steady window are exactly its beats, and their jitter is none.        *)
(*                                                                           *)
(* The analysis of a capture.  The table of open queries holds exactly the   *)
(* queries that no later frame of their key has closed or repeated (Tracks), *)
(* and the pairs found are those of the readable frames the question got to  *)
(* (PairInv).  That these are the talks of the capture follows where the     *)
(* printed keys tell talks apart (KeysTell).                                 *)
(*                                                                           *)
(* The risk register is a function of its sources, so its properties are     *)
(* facts about states whose types are right; the runs of ports that it       *)
(* drops are found by induction from the last port down (KeptIsShort).        *)
(*                                                                           *)
(* The flows.  A flow is the sum of the packets with its key (CaptureInv), a  *)
(* row that of the packets of its report with its key, and the rows are those *)
(* of the packets within the retention (StoreInv).  What a page shows is a    *)
(* regrouping of these sums by a function of the key.                        *)
(***************************************************************************)
EXTENDS ContactDetectors, PcapAnalysis, Risk, FlowStore,
        FiniteSetTheorems, NaturalsInduction, TLAPS

-----------------------------------------------------------------------------
(* Induction over numbers and over finite sets.                             *)

LEMMA NumbersInduct ==
    ASSUME NEW S, 0 \in S, \A n \in Nat : n \in S => n + 1 \in S
    PROVE  Nat \subseteq S
<1> DEFINE R == {p \in Nat \X Nat : p[1] < p[2]}
<1>1. IsWellFoundedOn(R, Nat)
    BY NatLessThanWellFounded DEF OpToRel
<1>2. SUFFICES ASSUME Nat \ S # {} PROVE FALSE
    OBVIOUS
<1> HIDE DEF R
<1>3. PICK x \in Nat \ S : \A y \in Nat \ S : ~(<<y, x>> \in R)
    BY <1>1, <1>2, WFMin
<1>4. x # 0 /\ x - 1 \in Nat /\ x - 1 \notin S
    OBVIOUS
<1>5. <<x - 1, x>> \in R
    BY <1>4 DEF R
<1> QED BY <1>3, <1>4, <1>5

LEMMA LeastExists ==
    ASSUME NEW T \in SUBSET Nat, T # {}
    PROVE  \E x \in T : \A y \in T : x <= y
<1> DEFINE R == {p \in Nat \X Nat : p[1] < p[2]}
<1>1. IsWellFoundedOn(R, Nat)
    BY NatLessThanWellFounded DEF OpToRel
<1> HIDE DEF R
<1>2. PICK x \in T : \A y \in T : ~(<<y, x>> \in R)
    BY <1>1, WFMin
<1>3. \A y \in T : y \in Nat /\ x \in Nat /\ (y < x => <<y, x>> \in R)
    BY DEF R
<1>4. \A y \in T : x \in Nat /\ y \in Nat /\ ~(y < x)
    BY <1>2, <1>3
<1>5. \A y \in T : x <= y
    BY <1>4
<1> QED BY <1>5

LEMMA FiniteInduct ==
    ASSUME NEW U, IsFiniteSet(U), NEW P, {} \in P,
           \A s \in SUBSET U, x \in U : s \in P /\ x \notin s => s \cup {x} \in P
    PROVE  U \in P
<1> DEFINE G == {n \in Nat : \A s \in SUBSET U : Cardinality(s) = n => s \in P}
<1>1. \A s \in SUBSET U : IsFiniteSet(s) /\ Cardinality(s) \in Nat
    BY FS_Subset, FS_CardinalityType
<1>2. 0 \in G
    <2>1. \A s \in SUBSET U : Cardinality(s) = 0 => s = {}
        BY <1>1, FS_EmptySet
    <2> QED BY <2>1
<1>3. ASSUME NEW n \in Nat, n \in G PROVE n + 1 \in G
    <2> SUFFICES ASSUME NEW s \in SUBSET U, Cardinality(s) = n + 1 PROVE s \in P
        OBVIOUS
    <2>1. s # {}
        BY FS_EmptySet
    <2>2. PICK x \in s : TRUE
        BY <2>1
    <2>3. Cardinality(s \ {x}) = n
        <3>1. IsFiniteSet(s)
            BY <1>1
        <3>2. Cardinality(s \ {x}) = Cardinality(s) - 1
            BY <2>2, <3>1, FS_RemoveElement
        <3> QED BY <3>2
    <2>4. s \ {x} \in P
        BY <1>3, <2>3
    <2>5. (s \ {x}) \cup {x} = s /\ x \notin s \ {x} /\ x \in U
        BY <2>2
    <2> HIDE DEF G
    <2> QED BY <2>4, <2>5
<1> HIDE DEF G
<1>4. Nat \subseteq G
    BY <1>2, <1>3, NumbersInduct
<1>5. Cardinality(U) \in G
    BY <1>1, <1>4
<1> QED BY <1>5 DEF G

-----------------------------------------------------------------------------
(* Sums over finite sets.  SumFunctionOnSet is a recursive function on the   *)
(* subsets of the set; that it exists, and that those of two sets agree, is  *)
(* shown first.                                                             *)

Chosen(s) == CHOOSE x \in s : TRUE
SumFrom(F, f, s) == IF s = {} THEN 0 ELSE F[Chosen(s)] + f[s \ {Chosen(s)}]
Sums(F, S, f) == f = [s \in SUBSET S |-> SumFrom(F, f, s)]
UpTo(S, n) == {s \in SUBSET S : Cardinality(s) <= n}

LEMMA ChosenShrinks ==
    ASSUME NEW S, IsFiniteSet(S), NEW n \in Nat, NEW s \in UpTo(S, n + 1), s # {}
    PROVE  s \ {Chosen(s)} \in UpTo(S, n)
<1>1. Chosen(s) \in s
    BY DEF Chosen
<1>2. IsFiniteSet(s) /\ s \in SUBSET S /\ Cardinality(s) <= n + 1
    BY FS_Subset DEF UpTo
<1>3. Cardinality(s \ {Chosen(s)}) = Cardinality(s) - 1
    BY <1>1, <1>2, FS_RemoveElement
<1>4. Cardinality(s) \in Nat
    BY <1>2, FS_CardinalityType
<1> HIDE DEF Chosen
<1> QED BY <1>2, <1>3, <1>4 DEF UpTo

LEMMA SmallSetsGrow ==
    ASSUME NEW S, IsFiniteSet(S), NEW n \in Nat
    PROVE  /\ UpTo(S, n) \subseteq UpTo(S, n + 1) /\ \A s \in UpTo(S, 0) : s = {}
           /\ UpTo(S, Cardinality(S)) = SUBSET S
<1>1. \A s \in SUBSET S : IsFiniteSet(s) /\ Cardinality(s) \in Nat /\ Cardinality(s) <= Cardinality(S)
    BY FS_Subset, FS_CardinalityType
<1>2. \A s \in UpTo(S, 0) : s = {}
    BY <1>1, FS_EmptySet DEF UpTo
<1> QED BY <1>1, <1>2 DEF UpTo

LEMMA SumsExist ==
    ASSUME NEW F, NEW S, IsFiniteSet(S)
    PROVE  \E f : Sums(F, S, f)
<1> DEFINE G == {n \in Nat : \E f : f = [s \in UpTo(S, n) |-> SumFrom(F, f, s)]}
<1>1. 0 \in G
    <2> DEFINE f == [s \in UpTo(S, 0) |-> 0]
    <2>1. \A s \in UpTo(S, 0) : s = {}
        BY SmallSetsGrow
    <2>2. f = [s \in UpTo(S, 0) |-> SumFrom(F, f, s)]
        BY <2>1 DEF SumFrom
    <2> HIDE DEF f
    <2> QED BY <2>2
<1>2. ASSUME NEW n \in Nat, n \in G PROVE n + 1 \in G
    <2>1. PICK f : f = [s \in UpTo(S, n) |-> SumFrom(F, f, s)]
        BY <1>2
    <2> DEFINE g == [s \in UpTo(S, n + 1) |-> IF s \in UpTo(S, n) THEN f[s] ELSE SumFrom(F, f, s)]
    <2>2. UpTo(S, n) \subseteq UpTo(S, n + 1)
        BY SmallSetsGrow
    <2>3. ASSUME NEW s \in UpTo(S, n + 1)
          PROVE  g[s] = SumFrom(F, g, s)
        <3>1. g[s] = SumFrom(F, f, s)
            BY <2>1
        <3>2. s # {} => g[s \ {Chosen(s)}] = f[s \ {Chosen(s)}]
            BY <2>2, ChosenShrinks
        <3> HIDE DEF g
        <3> QED BY <3>1, <3>2 DEF SumFrom
    <2>4. DOMAIN g = UpTo(S, n + 1) /\ g = [s \in DOMAIN g |-> g[s]]
        OBVIOUS
    <2> HIDE DEF g
    <2>5. g = [s \in UpTo(S, n + 1) |-> SumFrom(F, g, s)]
        BY <2>3, <2>4
    <2> QED BY <2>5
<1> HIDE DEF G
<1>3. Nat \subseteq G
    BY <1>1, <1>2, NumbersInduct
<1>4. Cardinality(S) \in G
    BY <1>3, FS_CardinalityType
<1>5. UpTo(S, Cardinality(S)) = SUBSET S
    BY SmallSetsGrow
<1> QED BY <1>4, <1>5 DEF G, Sums

LEMMA SumsAgree ==
    ASSUME NEW F, NEW S, IsFiniteSet(S), NEW T \in SUBSET S,
           NEW f, Sums(F, S, f), NEW g, Sums(F, T, g)
    PROVE  f[T] = g[T]
<1> DEFINE G == {n \in Nat : \A s \in UpTo(T, n) : f[s] = g[s]}
<1>0. /\ IsFiniteSet(T)
      /\ \A n \in Nat : \A s \in UpTo(T, n) : s \in SUBSET T /\ s \in SUBSET S
      /\ \A s \in SUBSET T : f[s] = SumFrom(F, f, s) /\ g[s] = SumFrom(F, g, s)
    BY FS_Subset DEF UpTo, Sums
<1>1. 0 \in G
    <2>1. \A s \in UpTo(T, 0) : s = {}
        BY <1>0, SmallSetsGrow
    <2> QED BY <1>0, <2>1 DEF SumFrom
<1>2. ASSUME NEW n \in Nat, n \in G PROVE n + 1 \in G
    <2>1. ASSUME NEW s \in UpTo(T, n + 1)
          PROVE  f[s] = g[s]
        <3>1. s # {} => f[s \ {Chosen(s)}] = g[s \ {Chosen(s)}]
            BY <1>0, <1>2, ChosenShrinks
        <3>2. f[s] = SumFrom(F, f, s) /\ g[s] = SumFrom(F, g, s)
            BY <1>0, n + 1 \in Nat
        <3> QED BY <3>1, <3>2 DEF SumFrom
    <2> QED BY <2>1
<1> HIDE DEF G
<1>3. Nat \subseteq G
    BY <1>1, <1>2, NumbersInduct
<1>4. Cardinality(T) \in G /\ T \in UpTo(T, Cardinality(T))
    BY <1>0, <1>3, FS_CardinalityType, SmallSetsGrow
<1> QED BY <1>4 DEF G

LEMMA SumIsSum ==
    ASSUME NEW F, NEW S, IsFiniteSet(S)
    PROVE  \E f : Sums(F, S, f) /\ SumFunctionOnSet(F, S) = f[S]
<1> DEFINE f == CHOOSE g : g = [s \in SUBSET S |-> SumFrom(F, g, s)]
<1>1. SumFunctionOnSet(F, S) = f[S]
    BY DEF SumFunctionOnSet, FoldFunctionOnSet, MapThenFoldSet, SumFrom, Chosen
<1>2. Sums(F, S, f)
    <2>1. \E g : g = [s \in SUBSET S |-> SumFrom(F, g, s)]
        BY SumsExist DEF Sums
    <2>2. f = [s \in SUBSET S |-> SumFrom(F, f, s)]
        BY <2>1
    <2> QED BY <2>2 DEF Sums
<1> QED BY <1>1, <1>2

LEMMA SumByChoice ==
    ASSUME NEW F, NEW S, IsFiniteSet(S)
    PROVE  SumFunctionOnSet(F, S) =
               IF S = {} THEN 0
               ELSE F[Chosen(S)] + SumFunctionOnSet(F, S \ {Chosen(S)})
<1>1. PICK f : Sums(F, S, f) /\ SumFunctionOnSet(F, S) = f[S]
    BY SumIsSum
<1>2. f[S] = SumFrom(F, f, S)
    BY <1>1 DEF Sums
<1> DEFINE T == S \ {Chosen(S)}
<1>3. IsFiniteSet(T) /\ T \in SUBSET S
    BY FS_Subset
<1>4. PICK g : Sums(F, T, g) /\ SumFunctionOnSet(F, T) = g[T]
    BY <1>3, SumIsSum
<1>5. f[T] = g[T]
    BY <1>1, <1>3, <1>4, SumsAgree
<1> QED BY <1>1, <1>2, <1>4, <1>5 DEF SumFrom

Numbers(F, S) == \A x \in S : F[x] \in Nat

LEMMA SumOfNone == ASSUME NEW F PROVE SumFunctionOnSet(F, {}) = 0
BY FS_EmptySet, SumByChoice

\* A sum is a number, and any element can be taken out first.
LEMMA SumTakes ==
    ASSUME NEW F, NEW S, IsFiniteSet(S), Numbers(F, S)
    PROVE  /\ SumFunctionOnSet(F, S) \in Nat
           /\ \A x \in S : SumFunctionOnSet(F, S) = F[x] + SumFunctionOnSet(F, S \ {x})
<1> DEFINE Good(s) == /\ SumFunctionOnSet(F, s) \in Nat
                      /\ \A x \in s : SumFunctionOnSet(F, s) = F[x] + SumFunctionOnSet(F, s \ {x})
           G == {n \in Nat : \A s \in UpTo(S, n) : Good(s)}
<1>0. \A n \in Nat : \A s \in UpTo(S, n) : s \in SUBSET S /\ IsFiniteSet(s)
    BY FS_Subset DEF UpTo
<1>1. 0 \in G
    <2>1. \A s \in UpTo(S, 0) : s = {}
        BY SmallSetsGrow
    <2> QED BY <2>1, SumOfNone
<1>2. ASSUME NEW n \in Nat, n \in G PROVE n + 1 \in G
    <2>1. ASSUME NEW s \in UpTo(S, n + 1), s # {}
          PROVE  Good(s)
        <3> DEFINE c == Chosen(s)
        <3>1. c \in s /\ s \in SUBSET S /\ IsFiniteSet(s) /\ n + 1 \in Nat
            BY <1>0, <2>1 DEF Chosen
        <3>2. SumFunctionOnSet(F, s) = F[c] + SumFunctionOnSet(F, s \ {c})
            BY <2>1, <3>1, SumByChoice
        <3>3. s \ {c} \in UpTo(S, n)
            BY <2>1, ChosenShrinks
        <3> HIDE DEF c
        <3>4. Good(s \ {c})
            BY <1>2, <3>3
        <3>5. F[c] \in Nat /\ SumFunctionOnSet(F, s) \in Nat
            BY <3>1, <3>2, <3>4 DEF Numbers
        <3>6. ASSUME NEW x \in s, x # c
              PROVE  SumFunctionOnSet(F, s) = F[x] + SumFunctionOnSet(F, s \ {x})
            <4>1. SumFunctionOnSet(F, s \ {c}) = F[x] + SumFunctionOnSet(F, (s \ {c}) \ {x})
                BY <3>4, <3>6
            <4>2. s \ {x} \in UpTo(S, n)
                <5>1. Cardinality(s \ {x}) = Cardinality(s) - 1 /\ Cardinality(s) \in Nat
                    BY <3>1, FS_RemoveElement, FS_CardinalityType
                <5> QED BY <2>1, <3>1, <5>1 DEF UpTo
            <4>3. SumFunctionOnSet(F, s \ {x}) = F[c] + SumFunctionOnSet(F, (s \ {x}) \ {c})
                BY <1>2, <3>1, <3>6, <4>2
            <4>4. (s \ {c}) \ {x} = (s \ {x}) \ {c} /\ (s \ {c}) \ {x} \in UpTo(S, n)
                <5>1. /\ IsFiniteSet(s \ {c}) /\ Cardinality(s \ {c}) \in Nat
                      /\ Cardinality((s \ {c}) \ {x}) <= Cardinality(s \ {c})
                      /\ Cardinality((s \ {c}) \ {x}) \in Nat
                    BY <3>1, FS_Subset, FS_CardinalityType
                <5> QED BY <3>3, <5>1 DEF UpTo
            <4>5. SumFunctionOnSet(F, (s \ {c}) \ {x}) \in Nat
                BY <1>2, <4>4
            <4>6. F[x] \in Nat
                BY <3>1, <3>6 DEF Numbers
            <4> HIDE DEF Good
            <4>7. SumFunctionOnSet(F, (s \ {x}) \ {c}) = SumFunctionOnSet(F, (s \ {c}) \ {x})
                BY <4>4
            <4> QED BY <3>2, <3>5, <4>1, <4>3, <4>5, <4>6, <4>7
        <3> QED BY <3>2, <3>5, <3>6
    <2>2. ASSUME NEW s \in UpTo(S, n + 1), s = {}
          PROVE  Good(s)
        BY <2>2, SumOfNone
    <2> QED BY <2>1, <2>2, n + 1 \in Nat
<1> HIDE DEF G
<1>3. Nat \subseteq G
    BY <1>1, <1>2, NumbersInduct
<1>4. Cardinality(S) \in G /\ S \in UpTo(S, Cardinality(S))
    BY <1>3, FS_CardinalityType, SmallSetsGrow
<1> QED BY <1>4 DEF G

LEMMA SumTyped ==
    ASSUME NEW F, NEW S, IsFiniteSet(S), Numbers(F, S)
    PROVE  SumFunctionOnSet(F, S) \in Nat
BY SumTakes

LEMMA SumAdds ==
    ASSUME NEW F, NEW S, IsFiniteSet(S), NEW x, x \notin S, Numbers(F, S \cup {x})
    PROVE  SumFunctionOnSet(F, S \cup {x}) = SumFunctionOnSet(F, S) + F[x]
<1>1. IsFiniteSet(S \cup {x})
    BY FS_AddElement
<1>2. (S \cup {x}) \ {x} = S /\ x \in S \cup {x}
    OBVIOUS
<1>3. SumFunctionOnSet(F, S \cup {x}) = F[x] + SumFunctionOnSet(F, S)
    BY <1>1, <1>2, SumTakes
<1>4. F[x] \in Nat /\ SumFunctionOnSet(F, S) \in Nat
    BY SumTyped DEF Numbers
<1> QED BY <1>3, <1>4

LEMMA SumOfOne ==
    ASSUME NEW F, NEW x, F[x] \in Nat
    PROVE  SumFunctionOnSet(F, {x}) = F[x]
<1>1. IsFiniteSet({}) /\ {} \cup {x} = {x} /\ x \notin {}
    BY FS_EmptySet
<1>2. SumFunctionOnSet(F, {} \cup {x}) = SumFunctionOnSet(F, {}) + F[x]
    BY <1>1, SumAdds DEF Numbers
<1> QED BY <1>1, <1>2, SumOfNone

\* Only the values on the set matter, and a renaming of the elements that leaves
\* their values leaves the sum.
ImageOf(h, S) == {h[x] : x \in S}

LEMMA SumRenames ==
    ASSUME NEW F, NEW S, IsFiniteSet(S), Numbers(F, S), NEW G, NEW h,
           \A x \in S : F[x] = G[h[x]], \A x, y \in S : h[x] = h[y] => x = y
    PROVE  SumFunctionOnSet(F, S) = SumFunctionOnSet(G, ImageOf(h, S))
<1> SUFFICES SumFunctionOnSet(F, S) = SumFunctionOnSet(G, {h[x] : x \in S})
    BY DEF ImageOf
<1> DEFINE Image(s) == {h[x] : x \in s}
           P == {s \in SUBSET S : SumFunctionOnSet(F, s) = SumFunctionOnSet(G, Image(s))}
<1>1. {} \in P
    BY SumOfNone
<1>2. ASSUME NEW s \in SUBSET S, NEW x \in S, s \in P, x \notin s
      PROVE  s \cup {x} \in P
    <2>1. IsFiniteSet(s) /\ IsFiniteSet(Image(s))
        <3> DEFINE r == [y \in s |-> h[y]]
        <3>1. IsFiniteSet(s)
            BY FS_Subset
        <3>2. r \in Surjection(s, Image(s))
            BY DEF Surjection
        <3> QED BY <3>1, <3>2, FS_Surjection
    <2>2. h[x] \notin Image(s) /\ Image(s \cup {x}) = Image(s) \cup {h[x]}
        BY <1>2
    <2>3. Numbers(F, s \cup {x}) /\ Numbers(G, Image(s) \cup {h[x]})
        BY DEF Numbers
    <2>4. F[x] = G[h[x]] /\ SumFunctionOnSet(F, s) = SumFunctionOnSet(G, Image(s))
        BY <1>2
    <2> HIDE DEF Image, P
    <2>5. SumFunctionOnSet(F, s \cup {x}) = SumFunctionOnSet(F, s) + F[x]
        BY <1>2, <2>1, <2>3, SumAdds
    <2>6. SumFunctionOnSet(G, Image(s) \cup {h[x]}) = SumFunctionOnSet(G, Image(s)) + G[h[x]]
        BY <2>1, <2>2, <2>3, SumAdds
    <2>7. SumFunctionOnSet(F, s \cup {x}) = SumFunctionOnSet(G, Image(s \cup {x}))
        BY <2>2, <2>4, <2>5, <2>6
    <2> QED BY <2>7 DEF P
<1> HIDE DEF P
<1>3. S \in P
    BY <1>1, <1>2, FiniteInduct
<1> QED BY <1>3 DEF P

LEMMA SumSame ==
    ASSUME NEW F, NEW G, NEW S, IsFiniteSet(S), Numbers(F, S), \A x \in S : F[x] = G[x]
    PROVE  SumFunctionOnSet(F, S) = SumFunctionOnSet(G, S)
<1> DEFINE h == [x \in S |-> x]
<1>1. ImageOf(h, S) = S /\ \A x \in S : h[x] = x
    BY DEF ImageOf
<1> HIDE DEF h
<1>2. SumFunctionOnSet(F, S) = SumFunctionOnSet(G, ImageOf(h, S))
    BY <1>1, SumRenames
<1> QED BY <1>1, <1>2

LEMMA SumSplits ==
    ASSUME NEW F, NEW A, NEW B, IsFiniteSet(A), IsFiniteSet(B), A \cap B = {}, Numbers(F, A \cup B)
    PROVE  SumFunctionOnSet(F, A \cup B) = SumFunctionOnSet(F, A) + SumFunctionOnSet(F, B)
<1> DEFINE P == {s \in SUBSET B : SumFunctionOnSet(F, A \cup s)
                                     = SumFunctionOnSet(F, A) + SumFunctionOnSet(F, s)}
<1>1. {} \in P
    <2>1. SumFunctionOnSet(F, A) \in Nat
        BY SumTyped DEF Numbers
    <2> QED BY <2>1, SumOfNone
<1>2. ASSUME NEW s \in SUBSET B, NEW x \in B, s \in P, x \notin s
      PROVE  s \cup {x} \in P
    <2>1. IsFiniteSet(s) /\ IsFiniteSet(A \cup s)
        BY FS_Subset, FS_Union
    <2>2. /\ Numbers(F, s \cup {x}) /\ Numbers(F, (A \cup s) \cup {x}) /\ x \notin A \cup s
          /\ Numbers(F, A) /\ Numbers(F, s) /\ F[x] \in Nat
          /\ A \cup (s \cup {x}) = (A \cup s) \cup {x}
        BY <1>2 DEF Numbers
    <2>3. SumFunctionOnSet(F, A \cup s) = SumFunctionOnSet(F, A) + SumFunctionOnSet(F, s)
        BY <1>2
    <2> HIDE DEF P
    <2>4. SumFunctionOnSet(F, (A \cup s) \cup {x}) = SumFunctionOnSet(F, A \cup s) + F[x]
        BY <2>1, <2>2, SumAdds
    <2>5. SumFunctionOnSet(F, s \cup {x}) = SumFunctionOnSet(F, s) + F[x]
        BY <1>2, <2>1, <2>2, SumAdds
    <2>6. SumFunctionOnSet(F, A) \in Nat /\ SumFunctionOnSet(F, s) \in Nat
        BY <2>1, <2>2, SumTyped
    <2>7. SumFunctionOnSet(F, A \cup (s \cup {x})) = SumFunctionOnSet(F, (A \cup s) \cup {x})
        BY <2>2
    <2> QED BY <2>2, <2>3, <2>4, <2>5, <2>6, <2>7 DEF P
<1> HIDE DEF P
<1>3. B \in P
    BY <1>1, <1>2, FiniteInduct
<1> QED BY <1>3 DEF P

LEMMA SumGrows ==
    ASSUME NEW F, NEW B, IsFiniteSet(B), Numbers(F, B), NEW A \in SUBSET B
    PROVE  SumFunctionOnSet(F, A) <= SumFunctionOnSet(F, B)
<1>1. IsFiniteSet(A) /\ IsFiniteSet(B \ A) /\ A \cup (B \ A) = B /\ A \cap (B \ A) = {}
    BY FS_Subset
<1>2. SumFunctionOnSet(F, A \cup (B \ A)) = SumFunctionOnSet(F, A) + SumFunctionOnSet(F, B \ A)
    BY <1>1, SumSplits
<1>3. SumFunctionOnSet(F, A) \in Nat /\ SumFunctionOnSet(F, B \ A) \in Nat
    BY <1>1, SumTyped DEF Numbers
<1> DEFINE a == SumFunctionOnSet(F, A)
           b == SumFunctionOnSet(F, B \ A)
<1>4. a \in Nat /\ b \in Nat /\ SumFunctionOnSet(F, B) = a + b
    BY <1>1, <1>2, <1>3
<1> HIDE DEF b
<1>5. a <= SumFunctionOnSet(F, B)
    <2> HIDE DEF a
    <2> QED BY <1>4
<1> QED BY <1>5

LEMMA SumOfEqual ==
    ASSUME NEW F, NEW S, IsFiniteSet(S), NEW v \in Nat, \A x \in S : F[x] = v
    PROVE  SumFunctionOnSet(F, S) = Cardinality(S) * v
<1> DEFINE P == {s \in SUBSET S : SumFunctionOnSet(F, s) = Cardinality(s) * v}
<1>1. {} \in P
    BY SumOfNone, FS_EmptySet
<1>2. ASSUME NEW s \in SUBSET S, NEW x \in S, s \in P, x \notin s
      PROVE  s \cup {x} \in P
    <2>1. IsFiniteSet(s) /\ Cardinality(s) \in Nat
        BY FS_Subset, FS_CardinalityType
    <2>2. Cardinality(s \cup {x}) = Cardinality(s) + 1
        BY <1>2, <2>1, FS_AddElement
    <2>3. SumFunctionOnSet(F, s \cup {x}) = SumFunctionOnSet(F, s) + F[x]
        BY <1>2, <2>1, SumAdds DEF Numbers
    <2>4. SumFunctionOnSet(F, s) = Cardinality(s) * v
        BY <1>2
    <2> DEFINE n == Cardinality(s)
    <2>5. n \in Nat /\ (n + 1) * v = n * v + v
        BY <2>1
    <2> QED BY <2>2, <2>3, <2>4, <2>5
<1> HIDE DEF P
<1>3. S \in P
    BY <1>1, <1>2, FiniteInduct
<1> QED BY <1>3 DEF P

\* GROUP BY: the sum of the sums of the groups, where g gives each element its group.
Group(S, g, t) == {x \in S : g[x] = t}
Grouped(F, S, g, G, T) ==
    /\ \A x \in S : g[x] \in T
    /\ \A t \in T : G[t] = SumFunctionOnSet(F, Group(S, g, t))

LEMMA SumRegroups ==
    ASSUME NEW F, NEW S, NEW g, NEW G, NEW T, Grouped(F, S, g, G, T),
           IsFiniteSet(S), Numbers(F, S), IsFiniteSet(T)
    PROVE  SumFunctionOnSet(F, S) = SumFunctionOnSet(G, T)
<1> SUFFICES ASSUME \A x \in S : g[x] \in T,
                    \A t \in T : G[t] = SumFunctionOnSet(F, {x \in S : g[x] = t})
             PROVE  SumFunctionOnSet(F, S) = SumFunctionOnSet(G, T)
    BY DEF Grouped, Group
<1> DEFINE Of(s) == {x \in S : g[x] \in s}
           P == {s \in SUBSET T : SumFunctionOnSet(F, Of(s)) = SumFunctionOnSet(G, s)}
<1>0. /\ \A s : IsFiniteSet(Of(s)) /\ Numbers(F, Of(s)) /\ Of(s) \subseteq S
      /\ Numbers(G, T)
    <2>1. ASSUME NEW s PROVE IsFiniteSet(Of(s)) /\ Numbers(F, Of(s)) /\ Of(s) \subseteq S
        BY FS_Subset DEF Numbers
    <2>2. ASSUME NEW t \in T PROVE G[t] \in Nat
        <3>1. {x \in S : g[x] = t} \in SUBSET S
            OBVIOUS
        <3>2. IsFiniteSet({x \in S : g[x] = t}) /\ Numbers(F, {x \in S : g[x] = t})
            BY <3>1, FS_Subset DEF Numbers
        <3> QED BY <3>2, SumTyped
    <2> QED BY <2>1, <2>2 DEF Numbers
<1>1. {} \in P
    <2>1. Of({}) = {}
        OBVIOUS
    <2> QED BY <2>1, SumOfNone
<1>2. ASSUME NEW s \in SUBSET T, NEW t \in T, s \in P, t \notin s
      PROVE  s \cup {t} \in P
    <2> DEFINE new == {x \in S : g[x] = t}
    <2>1. Of(s \cup {t}) = Of(s) \cup new /\ Of(s) \cap new = {} /\ new = Of({t})
        BY <1>2
    <2>2. G[t] = SumFunctionOnSet(F, new) /\ SumFunctionOnSet(F, Of(s)) = SumFunctionOnSet(G, s)
        BY <1>2
    <2>3. Numbers(F, Of(s) \cup new) /\ Numbers(G, s \cup {t}) /\ IsFiniteSet(s)
        BY <1>0, FS_Subset DEF Numbers
    <2> HIDE DEF new, Of, P
    <2>4. SumFunctionOnSet(F, Of(s) \cup new) = SumFunctionOnSet(F, Of(s)) + SumFunctionOnSet(F, new)
        BY <1>0, <2>1, <2>3, SumSplits
    <2>5. SumFunctionOnSet(G, s \cup {t}) = SumFunctionOnSet(G, s) + G[t]
        BY <1>2, <2>3, SumAdds
    <2>6. SumFunctionOnSet(F, Of(s \cup {t})) = SumFunctionOnSet(G, s \cup {t})
        BY <2>1, <2>2, <2>4, <2>5
    <2> QED BY <2>6 DEF P
<1>3. Of(T) = S
    OBVIOUS
<1> HIDE DEF P, Of
<1>4. T \in P
    BY <1>1, <1>2, FiniteInduct
<1> QED BY <1>3, <1>4 DEF P

-----------------------------------------------------------------------------
(* New addresses and lists.                                                 *)

NewIpInv ==
    /\ instant \in Nat /\ settled \subseteq known
    /\ announced \in [Addresses -> 0 .. 1]
    /\ \A a \in Addresses : announced[a] = 1 => a \in known /\ a \notin settled
    /\ InBaseline => \A a \in Addresses : announced[a] = 0

\* The set in use is that of the last good download, and what is held back was told.
ListsInv ==
    /\ instant \in Nat
    /\ \A l \in Lists : \A L \in feed[l] : items[l] = Parse(l, L)
    /\ \A l \in Lists : \A e \in listed_at[l] : e.at \in 0 .. instant /\ <<l, e.key, e.at>> \in told
    /\ DOMAIN items = Lists /\ DOMAIN feed = Lists /\ DOMAIN listed_at = Lists
    /\ ListedIsReported

LEMMA ProcessNewIpKeeps ==
    ASSUME NewIpInv, NEW s \in Addresses, NEW d \in Addresses, ProcessNewIp(s, d)
    PROVE  NewIpInv'
<1> DEFINE new   == {s, d} \ known
           first == IF s \in new THEN s ELSE d
<1>1. /\ known' = known \cup new /\ instant' = instant
      /\ settled' = IF InBaseline THEN settled \cup {s, d} ELSE settled
      /\ announced' = IF new = {} \/ InBaseline THEN announced
                      ELSE [announced EXCEPT ![first] = @ + 1]
    BY DEF ProcessNewIp
<1>2. {s, d} \subseteq known' /\ known \subseteq known'
    BY <1>1
<1>3. CASE new = {} \/ InBaseline
    BY <1>1, <1>2, <1>3 DEF NewIpInv, InBaseline
<1>4. CASE new # {} /\ ~InBaseline
    <2>1. first \in new /\ first \in Addresses /\ first \notin known
        BY <1>4
    <2> HIDE DEF new, first
    <2>2. announced' = [announced EXCEPT ![first] = @ + 1] /\ settled' = settled
        BY <1>1, <1>4
    <2>3. announced[first] = 0
        BY <2>1 DEF NewIpInv
    <2>4. first \in known' /\ first \notin settled
        BY <1>1, <2>1 DEF NewIpInv
    <2> QED BY <1>1, <1>4, <2>1, <2>2, <2>3, <2>4 DEF NewIpInv, InBaseline
<1> QED BY <1>3, <1>4

\* detector/new_ip.py: no address is reported twice, nor one the baseline saw.
THEOREM NewReportedOnce == ContactSpec => []NewIsReportedOnce
<1>1. ContactInit => NewIpInv
    BY DEF ContactInit, NewIpInv
<1>2. NewIpInv /\ [ContactNext]_contactVars => NewIpInv'
    <2> SUFFICES ASSUME NewIpInv, [ContactNext]_contactVars PROVE NewIpInv'
        OBVIOUS
    <2>1. CASE \E s, d \in Addresses : ProcessNewIp(s, d)
        BY <2>1, ProcessNewIpKeeps
    <2>2. CASE UNCHANGED newIpVars /\ instant' \in {instant, instant + 1}
        BY <2>2, ContactAssumption DEF NewIpInv, newIpVars, InBaseline
    <2> QED BY <2>1, <2>2 DEF ContactNext, contactVars, BeaconNext, NewIpNext, ListNext, ProcessBeacon,
            FlushBeacons, InstantPasses, RefreshFails, Refresh, ProcessList, FlushLists
<1>3. NewIpInv => NewIsReportedOnce
    BY DEF NewIpInv, NewIsReportedOnce
<1> QED BY <1>1, <1>2, <1>3, PTL DEF ContactSpec

LEMMA ProcessListKeeps ==
    ASSUME ListsInv, NEW l \in Lists, NEW src, NEW dst, NEW name, ProcessList(l, src, dst, name)
    PROVE  ListsInv'
<1> DEFINE hits == {k \in Matches(l, src, dst, name, items[l]) : ~Quieted(l, k)}
           owed == UNION {Matches(l, src, dst, name, Parse(l, L)) : L \in feed[l]}
<1>1. /\ listed_at' = [listed_at EXCEPT ![l] = {e \in @ : e.key \notin hits}
                                               \cup {[key |-> k, at |-> instant] : k \in hits}]
      /\ told' = told \cup {<<l, k, instant>> : k \in hits}
      /\ due' = due \cup {<<l, k, instant>> : k \in owed}
      /\ UNCHANGED <<instant, items, feed>>
    BY DEF ProcessList
<1>2. \A k \in owed : k \in Matches(l, src, dst, name, items[l])
    BY DEF ListsInv
<1>3. \A k \in owed : k \in hits \/ Quieted(l, k)
    BY <1>2
<1> HIDE DEF hits, owed
<1>4. \A m \in Lists : \A e \in listed_at'[m] : e.at \in 0 .. instant /\ <<m, e.key, e.at>> \in told'
    <2> SUFFICES ASSUME NEW m \in Lists, NEW e \in listed_at'[m]
                 PROVE  e.at \in 0 .. instant /\ <<m, e.key, e.at>> \in told'
        OBVIOUS
    <2>1. CASE e \in listed_at[m]
        BY <1>1, <2>1 DEF ListsInv
    <2>2. CASE m = l /\ \E k \in hits : e = [key |-> k, at |-> instant]
        BY <1>1, <2>2 DEF ListsInv
    <2>3. e \in listed_at[m] \/ (m = l /\ \E k \in hits : e = [key |-> k, at |-> instant])
        BY <1>1 DEF ListsInv
    <2> QED BY <2>1, <2>2, <2>3
<1>5. ListedIsReported'
    <2> SUFFICES ASSUME NEW d \in due'
                 PROVE  \E s \in 0 .. d[3] :
                            <<d[1], d[2], s>> \in told' /\ (s = d[3] \/ d[3] - s < ListRest)
        BY DEF ListedIsReported
    <2>1. CASE d \in due
        BY <1>1, <2>1 DEF ListsInv, ListedIsReported
    <2>2. CASE d \notin due
        <3>1. PICK k \in owed : d = <<l, k, instant>>
            BY <1>1, <2>2
        <3>2. CASE k \in hits
            BY <1>1, <3>1, <3>2 DEF ListsInv
        <3>3. CASE Quieted(l, k)
            <4>1. PICK e \in listed_at[l] : e.key = k /\ instant - e.at < ListRest
                BY <3>3 DEF Quieted
            <4>2. e.at \in 0 .. instant /\ <<l, k, e.at>> \in told
                BY <4>1 DEF ListsInv
            <4> QED BY <1>1, <3>1, <4>1, <4>2
        <3> QED BY <1>3, <3>1, <3>2, <3>3
    <2> QED BY <2>1, <2>2
<1>6. DOMAIN items' = Lists /\ DOMAIN feed' = Lists /\ DOMAIN listed_at' = Lists
    BY <1>1 DEF ListsInv
<1>7. instant' \in Nat /\ \A m \in Lists : \A L \in feed'[m] : items'[m] = Parse(m, L)
    BY <1>1 DEF ListsInv
<1> QED BY <1>1, <1>4, <1>5, <1>6, <1>7 DEF ListsInv

LEMMA RefreshKeeps ==
    ASSUME ListsInv, NEW l \in Lists, NEW L, Refresh(l, L)
    PROVE  ListsInv'
<1>1. /\ items' = [items EXCEPT ![l] = Parse(l, L)] /\ feed' = [feed EXCEPT ![l] = {L}]
      /\ UNCHANGED <<instant, listed_at, due, told>>
    BY DEF Refresh
<1>2. \A m \in Lists : \A M \in feed'[m] : items'[m] = Parse(m, M)
    BY <1>1 DEF ListsInv
<1> QED BY <1>1, <1>2 DEF ListsInv, ListedIsReported

LEMMA OtherListStepsKeep ==
    ASSUME ListsInv, UNCHANGED <<items, feed, due, told>>, instant' \in {instant, instant + 1},
           DOMAIN listed_at' = Lists, \A l \in Lists : listed_at'[l] \subseteq listed_at[l]
    PROVE  ListsInv'
BY DEF ListsInv, ListedIsReported

\* detector/base.py and the detectors of a list: what the last good download
\* or the configuration lists is reported, unless it was within the alert
\* window before, for any downloads, failures and flushes.
THEOREM ListedReported == ContactSpec => []ListedIsReported
<1>1. ContactInit => ListsInv
    BY DEF ContactInit, ListsInv, ListedIsReported
<1>2. ListsInv /\ [ContactNext]_contactVars => ListsInv'
    <2> SUFFICES ASSUME ListsInv, [ContactNext]_contactVars PROVE ListsInv'
        OBVIOUS
    <2>1. CASE \E l \in Lists, s, d \in Addresses, n \in Lookups : ProcessList(l, s, d, n)
        BY <2>1, ProcessListKeeps
    <2>2. CASE \E l \in Lists, L \in SUBSET Lines : Refresh(l, L)
        BY <2>2, RefreshKeeps
    <2>3. CASE FlushLists
        BY <2>3, OtherListStepsKeep DEF FlushLists
    <2>4. CASE UNCHANGED listVars /\ instant' \in {instant, instant + 1}
        BY <2>4, OtherListStepsKeep DEF listVars, ListsInv
    <2> QED BY <2>1, <2>2, <2>3, <2>4 DEF ContactNext, contactVars, BeaconNext, NewIpNext, ListNext,
            ProcessBeacon, FlushBeacons, InstantPasses, RefreshFails, ProcessNewIp
<1>3. ListsInv => ListedIsReported
    BY DEF ListsInv
<1> QED BY <1>1, <1>2, <1>3, PTL DEF ContactSpec

-----------------------------------------------------------------------------
(* Beacons.                                                                 *)

LEMMA MinIsLeast ==
    ASSUME NEW T \in SUBSET Nat, T # {}
    PROVE  Min(T) \in T /\ \A y \in T : Min(T) <= y
BY LeastExists DEF Min

LEMMA MaxIsGreatest ==
    ASSUME NEW n \in Nat, NEW T \in SUBSET (0 .. n), T # {}
    PROVE  Max(T) \in T /\ \A y \in T : y <= Max(T)
<1> DEFINE U == {k \in Nat : \E x \in T : k = n - x}
<1>1. U \in SUBSET Nat /\ U # {}
    <2>1. PICK x \in T : TRUE
        OBVIOUS
    <2>2. n - x \in Nat
        BY <2>1
    <2> QED BY <2>1, <2>2
<1>2. PICK k \in U : \A j \in U : k <= j
    BY <1>1, LeastExists
<1>3. PICK x \in T : k = n - x
    BY <1>2
<1>4. \A y \in T : n - y \in U
    OBVIOUS
<1>5. \A y \in T : x >= y
    BY <1>2, <1>3, <1>4
<1> QED BY <1>5 DEF Max

LEMMA Division ==
    ASSUME NEW a \in Nat, NEW q \in Nat \ {0}
    PROVE  a \div q \in Nat /\ a % q \in 0 .. q - 1 /\ a = ((a \div q) * q) + (a % q)
OBVIOUS

LEMMA Remainder ==
    ASSUME NEW k \in Nat, NEW q \in Nat \ {0}, NEW r \in 0 .. q - 1
    PROVE  ((k * q) + r) % q = r /\ ((k * q) + r) \div q = k
<1> DEFINE a == (k * q) + r
<1>1. k * q \in Nat
    OBVIOUS
<1>2. a \in Nat
    BY <1>1
<1> HIDE DEF a
<1>3. a = ((a \div q) * q) + (a % q) /\ a \div q \in Nat /\ a % q \in 0 .. q - 1
    BY <1>2, Division
<1> DEFINE d == a \div q
           e == a % q
<1>4. (k * q) + r = (d * q) + e /\ d \in Nat /\ e \in 0 .. q - 1
    BY <1>3 DEF a
<1> HIDE DEF d, e
<1>5. d = k
    <2>1. CASE d < k
        <3>1. d + 1 <= k
            BY <1>4, <2>1
        <3>2. (d + 1) * q <= k * q
            BY <1>4, <3>1
        <3> QED BY <1>1, <1>4, <3>2
    <2>2. CASE k < d
        <3>1. (k + 1) * q <= d * q
            BY <1>4, <2>2
        <3> QED BY <1>1, <1>4, <3>1
    <2> QED BY <1>4, <2>1, <2>2
<1>6. e = r
    BY <1>1, <1>4, <1>5
<1> QED BY <1>5, <1>6 DEF a, d, e

\* Beats follow one another at the pace.
LEMMA BeatsFollow ==
    ASSUME NEW k \in Nat, NEW q \in Nat \ {0}
    PROVE  k * q \in Nat /\ (k + 1) * q = (k * q) + q /\ (k # 0 => k * q >= q)
<1>1. k * q \in Nat /\ (k + 1) * q = (k * q) + q
    OBVIOUS
<1>2. ASSUME k # 0 PROVE k * q >= q
    <2>1. k - 1 \in Nat /\ k = (k - 1) + 1
        BY <1>2
    <2>2. (k - 1) * q \in Nat /\ k * q = ((k - 1) * q) + q
        BY <2>1
    <2> QED BY <2>2
<1> QED BY <1>1, <1>2

\* Contacts of one pair, a second apart, and every packet within the window is one or
\* follows one, or a packet before the window, within a second.
Apart(C) == \A c, d \in C : c < d => d - c >= Second
Explained(C, P, start) ==
    \A x \in P : x >= start =>
        \/ x \in C
        \/ \E c \in C : x - Second < c /\ c < x
        \/ \E c \in P : c < start /\ x - Second < c /\ c < x

BeaconInv ==
    /\ instant \in Nat
    /\ packets \in [Pairs -> SUBSET (0 .. instant)] /\ contacts \in [Pairs -> SUBSET (0 .. instant)]
    /\ beacons \in [Pairs -> SUBSET (0 .. instant)] /\ beaconed \in [Pairs -> SUBSET (0 .. instant)]
    /\ \A p \in Pairs : /\ contacts[p] \subseteq packets[p] /\ beaconed[p] \subseteq beacons[p]
                        /\ Apart(contacts[p])
                        /\ Explained(contacts[p], packets[p], instant - BeaconWindow)
    /\ PeriodicIsFlagged

\* A packet at t of a beacon with this pace: the window W it ends, and the packets P before.
EndsBeacon(P, t, W, m, pace) ==
    /\ t \in Nat /\ P \subseteq 0 .. t /\ W = {c \in P \cup {t} : t - BeaconWindow <= c}
    /\ m \in Nat /\ m \in W /\ \A c \in W : m <= c
    /\ pace \in MinInterval .. MaxInterval /\ pace > Second
    /\ \A c \in W : (c - m) % pace < Second
    /\ \A c \in m .. t : (c - m) % pace = 0 => c \in W
    /\ (t - m) % pace = 0
    /\ \A c \in P : ~(m - Second < c /\ c < m)

Beats(m, pace, K) == {m + (k * pace) : k \in 0 .. K}

\* Every beat before t is among the contacts ...
LEMMA BeatsAreContacts ==
    ASSUME NEW P, NEW t, NEW W, NEW m, NEW pace, EndsBeacon(P, t, W, m, pace), t \notin P,
           NEW C \in SUBSET P, Apart(C), Explained(C, P, t - BeaconWindow), NEW k \in Nat,
           m + (k * pace) < t
    PROVE  m + (k * pace) \in C
<1> DEFINE Beat(j) == m + (j * pace)
           G == {j \in Nat : Beat(j) < t => Beat(j) \in C}
<1>0. /\ t \in Nat /\ m \in Nat /\ pace \in Nat \ {0} /\ Second \in Nat \ {0} /\ pace > Second
      /\ BeaconWindow \in Nat /\ m >= t - BeaconWindow /\ P \subseteq 0 .. t
    BY ContactAssumption DEF EndsBeacon
<1>1. ASSUME NEW j \in Nat
      PROVE  /\ Beat(j) \in Nat /\ Beat(j) >= m /\ Beat(j + 1) = Beat(j) + pace
             /\ Beat(j) < t => Beat(j) \in P
    <2>1. j * pace \in Nat /\ (j + 1) * pace = (j * pace) + pace
        BY <1>0, BeatsFollow
    <2>2. ((j * pace) + 0) % pace = 0
        <3>1. 0 \in 0 .. pace - 1
            BY <1>0
        <3> QED BY <1>0, <3>1, Remainder
    <2>3. (j * pace) % pace = 0 /\ Beat(j) - m = j * pace
        BY <1>0, <2>1, <2>2
    <2>4. Beat(j) \in Nat /\ Beat(j) >= m /\ Beat(j + 1) = Beat(j) + pace
        BY <1>0, <2>1
    <2>5. ASSUME Beat(j) < t PROVE Beat(j) \in P
        <3>1. Beat(j) \in m .. t
            BY <1>0, <2>4, <2>5
        <3> HIDE DEF Beat
        <3>2. Beat(j) \in W
            BY <2>3, <3>1 DEF EndsBeacon
        <3> QED BY <1>0, <2>4, <2>5, <3>2 DEF EndsBeacon
    <2> QED BY <2>4, <2>5
<1>2. ASSUME NEW j \in Nat, Beat(j) < t, Beat(j) \notin C
      PROVE  \E c \in C : c \in W /\ m < c /\ Beat(j) - Second < c /\ c < Beat(j)
    <2> DEFINE x == Beat(j)
    <2>1. x \in P /\ x >= m /\ x \in Nat
        BY <1>1, <1>2
    <2> HIDE DEF x
    <2>2. \/ \E c \in C : x - Second < c /\ c < x
          \/ \E c \in P : c < t - BeaconWindow /\ x - Second < c /\ c < x
        <3>1. x >= t - BeaconWindow /\ x \notin C
            BY <1>0, <1>2, <2>1 DEF x
        <3> QED BY <2>1, <3>1 DEF Explained
    <2>3. \A c \in P : c \in Nat /\ (c < m => c <= m - Second) /\ (c >= m => c \in W)
        BY <1>0 DEF EndsBeacon
    <2>4. ASSUME NEW c \in P, x - Second < c, c < x
          PROVE  m < c
        <3>1. j = 0 => x = m
            BY <1>0 DEF x
        <3>2. j # 0 => x >= m + pace
            <4>1. j # 0 => j * pace \in Nat /\ j * pace >= pace
                BY <1>0, BeatsFollow
            <4> QED BY <1>0, <4>1 DEF x
        <3>3. c # m /\ ~(c < m)
            <4>1. CASE j = 0
                BY <1>0, <2>1, <2>3, <2>4, <3>1, <4>1
            <4>2. CASE j # 0
                BY <1>0, <2>1, <2>3, <2>4, <3>2, <4>2
            <4> QED BY <4>1, <4>2
        <3> QED BY <1>0, <2>3, <3>3
    <2>5. \A c \in P : c < t - BeaconWindow => ~(m < c)
        BY <1>0, <2>3
    <2>6. PICK c \in C : x - Second < c /\ c < x
        BY <2>2, <2>4, <2>5
    <2>7. m < c /\ c \in W
        BY <1>0, <2>3, <2>4, <2>6
    <2> QED BY <2>6, <2>7 DEF x
<1>3. 0 \in G
    <2>1. Beat(0) = m
        BY <1>0
    <2>2. \A c \in P : ~(m - Second < c /\ c < m)
        BY DEF EndsBeacon
    <2> HIDE DEF Beat
    <2> QED BY <1>2, <2>1, <2>2
<1>4. ASSUME NEW j \in Nat, j \in G PROVE j + 1 \in G
    <2> SUFFICES ASSUME Beat(j + 1) < t, Beat(j + 1) \notin C PROVE FALSE
        OBVIOUS
    <2>1. PICK c \in C : c \in W /\ m < c /\ Beat(j + 1) - Second < c /\ c < Beat(j + 1)
        BY <1>2
    <2>2. /\ Beat(j) \in Nat /\ Beat(j) >= m /\ Beat(j + 1) = Beat(j) + pace
          /\ Beat(j) < t => Beat(j) \in P
        BY <1>1
    <2>3. c \in Nat /\ (c - m) % pace < Second
        BY <1>0, <2>1 DEF EndsBeacon
    <2>4. Beat(j) \in C
        <3> HIDE DEF Beat
        <3> QED BY <1>0, <1>4, <2>2
    <2> DEFINE r == c - Beat(j)
    <2>5. r \in 0 .. pace - 1 /\ r > 0 /\ c - m = (j * pace) + r
        <3>1. j * pace \in Nat
            BY <1>0, BeatsFollow
        <3>2. Beat(j) = m + (j * pace)
            OBVIOUS
        <3> HIDE DEF Beat
        <3> QED BY <1>0, <2>1, <2>2, <2>3, <3>1, <3>2
    <2>6. (c - m) % pace = r
        <3> HIDE DEF r
        <3> QED BY <1>0, <2>5, Remainder
    <2>7. Beat(j) < c /\ c - Beat(j) < Second
        <3> HIDE DEF Beat
        <3> QED BY <1>0, <2>2, <2>3, <2>5, <2>6
    <2> HIDE DEF Beat
    <2>8. c - Beat(j) >= Second
        BY <2>4, <2>7 DEF Apart
    <2> QED BY <1>0, <2>2, <2>3, <2>7, <2>8
<1> HIDE DEF G
<1>5. k \in G
    BY <1>3, <1>4, NumbersInduct
<1> QED BY <1>5 DEF G

\* ... and every contact within the window is a beat: with t itself, they are the beats.
LEMMA ContactsAreBeats ==
    ASSUME NEW P, NEW t, NEW W, NEW m, NEW pace, EndsBeacon(P, t, W, m, pace), t \notin P,
           NEW C \in SUBSET P, Apart(C), Explained(C, P, t - BeaconWindow)
    PROVE  /\ \A c \in C : c < t - BeaconWindow \/ t - c >= pace
           /\ {c \in C \cup {t} : c >= t - BeaconWindow} = Beats(m, pace, (t - m) \div pace)
           /\ \A c \in C : c < t - BeaconWindow => t - c >= Second
<1> DEFINE K == (t - m) \div pace
<1>0. /\ t \in Nat /\ m \in Nat /\ pace \in Nat \ {0} /\ Second \in Nat \ {0} /\ pace > Second
      /\ BeaconWindow \in Nat /\ m >= t - BeaconWindow /\ P \subseteq 0 .. t /\ m <= t /\ t \in W
    BY ContactAssumption DEF EndsBeacon
<1>1. K \in Nat /\ t = m + (K * pace) /\ K * pace \in Nat
    <2>1. t - m \in Nat /\ (t - m) % pace = 0
        BY <1>0 DEF EndsBeacon
    <2> DEFINE a == t - m
    <2> HIDE DEF a
    <2>2. a \in Nat /\ a % pace = 0
        BY <2>1 DEF a
    <2>3. a \div pace \in Nat /\ a = ((a \div pace) * pace) + (a % pace)
        BY <1>0, <2>2, Division
    <2>4. K = a \div pace
        BY DEF a
    <2> HIDE DEF K
    <2>5. K * pace \in Nat
        BY <1>0, <2>3, <2>4
    <2>6. a = K * pace
        BY <2>2, <2>3, <2>4, <2>5
    <2> QED BY <1>0, <2>3, <2>4, <2>5, <2>6 DEF a
<1> HIDE DEF K
<1>2. ASSUME NEW k \in Nat, k < K PROVE m + (k * pace) \in C /\ (m + (k * pace)) + pace <= t
    <2>1. (k + 1) * pace <= K * pace /\ (k + 1) * pace = (k * pace) + pace /\ k * pace \in Nat
        <3>1. k * pace \in Nat /\ (k + 1) * pace = (k * pace) + pace
            BY <1>0, BeatsFollow
        <3>2. k + 1 <= K
            BY <1>1, <1>2
        <3>3. (k + 1) * pace <= K * pace
            BY <1>0, <1>1, <3>2
        <3> QED BY <3>1, <3>3
    <2>2. (m + (k * pace)) + pace <= t /\ m + (k * pace) < t
        BY <1>0, <1>1, <2>1
    <2>3. m + (k * pace) \in C
        BY <2>2, BeatsAreContacts
    <2> QED BY <2>2, <2>3
<1>3. ASSUME NEW c \in C, c >= t - BeaconWindow
      PROVE  \E k \in 0 .. K : k < K /\ c = m + (k * pace)
    <2>1. c \in Nat /\ c \in W /\ c < t /\ m <= c /\ (c - m) % pace < Second
        BY <1>0, <1>3 DEF EndsBeacon
    <2> DEFINE a == c - m
               k == a \div pace
               r == a % pace
    <2>2. a \in Nat /\ c = m + a
        BY <1>0, <2>1
    <2> HIDE DEF a
    <2>3. k \in Nat /\ r \in 0 .. pace - 1 /\ a = (k * pace) + r
        BY <1>0, <2>2, Division
    <2>4. r < Second
        BY <2>1 DEF a
    <2> HIDE DEF k, r
    <2>5. k * pace \in Nat
        BY <1>0, <2>3, BeatsFollow
    <2>6. m + (k * pace) < t /\ m + (k * pace) <= c
        BY <1>0, <2>1, <2>2, <2>3, <2>5
    <2>7. m + (k * pace) \in C
        BY <2>3, <2>6, BeatsAreContacts
    <2>8. r = 0
        <3> DEFINE b == m + (k * pace)
        <3>1. b \in C /\ b \in Nat /\ c = b + r
            BY <1>0, <2>2, <2>3, <2>5, <2>7
        <3> HIDE DEF b
        <3>2. b < c => c - b >= Second
            BY <3>1 DEF Apart
        <3> QED BY <1>0, <2>1, <2>3, <2>4, <3>1, <3>2
    <2>9. c = m + (k * pace)
        BY <1>0, <2>2, <2>3, <2>5, <2>8
    <2>10. k < K
        <3>1. K <= k => K * pace <= k * pace
            BY <1>0, <1>1, <2>3
        <3>2. k * pace < K * pace
            BY <1>0, <1>1, <2>1, <2>5, <2>9
        <3> QED BY <1>1, <2>3, <2>5, <3>1, <3>2
    <2> QED BY <1>1, <2>3, <2>9, <2>10
<1>4. ASSUME NEW c \in C, c >= t - BeaconWindow PROVE t - c >= pace
    <2>1. PICK k \in 0 .. K : k < K /\ c = m + (k * pace)
        BY <1>3, <1>4
    <2>2. (m + (k * pace)) + pace <= t
        BY <1>1, <1>2, <2>1
    <2>3. c \in Nat
        BY <1>0
    <2> QED BY <1>0, <2>1, <2>2, <2>3
<1>5. {c \in C \cup {t} : c >= t - BeaconWindow} \subseteq Beats(m, pace, K)
    <2>1. t \in Beats(m, pace, K)
        BY <1>1 DEF Beats
    <2> QED BY <1>3, <2>1 DEF Beats
<1>6. ASSUME NEW k \in 0 .. K
      PROVE  m + (k * pace) \in C \cup {t} /\ m + (k * pace) >= t - BeaconWindow
    <2>1. m + (k * pace) \in C \cup {t}
        BY <1>1, <1>2
    <2>2. k * pace \in Nat
        BY <1>0, <1>1, BeatsFollow
    <2> QED BY <1>0, <2>1, <2>2
<1>7. ASSUME NEW c \in C, c < t - BeaconWindow PROVE t - c >= Second
    <2>1. c \in P /\ c \in Nat /\ c < m /\ ~(m - Second < c /\ c < m)
        BY <1>0, <1>7 DEF EndsBeacon
    <2> QED BY <1>0, <2>1
<1>8. \A c \in C : c \in Nat
    BY <1>0
<1>9. {c \in C \cup {t} : c >= t - BeaconWindow} = Beats(m, pace, K)
    BY <1>5, <1>6 DEF Beats
<1>10. \A c \in C : c < t - BeaconWindow \/ t - c >= pace
    BY <1>0, <1>4, <1>8
<1> QED BY <1>7, <1>9, <1>10 DEF K

\* Beats pass every test of steadiness.
LEMMA BeatsAreSteady ==
    ASSUME NEW m \in Nat, NEW pace \in MinInterval .. MaxInterval, pace > 0, NEW K \in Nat,
           K + 1 >= MinContacts
    PROVE  Steady(Beats(m, pace, K))
<1> DEFINE C == Beats(m, pace, K)
           beat == [k \in 0 .. K |-> m + (k * pace)]
           F == [c \in Later(C) |-> GapBefore(C, c)]
           Q == [c \in Later(C) |-> GapBefore(C, c) * GapBefore(C, c)]
<1>0. /\ MinInterval \in Nat /\ MaxInterval \in Nat /\ MaxJitter \in Nat /\ pace \in Nat \ {0}
      /\ K >= 1 /\ MinInterval <= pace /\ pace <= MaxInterval
    BY ContactAssumption
<1>1. ASSUME NEW j \in 0 .. K, NEW k \in 0 .. K, j < k
      PROVE  /\ beat[j] \in Nat /\ beat[j] + pace <= beat[k] /\ beat[k] \in Nat
             /\ j + 1 \in 0 .. K /\ beat[j + 1] = beat[j] + pace
    <2>1. j * pace \in Nat /\ (j + 1) * pace = (j * pace) + pace /\ k * pace \in Nat
        BY <1>0, BeatsFollow
    <2>2. (j + 1) * pace <= k * pace
        BY <1>0, <1>1
    <2> QED BY <1>0, <1>1, <2>1, <2>2
<1>2. \A k \in 0 .. K : beat[k] \in Nat
    BY <1>0, BeatsFollow
<1>3. C = {beat[k] : k \in 0 .. K} /\ beat[0] = m /\ 0 \in 0 .. K
    BY <1>0 DEF Beats
<1> HIDE DEF beat, C
<1>4. beat \in Bijection(0 .. K, C)
    <2>1. \A j, k \in 0 .. K : beat[j] = beat[k] => j = k
        <3>1. \A j, k \in 0 .. K : j < k => beat[j] # beat[k]
            BY <1>0, <1>1
        <3> QED BY <3>1
    <2>2. DOMAIN beat = 0 .. K /\ beat = [k \in 0 .. K |-> beat[k]]
        BY DEF beat
    <2>3. beat \in [0 .. K -> C]
        BY <1>3, <2>2
    <2>4. beat \in Injection(0 .. K, C)
        BY <2>1, <2>3 DEF Injection, IsInjective
    <2>5. beat \in Surjection(0 .. K, C)
        BY <1>3, <2>3 DEF Surjection
    <2> QED BY <2>4, <2>5 DEF Bijection
<1>5. IsFiniteSet(C) /\ Cardinality(C) = K + 1
    <2>1. IsFiniteSet(0 .. K) /\ Cardinality(0 .. K) = K + 1
        BY <1>0, FS_Interval
    <2> QED BY <1>4, <2>1, FS_Bijection DEF ExistsBijection
<1>6. Min(C) = m /\ m \in C
    <2>1. \A c \in C : m <= c /\ c \in Nat
        <3>1. \A k \in 0 .. K : m <= beat[k]
            <4>1. \A k \in 0 .. K : 0 < k => beat[0] + pace <= beat[k]
                BY <1>1, <1>3
            <4> QED BY <1>0, <1>2, <1>3, <4>1
        <3> QED BY <1>2, <1>3, <3>1
    <2>2. Min(C) \in C /\ \A y \in C : Min(C) <= y
        BY <1>3, <2>1, MinIsLeast
    <2> QED BY <1>3, <2>1, <2>2
<1>7. Later(C) = C \ {m} /\ IsFiniteSet(Later(C)) /\ Cardinality(Later(C)) = K
    <2>1. Later(C) = C \ {m}
        BY <1>6 DEF Later
    <2>2. IsFiniteSet(C \ {m}) /\ Cardinality(C \ {m}) = Cardinality(C) - 1
        BY <1>5, <1>6, FS_RemoveElement
    <2> QED BY <1>5, <2>1, <2>2
<1>8. ASSUME NEW c \in Later(C) PROVE GapBefore(C, c) = pace
    <2>1. PICK k \in 0 .. K : c = beat[k] /\ k # 0
        BY <1>3, <1>7
    <2>2. k - 1 \in 0 .. K /\ k - 1 < k /\ (k - 1) + 1 = k
        BY <2>1
    <2> DEFINE b == beat[k - 1]
               D == {d \in C : d < c}
    <2>3. b \in Nat /\ c = b + pace /\ b \in C
        <3>1. b \in Nat /\ beat[(k - 1) + 1] = b + pace
            BY <1>1, <2>2
        <3> QED BY <1>3, <2>1, <2>2, <3>1
    <2>4. b \in D
        BY <1>0, <2>3
    <2>5. \A d \in D : d \in Nat /\ d <= b
        <3> SUFFICES ASSUME NEW j \in 0 .. K, beat[j] < c PROVE beat[j] \in Nat /\ beat[j] <= b
            BY <1>3
        <3>1. ~(k - 1 < j)
            <4>1. k < j => c + pace <= beat[j]
                BY <1>1, <2>1
            <4>2. k = j => c = beat[j]
                BY <2>1
            <4> QED BY <1>0, <1>2, <2>1, <2>3, <4>1, <4>2
        <3>2. j = k - 1 \/ j < k - 1
            BY <2>2, <3>1
        <3>3. j < k - 1 => beat[j] + pace <= b
            BY <1>1, <2>2
        <3> QED BY <1>0, <1>2, <2>3, <3>2, <3>3
    <2> HIDE DEF b
    <2>6. D \in SUBSET (0 .. b) /\ D # {}
        <3> HIDE DEF D
        <3> QED BY <2>3, <2>4, <2>5
    <2> HIDE DEF D
    <2>7. Max(D) \in D /\ \A y \in D : y <= Max(D)
        BY <2>3, <2>6, MaxIsGreatest
    <2>8. Max(D) = b
        <3>1. Max(D) \in Nat /\ Max(D) <= b /\ b <= Max(D)
            BY <2>4, <2>5, <2>7
        <3> QED BY <2>3, <3>1
    <2>9. GapBefore(C, c) = c - b
        BY <2>8 DEF GapBefore, D
    <2> QED BY <1>0, <2>3, <2>9
<1>9. GapSum(C) = K * pace
    <2>1. DOMAIN F = Later(C) /\ \A c \in Later(C) : F[c] = pace
        BY <1>8
    <2>2. GapSum(C) = SumFunctionOnSet(F, Later(C))
        BY <2>1 DEF GapSum, SumFunction
    <2> HIDE DEF F
    <2> QED BY <1>0, <1>7, <2>1, <2>2, SumOfEqual
<1>10. SquareSum(C) = K * (pace * pace)
    <2> DEFINE square == pace * pace
    <2>1. DOMAIN Q = Later(C) /\ \A c \in Later(C) : Q[c] = square
        BY <1>8
    <2>2. SquareSum(C) = SumFunctionOnSet(Q, Later(C))
        BY <2>1 DEF SquareSum, SumFunction
    <2>3. square \in Nat
        BY <1>0
    <2> HIDE DEF Q, square
    <2>4. SquareSum(C) = K * square
        BY <1>7, <2>1, <2>2, <2>3, SumOfEqual
    <2> QED BY <2>4 DEF square
<1>11. /\ K * MinInterval <= K * pace /\ K * pace <= K * MaxInterval /\ K * pace > 0
       /\ K * (K * (pace * pace)) - (K * pace) * (K * pace) = 0
    <2>1. K * MinInterval <= K * pace /\ K * pace <= K * MaxInterval
        BY <1>0
    <2>2. K * pace > 0
        BY <1>0
    <2>3. K * (K * (pace * pace)) = (K * pace) * (K * pace) /\ K * (K * (pace * pace)) \in Nat
        BY <1>0
    <2> QED BY <2>1, <2>2, <2>3
<1>12. 10000 * (K * SquareSum(C) - GapSum(C) * GapSum(C)) <= MaxJitter * MaxJitter * GapSum(C) * GapSum(C)
    <2>1. K * SquareSum(C) - GapSum(C) * GapSum(C) = 0
        BY <1>9, <1>10, <1>11
    <2>2. GapSum(C) \in Nat
        BY <1>0, <1>9
    <2>3. MaxJitter * MaxJitter * GapSum(C) * GapSum(C) \in Nat
        BY <1>0, <2>2
    <2> QED BY <2>1, <2>3
<1>13. Cardinality(C) - 1 = K
    BY <1>5
<1> QED BY <1>9, <1>11, <1>12, <1>13 DEF Steady, C

-----------------------------------------------------------------------------

\* What is promised of a packet at t, given the packets P and the alerts B of its pair.
Flagged(P, B, t) ==
    LET W == {c \in P : t - BeaconWindow <= c /\ c <= t}
    IN  (\E pace \in {q \in MinInterval .. MaxInterval : q > Second} :
            /\ Beacon(W, pace)
            /\ (t - Min(W)) \div pace + 1 >= MinContacts
            /\ ~\E c \in P : Min(W) - Second < c /\ c < Min(W))
        => \E s \in B : s = t \/ (t - BeaconRest < s /\ s <= t)

LEMMA PeriodicIsFlaggedEach ==
    PeriodicIsFlagged <=> \A p \in Pairs : \A t \in packets[p] : Flagged(packets[p], beacons[p], t)
BY DEF PeriodicIsFlagged, Flagged

\* Later packets and alerts change nothing for an earlier packet.
LEMMA FlaggedStays ==
    ASSUME NEW now \in Nat, NEW P \in SUBSET (0 .. now), NEW t \in P, NEW B, NEW A,
           Flagged(P, B, t), B \subseteq A
    PROVE  Flagged(P \cup {now}, A, t)
<1> DEFINE W == {c \in P : t - BeaconWindow <= c /\ c <= t}
<1>0. BeaconWindow \in Nat /\ Second \in Nat \ {0}
    BY ContactAssumption
<1>1. {c \in P \cup {now} : t - BeaconWindow <= c /\ c <= t} = W
    BY <1>0
<1>2. Min(W) \in W /\ Min(W) <= t /\ Min(W) \in Nat
    <2>1. W \in SUBSET Nat /\ t \in W
        <3>1. t \in Nat /\ t - BeaconWindow <= t /\ t <= t /\ P \subseteq Nat
            BY <1>0
        <3> QED BY <3>1
    <2> HIDE DEF W
    <2> QED BY <2>1, MinIsLeast
<1> HIDE DEF W
<1>3. (\E c \in P : Min(W) - Second < c /\ c < Min(W))
          => \E c \in P \cup {now} : Min(W) - Second < c /\ c < Min(W)
    OBVIOUS
<1> QED BY <1>1, <1>3 DEF Flagged, W

\* The window of a beacon's packet is that of EndsBeacon.
LEMMA WindowEndsBeacon ==
    ASSUME NEW t \in Nat, NEW P \in SUBSET (0 .. t), NEW W, W = {c \in P \cup {t} : t - BeaconWindow <= c /\ c <= t},
           NEW pace \in MinInterval .. MaxInterval, pace > Second, Beacon(W, pace),
           ~\E c \in P \cup {t} : Min(W) - Second < c /\ c < Min(W)
    PROVE  EndsBeacon(P, t, W, Min(W), pace)
<1>0. BeaconWindow \in Nat /\ Second \in Nat \ {0}
    BY ContactAssumption
<1>1. W \in SUBSET (0 .. t) /\ W \in SUBSET Nat /\ t \in W
    <2>1. t \in 0 .. t /\ t - BeaconWindow <= t /\ t <= t /\ 0 .. t \subseteq Nat
        BY <1>0
    <2> QED BY <2>1
<1>2. Min(W) \in W /\ \A c \in W : Min(W) <= c
    BY <1>1, MinIsLeast
<1>3. Max(W) = t
    <2>1. Max(W) \in W /\ \A c \in W : c <= Max(W)
        BY <1>1, MaxIsGreatest
    <2> QED BY <1>1, <2>1
<1>4. W = {c \in P \cup {t} : t - BeaconWindow <= c}
    <2>1. \A c \in P \cup {t} : c <= t
        BY <1>0
    <2> QED BY <2>1
<1> QED BY <1>1, <1>2, <1>3, <1>4 DEF EndsBeacon, Beacon

LEMMA PacketStep ==
    ASSUME BeaconInv, NEW p \in Pairs, ProcessBeacon(p)
    PROVE  BeaconInv'
<1> DEFINE t == instant
           P == packets[p]
           C == contacts[p]
           D == WithinBeaconWindow(C \cup {t})
<1>0. /\ t \in Nat /\ P \in SUBSET (0 .. t) /\ C \in SUBSET P /\ Apart(C)
      /\ Explained(C, P, t - BeaconWindow) /\ beaconed[p] \subseteq beacons[p] /\ beacons[p] \in SUBSET (0 .. t)
      /\ BeaconWindow \in Nat /\ Second \in Nat \ {0} /\ C \in SUBSET (0 .. t)
    BY ContactAssumption DEF BeaconInv
<1>1. /\ packets' = [packets EXCEPT ![p] = P \cup {t}] /\ instant' = instant
      /\ \/ Folded(C) /\ contacts' = contacts /\ beaconed' = beaconed /\ beacons' = beacons
         \/ /\ ~Folded(C) /\ contacts' = [contacts EXCEPT ![p] = D]
            /\ \/ /\ Steady(D) /\ ~Rests(beaconed[p], BeaconRest)
                  /\ beaconed' = [beaconed EXCEPT ![p] = {t}]
                  /\ beacons' = [beacons EXCEPT ![p] = @ \cup {t}]
               \/ /\ ~(Steady(D) /\ ~Rests(beaconed[p], BeaconRest))
                  /\ beaconed' = beaconed /\ beacons' = beacons
    BY DEF ProcessBeacon
<1>2. Folded(C) => \E c \in C : t - c < Second /\ \A d \in C : d <= c
    <2> SUFFICES ASSUME Folded(C) PROVE \E c \in C : t - c < Second /\ \A d \in C : d <= c
        OBVIOUS
    <2>1. Max(C) \in C /\ \A d \in C : d <= Max(C)
        BY <1>0, MaxIsGreatest DEF Folded
    <2> QED BY <2>1 DEF Folded
<1>3. ~Folded(C) => \A c \in C : t - c >= Second
    <2> SUFFICES ASSUME ~Folded(C), NEW c \in C PROVE t - c >= Second
        OBVIOUS
    <2>1. Max(C) \in C /\ c <= Max(C)
        BY <1>0, MaxIsGreatest
    <2> QED BY <1>0, <2>1 DEF Folded
<1>4. D \subseteq P \cup {t} /\ t \in D /\ D = {c \in C \cup {t} : c >= t - BeaconWindow}
    BY <1>0 DEF WithinBeaconWindow
<1>5. ~Folded(C) => Apart(D)
    <2> SUFFICES ASSUME ~Folded(C), NEW c \in D, NEW d \in D, c < d PROVE d - c >= Second
        BY DEF Apart
    <2>1. c \in C \cup {t} /\ d \in C \cup {t}
        BY <1>4
    <2>2. c \in C
        BY <1>0, <2>1
    <2> QED BY <1>0, <1>3, <2>1, <2>2 DEF Apart
<1> HIDE DEF D
<1>6. Apart(contacts'[p]) /\ contacts'[p] \subseteq P \cup {t}
    BY <1>0, <1>1, <1>4, <1>5 DEF BeaconInv
<1>7. Explained(contacts'[p], P \cup {t}, t - BeaconWindow)
    <2> SUFFICES ASSUME NEW x \in P \cup {t}, x >= t - BeaconWindow
                 PROVE  \/ x \in contacts'[p]
                        \/ \E c \in contacts'[p] : x - Second < c /\ c < x
                        \/ \E c \in P \cup {t} : c < t - BeaconWindow /\ x - Second < c /\ c < x
        BY DEF Explained
    <2>1. CASE Folded(C)
        <3>1. contacts'[p] = C
            BY <1>1, <2>1
        <3>2. CASE x \in P
            BY <1>0, <3>1, <3>2 DEF Explained
        <3>3. CASE x = t
            BY <1>0, <1>2, <2>1, <3>1, <3>3
        <3> QED BY <3>2, <3>3
    <2>2. CASE ~Folded(C)
        <3>1. contacts'[p] = D
            BY <1>1, <2>2 DEF BeaconInv
        <3>2. CASE x \in P
            <4>1. \/ x \in C
                  \/ \E c \in C : x - Second < c /\ c < x
                  \/ \E c \in P : c < t - BeaconWindow /\ x - Second < c /\ c < x
                BY <1>0, <3>2 DEF Explained
            <4>2. \A c \in C : c \in D \/ (c \in P /\ c < t - BeaconWindow)
                BY <1>0, <1>4
            <4>3. x \in C => x \in D
                BY <1>4
            <4> QED BY <3>1, <4>1, <4>2, <4>3
        <3>3. CASE x = t
            BY <1>4, <3>1, <3>3
        <3> QED BY <3>2, <3>3
    <2> QED BY <2>1, <2>2
<1>8. beacons[p] \subseteq beacons'[p] /\ beacons'[p] \subseteq 0 .. t
      /\ beaconed'[p] \subseteq beacons'[p] /\ beaconed'[p] \subseteq 0 .. t
    BY <1>0, <1>1 DEF BeaconInv
<1>9. Flagged(P \cup {t}, beacons'[p], t)
    <2>1. CASE t \in P
        <3>1. Flagged(P, beacons[p], t)
            BY <2>1, PeriodicIsFlaggedEach DEF BeaconInv
        <3> QED BY <1>0, <1>8, <2>1, <3>1, FlaggedStays
    <2>2. CASE t \notin P
        <3> DEFINE W == {c \in P \cup {t} : t - BeaconWindow <= c /\ c <= t}
        <3> SUFFICES ASSUME NEW pace \in MinInterval .. MaxInterval, pace > Second, Beacon(W, pace),
                            (t - Min(W)) \div pace + 1 >= MinContacts,
                            ~\E c \in P \cup {t} : Min(W) - Second < c /\ c < Min(W)
                     PROVE  \E s \in beacons'[p] : s = t \/ (t - BeaconRest < s /\ s <= t)
            BY DEF Flagged
        <3> DEFINE m == Min(W)
        <3>1. EndsBeacon(P, t, W, m, pace)
            BY <1>0, WindowEndsBeacon
        <3>2. m \in Nat /\ m <= t /\ pace \in Nat \ {0}
            BY <1>0, <3>1, ContactAssumption DEF EndsBeacon
        <3> HIDE DEF m, W
        <3>3. /\ \A c \in C : c < t - BeaconWindow \/ t - c >= pace
              /\ {c \in C \cup {t} : c >= t - BeaconWindow} = Beats(m, pace, (t - m) \div pace)
              /\ \A c \in C : c < t - BeaconWindow => t - c >= Second
            BY <1>0, <2>2, <3>1, ContactsAreBeats
        <3>4. ~Folded(C)
            BY <1>0, <1>2, <3>2, <3>3
        <3>5. Steady(D)
            <4> DEFINE a == t - m
            <4>1. a \in Nat
                BY <1>0, <3>2
            <4> HIDE DEF a
            <4>2. a \div pace \in Nat
                BY <3>2, <4>1, Division
            <4>3. (t - m) \div pace + 1 >= MinContacts
                BY DEF m
            <4>4. Steady(Beats(m, pace, a \div pace))
                BY <3>2, <4>2, <4>3, BeatsAreSteady DEF a
            <4> QED BY <1>4, <3>3, <4>4 DEF a
        <3>6. CASE Rests(beaconed[p], BeaconRest)
            <4>1. PICK s \in beaconed[p] : t - s < BeaconRest
                BY <3>6 DEF Rests
            <4>2. s \in beacons'[p] /\ s \in 0 .. t
                BY <1>0, <1>8
            <4>3. t - BeaconRest < s /\ s <= t
                BY <1>0, <4>1, <4>2, ContactAssumption
            <4> QED BY <4>2, <4>3
        <3>7. CASE ~Rests(beaconed[p], BeaconRest)
            <4>1. beacons' = [beacons EXCEPT ![p] = @ \cup {t}]
                BY <1>1, <3>4, <3>5, <3>7
            <4>2. t \in beacons'[p]
                BY <4>1 DEF BeaconInv
            <4> QED BY <4>2
        <3> QED BY <3>6, <3>7
    <2> QED BY <2>1, <2>2
<1>10. \A s \in P \cup {t} : Flagged(P \cup {t}, beacons'[p], s)
    <2>1. \A s \in P : Flagged(P, beacons[p], s)
        BY PeriodicIsFlaggedEach DEF BeaconInv
    <2>2. ASSUME NEW s \in P PROVE Flagged(P \cup {t}, beacons'[p], s)
        <3>1. Flagged(P, beacons[p], s)
            BY <2>1
        <3> HIDE DEF P, t
        <3> QED BY <1>0, <1>8, <3>1, FlaggedStays
    <2> QED BY <1>9, <2>2
<1>11. /\ packets' \in [Pairs -> SUBSET (0 .. t)] /\ contacts' \in [Pairs -> SUBSET (0 .. t)]
       /\ beacons' \in [Pairs -> SUBSET (0 .. t)] /\ beaconed' \in [Pairs -> SUBSET (0 .. t)]
    <2>1. packets' \in [Pairs -> SUBSET (0 .. t)]
        BY <1>0, <1>1 DEF BeaconInv
    <2>2. contacts' \in [Pairs -> SUBSET (0 .. t)]
        <3>1. D \subseteq 0 .. t
            BY <1>0, <1>4
        <3> QED BY <1>1, <3>1 DEF BeaconInv
    <2>3. t \in 0 .. t
        BY <1>0
    <2>4. beacons' \in [Pairs -> SUBSET (0 .. t)]
        BY <1>0, <1>1, <2>3 DEF BeaconInv
    <2>5. beaconed' \in [Pairs -> SUBSET (0 .. t)]
        BY <1>0, <1>1, <2>3 DEF BeaconInv
    <2> QED BY <2>1, <2>2, <2>4, <2>5
<1>12. packets'[p] = P \cup {t}
    BY <1>1 DEF BeaconInv
<1>13. ASSUME NEW q \in Pairs, q # p
       PROVE  /\ packets'[q] = packets[q] /\ contacts'[q] = contacts[q]
              /\ beacons'[q] = beacons[q] /\ beaconed'[q] = beaconed[q]
    BY <1>1, <1>13 DEF BeaconInv
<1>14. \A q \in Pairs : /\ contacts'[q] \subseteq packets'[q] /\ beaconed'[q] \subseteq beacons'[q]
                        /\ Apart(contacts'[q])
                        /\ Explained(contacts'[q], packets'[q], instant - BeaconWindow)
    <2> TAKE q \in Pairs
    <2>1. CASE q = p
        BY <1>6, <1>7, <1>8, <1>12, <2>1
    <2>2. CASE q # p
        BY <1>13, <2>2 DEF BeaconInv
    <2> QED BY <2>1, <2>2
<1>15. \A q \in Pairs : \A s \in packets'[q] : Flagged(packets'[q], beacons'[q], s)
    <2> TAKE q \in Pairs
    <2>1. CASE q = p
        BY <1>10, <1>12, <2>1
    <2>2. CASE q # p
        BY <1>13, <2>2, PeriodicIsFlaggedEach DEF BeaconInv
    <2> QED BY <2>1, <2>2
<1>16. PeriodicIsFlagged'
    BY <1>15, PeriodicIsFlaggedEach DEF PeriodicIsFlagged, Flagged
<1> QED BY <1>0, <1>1, <1>11, <1>14, <1>16 DEF BeaconInv, Apart, Explained

LEMMA FlushStep ==
    ASSUME BeaconInv, FlushBeacons
    PROVE  BeaconInv'
<1>0. instant \in Nat /\ BeaconWindow \in Nat /\ packets' = packets /\ beacons' = beacons /\ instant' = instant
    BY ContactAssumption DEF BeaconInv, FlushBeacons
<1>1. /\ contacts' \in [Pairs -> SUBSET (0 .. instant)] /\ beaconed' \in [Pairs -> SUBSET (0 .. instant)]
      /\ \A p \in Pairs : /\ contacts'[p] = {c \in contacts[p] : c >= instant - BeaconWindow}
                          /\ beaconed'[p] \subseteq beaconed[p]
    BY DEF BeaconInv, FlushBeacons, WithinBeaconWindow
<1>2. ASSUME NEW p \in Pairs
      PROVE  /\ contacts'[p] \subseteq packets[p] /\ beaconed'[p] \subseteq beacons[p]
             /\ Apart(contacts'[p])
             /\ Explained(contacts'[p], packets[p], instant - BeaconWindow)
    <2>1. /\ contacts[p] \subseteq packets[p] /\ beaconed[p] \subseteq beacons[p]
          /\ Apart(contacts[p]) /\ Explained(contacts[p], packets[p], instant - BeaconWindow)
          /\ packets[p] \subseteq 0 .. instant
        BY DEF BeaconInv
    <2>2. \A c \in contacts[p] : c \in contacts'[p] \/ (c \in packets[p] /\ c < instant - BeaconWindow)
        BY <1>0, <1>1, <2>1
    <2>3. Explained(contacts'[p], packets[p], instant - BeaconWindow)
        <3> SUFFICES ASSUME NEW x \in packets[p], x >= instant - BeaconWindow
                     PROVE  \/ x \in contacts'[p]
                            \/ \E c \in contacts'[p] : x - Second < c /\ c < x
                            \/ \E c \in packets[p] : c < instant - BeaconWindow /\ x - Second < c /\ c < x
            BY DEF Explained
        <3>1. \/ x \in contacts[p]
              \/ \E c \in contacts[p] : x - Second < c /\ c < x
              \/ \E c \in packets[p] : c < instant - BeaconWindow /\ x - Second < c /\ c < x
            BY <2>1 DEF Explained
        <3>2. x \in contacts[p] => x \in contacts'[p]
            BY <1>1
        <3> QED BY <2>2, <3>1, <3>2
    <2> QED BY <1>1, <2>1, <2>3 DEF Apart
<1>3. PeriodicIsFlagged'
    BY <1>0, PeriodicIsFlaggedEach DEF BeaconInv, PeriodicIsFlagged
<1> QED BY <1>0, <1>1, <1>2, <1>3 DEF BeaconInv, Apart, Explained

LEMMA TimeStep ==
    ASSUME BeaconInv, InstantPasses
    PROVE  BeaconInv'
<1>0. instant \in Nat /\ instant' = instant + 1 /\ UNCHANGED beaconVars /\ BeaconWindow \in Nat
    BY ContactAssumption DEF BeaconInv, InstantPasses
<1>1. 0 .. instant \subseteq 0 .. instant'
    BY <1>0
<1>2. ASSUME NEW p \in Pairs
      PROVE  Explained(contacts[p], packets[p], instant' - BeaconWindow)
    <2>1. packets[p] \subseteq 0 .. instant /\ Explained(contacts[p], packets[p], instant - BeaconWindow)
        BY DEF BeaconInv
    <2>2. \A x \in packets[p] : /\ x >= instant' - BeaconWindow => x >= instant - BeaconWindow
                                /\ x < instant - BeaconWindow => x < instant' - BeaconWindow
        BY <1>0, <2>1
    <2> QED BY <2>1, <2>2 DEF Explained
<1>3. PeriodicIsFlagged'
    BY <1>0 DEF BeaconInv, PeriodicIsFlagged, beaconVars
<1>4. /\ packets \in [Pairs -> SUBSET (0 .. instant')] /\ contacts \in [Pairs -> SUBSET (0 .. instant')]
      /\ beacons \in [Pairs -> SUBSET (0 .. instant')] /\ beaconed \in [Pairs -> SUBSET (0 .. instant')]
    BY <1>1 DEF BeaconInv
<1>5. instant' \in Nat
    BY <1>0
<1> QED BY <1>0, <1>2, <1>3, <1>4, <1>5 DEF BeaconInv, beaconVars, Apart, Explained

LEMMA BeaconUnchanged ==
    ASSUME BeaconInv, UNCHANGED <<instant, beaconVars>>
    PROVE  BeaconInv'
BY DEF BeaconInv, beaconVars, Apart, Explained, PeriodicIsFlagged

\* detector/beaconing.py: contacts stay a second apart, every packet of the window is
\* one or follows one, and what is due is reported, through folding and trimming.
THEOREM BeaconHolds == ContactSpec => []BeaconInv
<1>1. ContactInit => BeaconInv
    <2> SUFFICES ASSUME ContactInit PROVE BeaconInv
        OBVIOUS
    <2>1. instant = 0 /\ \A p \in Pairs : /\ packets[p] = {} /\ contacts[p] = {} /\ beaconed[p] = {} /\ beacons[p] = {}
        BY DEF ContactInit
    <2>2. PeriodicIsFlagged
        BY <2>1, PeriodicIsFlaggedEach
    <2> QED BY <2>1, <2>2 DEF ContactInit, BeaconInv, Apart, Explained
<1>2. BeaconInv /\ [ContactNext]_contactVars => BeaconInv'
    <2> SUFFICES ASSUME BeaconInv, [ContactNext]_contactVars PROVE BeaconInv'
        OBVIOUS
    <2>1. CASE BeaconNext
        BY <2>1, PacketStep, FlushStep DEF BeaconNext
    <2>2. CASE NewIpNext
        BY <2>2, BeaconUnchanged DEF NewIpNext, ProcessNewIp
    <2>3. CASE InstantPasses
        BY <2>3, TimeStep
    <2>4. CASE RefreshFails \/ UNCHANGED contactVars
        BY <2>4, BeaconUnchanged DEF RefreshFails, contactVars
    <2>5. CASE \E l \in Lists : ListNext(l)
        BY <2>5, BeaconUnchanged DEF ListNext, Refresh, ProcessList, FlushLists
    <2> QED BY <2>1, <2>2, <2>3, <2>4, <2>5 DEF ContactNext
<1> QED BY <1>1, <1>2, PTL DEF ContactSpec

\* detector/beaconing.py, new_ip.py and base.py together: no beacon of bursts is
\* lost to folding, trimming and flushing, no address is announced twice, and what
\* is listed is told, for any packets, lists, limits and order of steps.
THEOREM ContactsReported == ContactSpec => []ContactsAreReported
<1>1. BeaconInv => PeriodicIsFlagged
    BY DEF BeaconInv
<1> QED BY <1>1, BeaconHolds, NewReportedOnce, ListedReported, PTL DEF ContactsAreReported

-----------------------------------------------------------------------------
(* The analysis of a capture.                                               *)

(* The pairing of one protocol, in the abstract: A are the places of the       *)
(* questions, B those of the answers, key gives every place its key.           *)
Belong(A, B, key, i, j) ==
    /\ i < j /\ i \in A /\ j \in B
    /\ key[i] = key[j]
    /\ \A m \in i + 1 .. j - 1 : ~(m \in A \cup B /\ key[m] = key[i])

Couples(A, B, key, n) == {p \in (1 .. n) \X (1 .. n) : Belong(A, B, key, p[1], p[2])}

\* The question at i is still open after n frames.
Open(A, B, key, n, i) ==
    /\ i \in 1 .. n /\ i \in A
    /\ \A m \in i + 1 .. n : ~(m \in A \cup B /\ key[m] = key[i])

Tracks(queue, A, B, key, n) ==
    /\ \A k \in DOMAIN queue : Open(A, B, key, n, queue[k]) /\ key[queue[k]] = k
    /\ \A i \in 1 .. n : Open(A, B, key, n, i) => key[i] \in DOMAIN queue /\ queue[key[i]] = i

\* One more frame, at place n + 1.
Grows(A, B, key, A1, B1, key1, n) ==
    \A i \in 1 .. n : (i \in A <=> i \in A1) /\ (i \in B <=> i \in B1) /\ key1[i] = key[i]

LEMMA OpenEarlier ==
    ASSUME NEW A, NEW B, NEW key, NEW A1, NEW B1, NEW key1, NEW n \in Nat,
           Grows(A, B, key, A1, B1, key1, n), NEW i \in 1 .. n
    PROVE  Open(A1, B1, key1, n + 1, i) <=>
               Open(A, B, key, n, i) /\ ~(n + 1 \in A1 \cup B1 /\ key1[n + 1] = key[i])
<1>1. \A m \in i + 1 .. n : m \in 1 .. n
    OBVIOUS
<1>2. (i + 1) .. (n + 1) = ((i + 1) .. n) \cup {n + 1}
    OBVIOUS
<1> QED BY <1>1, <1>2 DEF Open, Grows

LEMMA PairsGrow ==
    ASSUME NEW A, NEW B, NEW key, NEW A1, NEW B1, NEW key1, NEW n \in Nat,
           Grows(A, B, key, A1, B1, key1, n)
    PROVE  Couples(A1, B1, key1, n + 1) =
               Couples(A, B, key, n) \cup
               {<<i, n + 1>> : i \in {x \in 1 .. n : /\ Open(A, B, key, n, x) /\ n + 1 \in B1
                                                     /\ key[x] = key1[n + 1]}}
<1> DEFINE New == {<<i, n + 1>> : i \in {x \in 1 .. n : /\ Open(A, B, key, n, x) /\ n + 1 \in B1
                                                         /\ key[x] = key1[n + 1]}}
<1>1. ASSUME NEW i \in 1 .. n, NEW j \in 1 .. n
      PROVE  <<i, j>> \in Couples(A1, B1, key1, n + 1) <=> <<i, j>> \in Couples(A, B, key, n)
    <2>1. \A m \in i + 1 .. j - 1 : m \in 1 .. n
        OBVIOUS
    <2> QED BY <2>1 DEF Couples, Belong, Grows
<1>2. ASSUME NEW i \in 1 .. n
      PROVE  <<i, n + 1>> \in Couples(A1, B1, key1, n + 1) <=>
                 Open(A, B, key, n, i) /\ n + 1 \in B1 /\ key[i] = key1[n + 1]
    <2>1. i + 1 .. (n + 1) - 1 = i + 1 .. n /\ \A m \in i + 1 .. n : m \in 1 .. n
        OBVIOUS
    <2> QED BY <2>1 DEF Couples, Belong, Open, Grows
<1>3. ASSUME NEW p \in Couples(A1, B1, key1, n + 1)
      PROVE  p \in Couples(A, B, key, n) \cup New
    <2>1. PICK i \in 1 .. n + 1, j \in 1 .. n + 1 : p = <<i, j>> /\ i < j
        BY DEF Couples, Belong
    <2>2. CASE j \in 1 .. n
        BY <1>1, <2>1, <2>2
    <2>3. CASE j = n + 1
        BY <1>2, <2>1, <2>3
    <2> QED BY <2>1, <2>2, <2>3
<1>4. ASSUME NEW p \in Couples(A, B, key, n)
      PROVE  p \in Couples(A1, B1, key1, n + 1)
    <2>1. PICK i \in 1 .. n, j \in 1 .. n : p = <<i, j>>
        BY DEF Couples
    <2> QED BY <1>1, <2>1
<1>5. ASSUME NEW p \in New
      PROVE  p \in Couples(A1, B1, key1, n + 1)
    BY <1>2
<1> HIDE DEF New
<1>6. Couples(A1, B1, key1, n + 1) = Couples(A, B, key, n) \cup New
    BY <1>3, <1>4, <1>5
<1> QED BY <1>6 DEF New

\* A question is entered over an older one of its key.
LEMMA AskTracks ==
    ASSUME NEW A, NEW B, NEW key, NEW A1, NEW B1, NEW key1, NEW n \in Nat,
           Grows(A, B, key, A1, B1, key1, n), NEW queue,
           Tracks(queue, A, B, key, n), n + 1 \in A1, n + 1 \notin B1
    PROVE  /\ Tracks(Ask(queue, key1[n + 1], n + 1), A1, B1, key1, n + 1)
           /\ Couples(A1, B1, key1, n + 1) = Couples(A, B, key, n)
<1> DEFINE q == Ask(queue, key1[n + 1], n + 1)
<1>1. /\ DOMAIN q = DOMAIN queue \cup {key1[n + 1]} /\ q[key1[n + 1]] = n + 1
      /\ \A k \in DOMAIN queue : k # key1[n + 1] => q[k] = queue[k]
    BY DEF Ask, Entered
<1> HIDE DEF q
<1>2. Open(A1, B1, key1, n + 1, n + 1)
    BY DEF Open
<1>3. \A i \in 1 .. n : Open(A1, B1, key1, n + 1, i) <=> Open(A, B, key, n, i) /\ key1[n + 1] # key[i]
    BY OpenEarlier
<1>4. \A i \in 1 .. n : key1[i] = key[i]
    BY DEF Grows
<1>5. ASSUME NEW k \in DOMAIN q
      PROVE  Open(A1, B1, key1, n + 1, q[k]) /\ key1[q[k]] = k
    <2>1. CASE k = key1[n + 1]
        BY <1>1, <1>2, <2>1
    <2>2. CASE k # key1[n + 1]
        <3>1. k \in DOMAIN queue /\ q[k] = queue[k]
            BY <1>1, <2>2
        <3>2. Open(A, B, key, n, queue[k]) /\ key[queue[k]] = k
            BY <3>1 DEF Tracks
        <3>3. queue[k] \in 1 .. n
            BY <3>2 DEF Open
        <3> QED BY <1>3, <1>4, <2>2, <3>1, <3>2, <3>3
    <2> QED BY <2>1, <2>2
<1>6. ASSUME NEW i \in 1 .. n + 1, Open(A1, B1, key1, n + 1, i)
      PROVE  key1[i] \in DOMAIN q /\ q[key1[i]] = i
    <2>1. CASE i = n + 1
        BY <1>1, <2>1
    <2>2. CASE i \in 1 .. n
        <3>1. Open(A, B, key, n, i) /\ key1[n + 1] # key[i]
            BY <1>3, <1>6, <2>2
        <3> QED BY <1>1, <1>4, <2>2, <3>1 DEF Tracks
    <2> QED BY <2>1, <2>2
<1>7. Tracks(q, A1, B1, key1, n + 1)
    BY <1>5, <1>6 DEF Tracks
<1>8. Couples(A1, B1, key1, n + 1) = Couples(A, B, key, n)
    <2>1. {<<i, n + 1>> : i \in {x \in 1 .. n : /\ Open(A, B, key, n, x) /\ n + 1 \in B1
                                               /\ key[x] = key1[n + 1]}} = {}
        OBVIOUS
    <2> QED BY <2>1, PairsGrow
<1> QED BY <1>7, <1>8 DEF q

\* An answer takes the question of its key out, and makes a pair with it.
LEMMA AnswerTracks ==
    ASSUME NEW A, NEW B, NEW key, NEW A1, NEW B1, NEW key1, NEW n \in Nat,
           Grows(A, B, key, A1, B1, key1, n), NEW queue,
           Tracks(queue, A, B, key, n), n + 1 \in B1, n + 1 \notin A1
    PROVE  /\ Tracks(Popped(queue, key1[n + 1]), A1, B1, key1, n + 1)
           /\ Couples(A1, B1, key1, n + 1) =
                  Couples(A, B, key, n) \cup Paired(queue, key1[n + 1], n + 1)
<1> DEFINE q == Popped(queue, key1[n + 1])
<1>1. /\ DOMAIN q = DOMAIN queue \ {key1[n + 1]}
      /\ \A k \in DOMAIN queue : k # key1[n + 1] => q[k] = queue[k]
    BY DEF Popped
<1> HIDE DEF q
<1>2. ~Open(A1, B1, key1, n + 1, n + 1)
    BY DEF Open
<1>3. \A i \in 1 .. n : Open(A1, B1, key1, n + 1, i) <=> Open(A, B, key, n, i) /\ key1[n + 1] # key[i]
    BY OpenEarlier
<1>4. \A i \in 1 .. n : key1[i] = key[i]
    BY DEF Grows
<1>5. ASSUME NEW k \in DOMAIN q
      PROVE  Open(A1, B1, key1, n + 1, q[k]) /\ key1[q[k]] = k
    <2>1. k \in DOMAIN queue /\ q[k] = queue[k] /\ k # key1[n + 1]
        BY <1>1
    <2>2. Open(A, B, key, n, queue[k]) /\ key[queue[k]] = k
        BY <2>1 DEF Tracks
    <2>3. queue[k] \in 1 .. n
        BY <2>2 DEF Open
    <2> QED BY <1>3, <1>4, <2>1, <2>2, <2>3
<1>6. ASSUME NEW i \in 1 .. n + 1, Open(A1, B1, key1, n + 1, i)
      PROVE  key1[i] \in DOMAIN q /\ q[key1[i]] = i
    <2>1. i \in 1 .. n
        BY <1>2, <1>6
    <2>2. Open(A, B, key, n, i) /\ key1[n + 1] # key[i]
        BY <1>3, <1>6, <2>1
    <2> QED BY <1>1, <1>4, <2>1, <2>2 DEF Tracks
<1>7. Tracks(q, A1, B1, key1, n + 1)
    BY <1>5, <1>6 DEF Tracks
<1> DEFINE New == {<<i, n + 1>> : i \in {x \in 1 .. n : /\ Open(A, B, key, n, x) /\ n + 1 \in B1
                                                         /\ key[x] = key1[n + 1]}}
<1>8. New = Paired(queue, key1[n + 1], n + 1)
    <2>1. ASSUME key1[n + 1] \in DOMAIN queue
          PROVE  {x \in 1 .. n : /\ Open(A, B, key, n, x) /\ n + 1 \in B1
                                 /\ key[x] = key1[n + 1]} = {queue[key1[n + 1]]}
        BY <2>1 DEF Tracks, Open
    <2>2. ASSUME key1[n + 1] \notin DOMAIN queue
          PROVE  {x \in 1 .. n : /\ Open(A, B, key, n, x) /\ n + 1 \in B1
                                 /\ key[x] = key1[n + 1]} = {}
        BY <2>2 DEF Tracks
    <2> QED BY <2>1, <2>2 DEF Paired
<1>9. Couples(A1, B1, key1, n + 1) = Couples(A, B, key, n) \cup New
    BY PairsGrow
<1> HIDE DEF New
<1> QED BY <1>7, <1>8, <1>9 DEF q

\* Other frames make no difference.
LEMMA OtherTracks ==
    ASSUME NEW A, NEW B, NEW key, NEW A1, NEW B1, NEW key1, NEW n \in Nat,
           Grows(A, B, key, A1, B1, key1, n), NEW queue,
           Tracks(queue, A, B, key, n), n + 1 \notin A1 \cup B1
    PROVE  /\ Tracks(queue, A1, B1, key1, n + 1)
           /\ Couples(A1, B1, key1, n + 1) = Couples(A, B, key, n)
<1>1. ~Open(A1, B1, key1, n + 1, n + 1)
    BY DEF Open
<1>2. \A i \in 1 .. n : Open(A1, B1, key1, n + 1, i) <=> Open(A, B, key, n, i)
    BY OpenEarlier
<1>3. \A i \in 1 .. n : key1[i] = key[i]
    BY DEF Grows
<1>4. \A k \in DOMAIN queue : queue[k] \in 1 .. n
    BY DEF Tracks, Open
<1>5. Tracks(queue, A1, B1, key1, n + 1)
    <2>1. \A k \in DOMAIN queue : Open(A1, B1, key1, n + 1, queue[k]) /\ key1[queue[k]] = k
        BY <1>2, <1>3, <1>4 DEF Tracks
    <2>2. \A i \in 1 .. n + 1 : Open(A1, B1, key1, n + 1, i) => i \in 1 .. n
        BY <1>1
    <2>3. \A i \in 1 .. n + 1 : Open(A1, B1, key1, n + 1, i) =>
              key1[i] \in DOMAIN queue /\ queue[key1[i]] = i
        BY <1>2, <1>3, <2>2 DEF Tracks
    <2> QED BY <2>1, <2>3 DEF Tracks
<1>6. Couples(A1, B1, key1, n + 1) = Couples(A, B, key, n)
    BY PairsGrow
<1> QED BY <1>5, <1>6

-----------------------------------------------------------------------------

(* The places that question q got to: of one kind and readable, and their keys. *)
ReadBy(q, kind) == {i \in 1 .. heard[q] : frames[i].plain /\ frames[i].kind = kind}
KeysOf(q)       == [i \in 1 .. heard[q] |-> Key(q, frames[i])]

HeardInv ==
    /\ frames \in Seq(Frames) /\ asking \subseteq Questions
    /\ heard \in [Questions -> Nat]
    /\ \A q \in Questions : heard[q] <= Len(frames)
    /\ \A q \in asking : heard[q] = Len(frames)

PairInv(q) ==
    /\ results[q] = Couples(ReadBy(q, Asks(q)), ReadBy(q, Answers(q)), KeysOf(q), heard[q])
    /\ Tracks(pending[q], ReadBy(q, Asks(q)), ReadBy(q, Answers(q)), KeysOf(q), heard[q])

AddressInv ==
    /\ DOMAIN ip_pkt_count = {a \in Ipv4 : SentBy(a) # {}}
    /\ \A a \in DOMAIN ip_pkt_count : ip_pkt_count[a] = Cardinality(SentBy(a))
    /\ \A a \in DOMAIN ip_to_mac :
         \E i \in SentBy(a) : /\ ip_to_mac[a] = frames[i].mac /\ ip_to_mac[a] # ""
                              /\ \A j \in SentBy(a) : j < i => frames[j].mac = ""
    /\ \A a \in Ipv4 \ DOMAIN ip_to_mac : \A i \in SentBy(a) : frames[i].mac = ""

PortsSeen == {i \in 1 .. heard["ports"] : frames[i].kind = "syn_ack"}
PortInv   == open_ports = {<<Printed(frames[i].src), frames[i].tag>> : i \in PortsSeen}

PcapInv == HeardInv /\ (\A q \in Pairings : PairInv(q)) /\ AddressInv /\ PortInv

LEMMA CaptureGrows ==
    ASSUME HeardInv, NEW f \in Frames, ReadFrame(f)
    PROVE  /\ Len(frames) \in Nat /\ Len(frames') = Len(frames) + 1
           /\ frames'[Len(frames) + 1] = f
           /\ \A i \in 1 .. Len(frames) : frames'[i] = frames[i]
           /\ \A q \in Questions : /\ heard[q] \in Nat /\ heard[q] <= Len(frames)
                                   /\ heard'[q] = IF q \in asking THEN heard[q] + 1 ELSE heard[q]
                                   /\ q \in asking => heard[q] = Len(frames)
           /\ HeardInv' /\ asking' = asking
<1>1. /\ frames' = Append(frames, f) /\ frames \in Seq(Frames) /\ asking' = asking
      /\ heard' = [q \in Questions |-> IF q \in asking THEN heard[q] + 1 ELSE heard[q]]
      /\ heard \in [Questions -> Nat] /\ asking \subseteq Questions
      /\ \A q \in Questions : heard[q] <= Len(frames)
      /\ \A q \in asking : heard[q] = Len(frames)
    BY DEF ReadFrame, HeardInv
<1>2. /\ Len(frames) \in Nat /\ Len(frames') = Len(frames) + 1
      /\ frames'[Len(frames) + 1] = f /\ frames' \in Seq(Frames)
      /\ \A i \in 1 .. Len(frames) : frames'[i] = frames[i]
    BY <1>1
<1>3. \A q \in Questions : /\ heard[q] \in Nat /\ heard[q] <= Len(frames)
                           /\ heard'[q] = IF q \in asking THEN heard[q] + 1 ELSE heard[q]
                           /\ q \in asking => heard[q] = Len(frames)
    BY <1>1
<1>4. heard' \in [Questions -> Nat]
    BY <1>1, <1>3
<1>5. (\A q \in Questions : heard'[q] <= Len(frames')) /\ \A q \in asking' : heard'[q] = Len(frames')
    BY <1>1, <1>2, <1>3
<1> QED BY <1>1, <1>2, <1>3, <1>4, <1>5 DEF HeardInv

\* A pairing that goes no further keeps what it has.
LEMMA PairsKept ==
    ASSUME NEW q, PairInv(q), heard'[q] = heard[q],
           pending'[q] = pending[q], results'[q] = results[q],
           \A i \in 1 .. heard[q] : frames'[i] = frames[i]
    PROVE  PairInv(q)'
<1>1. \A kind : ReadBy(q, kind)' = ReadBy(q, kind)
    BY DEF ReadBy
<1>2. KeysOf(q)' = KeysOf(q)
    BY DEF KeysOf
<1> QED BY <1>1, <1>2 DEF PairInv

LEMMA PairStep ==
    ASSUME PcapInv, NEW f \in Frames, ReadFrame(f), NEW q \in Pairings
    PROVE  PairInv(q)'
<1> DEFINE n == heard[q]
           A == ReadBy(q, Asks(q))
           B == ReadBy(q, Answers(q))
<1>1. HeardInv /\ PairInv(q) /\ PairFrame(f, Len(frames) + 1) /\ q \in Questions
    BY DEF PcapInv, ReadFrame, Questions
<1>2. /\ n \in Nat /\ n <= Len(frames) /\ frames'[Len(frames) + 1] = f
      /\ \A i \in 1 .. n : frames'[i] = frames[i]
      /\ heard'[q] = IF q \in asking THEN n + 1 ELSE n
      /\ q \in asking => n = Len(frames)
    BY <1>1, CaptureGrows
<1>3. /\ pending'[q] = IF Heeds(q, f, Asks(q)) THEN Ask(pending[q], Key(q, f), Len(frames) + 1)
                       ELSE IF Heeds(q, f, Answers(q)) THEN Popped(pending[q], Key(q, f))
                       ELSE pending[q]
      /\ results'[q] = IF Heeds(q, f, Answers(q))
                       THEN results[q] \cup Paired(pending[q], Key(q, f), Len(frames) + 1)
                       ELSE results[q]
    BY <1>1 DEF PairFrame
<1>4. Asks(q) # Answers(q)
    BY DEF Asks, Answers
<1>5. CASE q \notin asking
    BY <1>1, <1>2, <1>3, <1>5, PairsKept DEF Heeds
<1>6. CASE q \in asking
    <2>1. heard'[q] = n + 1 /\ Len(frames) = n /\ frames'[n + 1] = f
        BY <1>2, <1>6
    <2>2. /\ Grows(A, B, KeysOf(q), A', B', KeysOf(q)', n) /\ KeysOf(q)'[n + 1] = Key(q, f)
          /\ n + 1 \in A' <=> f.plain /\ f.kind = Asks(q)
          /\ n + 1 \in B' <=> f.plain /\ f.kind = Answers(q)
        <3>1. 1 .. (n + 1) = (1 .. n) \cup {n + 1} /\ n + 1 \in 1 .. n + 1
            BY <1>2
        <3>2. \A i \in 1 .. n + 1 : KeysOf(q)'[i] = Key(q, frames'[i])
            BY <2>1 DEF KeysOf
        <3>3. \A i \in 1 .. n : KeysOf(q)[i] = Key(q, frames[i])
            BY DEF KeysOf
        <3>4. \A i \in 1 .. n : (i \in A <=> i \in A') /\ (i \in B <=> i \in B')
            BY <1>2, <2>1, <3>1 DEF ReadBy
        <3>5. /\ n + 1 \in A' <=> f.plain /\ f.kind = Asks(q)
              /\ n + 1 \in B' <=> f.plain /\ f.kind = Answers(q)
            BY <2>1, <3>1 DEF ReadBy
        <3> QED BY <1>2, <2>1, <3>1, <3>2, <3>3, <3>4, <3>5 DEF Grows
    <2>3. results[q] = Couples(A, B, KeysOf(q), n) /\ Tracks(pending[q], A, B, KeysOf(q), n)
        BY <1>1 DEF PairInv
    <2> SUFFICES /\ results'[q] = Couples(A', B', KeysOf(q)', n + 1)
                 /\ Tracks(pending'[q], A', B', KeysOf(q)', n + 1)
        BY <2>1 DEF PairInv
    <2> HIDE DEF n, A, B
    <2>4. CASE Heeds(q, f, Asks(q))
        <3>1. ~Heeds(q, f, Answers(q)) /\ n + 1 \in A' /\ n + 1 \notin B'
            BY <1>4, <2>2, <2>4 DEF Heeds
        <3>2. pending'[q] = Ask(pending[q], KeysOf(q)'[n + 1], n + 1) /\ results'[q] = results[q]
            BY <1>3, <2>1, <2>2, <2>4, <3>1
        <3> QED BY <1>2, <2>2, <2>3, <3>1, <3>2, AskTracks
    <2>5. CASE Heeds(q, f, Answers(q))
        <3>1. ~Heeds(q, f, Asks(q)) /\ n + 1 \in B' /\ n + 1 \notin A'
            BY <1>4, <2>2, <2>5 DEF Heeds
        <3>2. /\ pending'[q] = Popped(pending[q], KeysOf(q)'[n + 1])
              /\ results'[q] = results[q] \cup Paired(pending[q], KeysOf(q)'[n + 1], n + 1)
            BY <1>3, <2>1, <2>2, <2>5, <3>1
        <3> QED BY <1>2, <2>2, <2>3, <3>1, <3>2, AnswerTracks
    <2>6. CASE ~Heeds(q, f, Asks(q)) /\ ~Heeds(q, f, Answers(q))
        <3>1. n + 1 \notin A' \cup B'
            BY <1>6, <2>2, <2>6 DEF Heeds
        <3>2. pending'[q] = pending[q] /\ results'[q] = results[q]
            BY <1>3, <2>6
        <3> QED BY <1>2, <2>2, <2>3, <3>1, <3>2, OtherTracks
    <2> QED BY <2>4, <2>5, <2>6
<1> QED BY <1>5, <1>6

\* What the question for addresses has got to stays, if it goes no further.
LEMMA AddressKept ==
    ASSUME AddressInv, heard'["addresses"] = heard["addresses"],
           UNCHANGED <<ip_pkt_count, ip_to_mac>>,
           \A i \in 1 .. heard["addresses"] : frames'[i] = frames[i]
    PROVE  AddressInv'
<1>1. \A a : SentBy(a)' = SentBy(a)
    BY DEF SentBy
<1>2. \A a : \A i \in SentBy(a) : frames'[i] = frames[i]
    BY DEF SentBy
<1>3. DOMAIN ip_pkt_count' = {a \in Ipv4 : SentBy(a)' # {}}
    BY <1>1 DEF AddressInv
<1>4. \A a \in DOMAIN ip_pkt_count' : ip_pkt_count'[a] = Cardinality(SentBy(a)')
    BY <1>1 DEF AddressInv
<1>5. \A a \in DOMAIN ip_to_mac' :
        \E i \in SentBy(a)' : /\ ip_to_mac'[a] = frames'[i].mac /\ ip_to_mac'[a] # ""
                              /\ \A j \in SentBy(a)' : j < i => frames'[j].mac = ""
    <2> SUFFICES ASSUME NEW a \in DOMAIN ip_to_mac
                 PROVE  \E i \in SentBy(a) : /\ ip_to_mac[a] = frames'[i].mac /\ ip_to_mac[a] # ""
                                             /\ \A j \in SentBy(a) : j < i => frames'[j].mac = ""
        BY <1>1
    <2>1. PICK i \in SentBy(a) : /\ ip_to_mac[a] = frames[i].mac /\ ip_to_mac[a] # ""
                                 /\ \A j \in SentBy(a) : j < i => frames[j].mac = ""
        BY DEF AddressInv
    <2> QED BY <1>2, <2>1
<1>6. \A a \in Ipv4 \ DOMAIN ip_to_mac' : \A i \in SentBy(a)' : frames'[i].mac = ""
    BY <1>1, <1>2 DEF AddressInv
<1> QED BY <1>3, <1>4, <1>5, <1>6 DEF AddressInv

LEMMA PortKept ==
    ASSUME PortInv, heard'["ports"] = heard["ports"], UNCHANGED open_ports,
           \A i \in 1 .. heard["ports"] : frames'[i] = frames[i]
    PROVE  PortInv'
<1>1. PortsSeen' = PortsSeen /\ \A i \in PortsSeen : frames'[i] = frames[i]
    BY DEF PortsSeen
<1> QED BY <1>1 DEF PortInv

LEMMA PortStep ==
    ASSUME PcapInv, NEW f \in Frames, ReadFrame(f)
    PROVE  PortInv'
<1> DEFINE n == heard["ports"]
<1>1. HeardInv /\ PortInv /\ PortFrame(f)
    BY DEF PcapInv, ReadFrame
<1>2. /\ n \in Nat /\ n <= Len(frames) /\ frames'[Len(frames) + 1] = f
      /\ \A i \in 1 .. n : frames'[i] = frames[i]
      /\ heard'["ports"] = IF "ports" \in asking THEN n + 1 ELSE n
      /\ "ports" \in asking => n = Len(frames)
    BY <1>1, CaptureGrows DEF Questions
<1>3. CASE "ports" \notin asking
    BY <1>1, <1>2, <1>3, PortKept DEF PortFrame
<1>4. CASE "ports" \in asking
    <2>1. heard'["ports"] = n + 1 /\ frames'[n + 1] = f
        BY <1>2, <1>4
    <2>2. 1 .. (n + 1) = (1 .. n) \cup {n + 1}
        BY <1>2
    <2>3. PortsSeen' = PortsSeen \cup (IF f.kind = "syn_ack" THEN {n + 1} ELSE {})
        BY <1>2, <2>1, <2>2 DEF PortsSeen
    <2>4. \A i \in PortsSeen : frames'[i] = frames[i]
        BY <1>2 DEF PortsSeen
    <2>5. open_ports' = open_ports \cup (IF f.kind = "syn_ack" THEN {<<Printed(f.src), f.tag>>} ELSE {})
        BY <1>1, <1>4 DEF PortFrame
    <2> QED BY <1>1, <2>1, <2>3, <2>4, <2>5 DEF PortInv
<1> QED BY <1>3, <1>4

LEMMA AddressStep ==
    ASSUME PcapInv, NEW f \in Frames, ReadFrame(f)
    PROVE  AddressInv'
<1> DEFINE n == heard["addresses"]
<1>1. HeardInv /\ AddressInv /\ AddressFrame(f)
    BY DEF PcapInv, ReadFrame
<1>2. /\ n \in Nat /\ n <= Len(frames) /\ frames'[Len(frames) + 1] = f
      /\ \A i \in 1 .. n : frames'[i] = frames[i]
      /\ heard'["addresses"] = IF "addresses" \in asking THEN n + 1 ELSE n
      /\ "addresses" \in asking => n = Len(frames)
    BY <1>1, CaptureGrows DEF Questions
<1>3. CASE "addresses" \notin asking
    BY <1>1, <1>2, <1>3, AddressKept DEF AddressFrame
<1>4. CASE "addresses" \in asking
    <2>1. heard'["addresses"] = n + 1 /\ frames'[n + 1] = f
        BY <1>2, <1>4
    <2>2. 1 .. (n + 1) = (1 .. n) \cup {n + 1} /\ n + 1 \notin 1 .. n
        BY <1>2
    <2>3. \A a : SentBy(a)' = SentBy(a) \cup (IF f.src = a THEN {n + 1} ELSE {})
        BY <1>2, <2>1, <2>2 DEF SentBy
    <2>4. /\ \A a : \A i \in SentBy(a) : frames'[i] = frames[i] /\ i < n + 1 /\ i \in Nat
          /\ \A a : n + 1 \notin SentBy(a)
        BY <1>2, <2>2 DEF SentBy
    <2>5. \A a : IsFiniteSet(SentBy(a)) /\ Cardinality(SentBy(a)) \in Nat
        <3> SUFFICES ASSUME NEW a PROVE IsFiniteSet(SentBy(a)) /\ Cardinality(SentBy(a)) \in Nat
            OBVIOUS
        <3>1. SentBy(a) \subseteq 1 .. n
            BY DEF SentBy
        <3>2. n \in Int /\ 1 \in Int
            BY <1>2
        <3> HIDE DEF n
        <3>3. IsFiniteSet(1 .. n)
            BY <3>2, FS_Interval
        <3> QED BY <3>1, <3>3, FS_Subset, FS_CardinalityType
    <2> HIDE DEF n
    <2>6. CASE f.src \notin Ipv4
        <3>1. UNCHANGED <<ip_pkt_count, ip_to_mac>>
            BY <1>1, <2>6 DEF AddressFrame
        <3>2. \A a \in Ipv4 : SentBy(a)' = SentBy(a)
            BY <2>3, <2>6
        <3>3. DOMAIN ip_pkt_count \subseteq Ipv4
            BY <1>1 DEF AddressInv
        <3>4. \A a \in DOMAIN ip_to_mac : SentBy(a)' = SentBy(a) \/ (a = f.src)
            BY <2>3
        <3>5. ASSUME NEW a \in DOMAIN ip_to_mac
              PROVE  \E i \in SentBy(a)' : /\ ip_to_mac'[a] = frames'[i].mac /\ ip_to_mac'[a] # ""
                                           /\ \A j \in SentBy(a)' : j < i => frames'[j].mac = ""
            <4>1. PICK i \in SentBy(a) : /\ ip_to_mac[a] = frames[i].mac /\ ip_to_mac[a] # ""
                                         /\ \A j \in SentBy(a) : j < i => frames[j].mac = ""
                BY <1>1 DEF AddressInv
            <4>2. i \in SentBy(a)' /\ frames'[i] = frames[i] /\ ~(n + 1 < i)
                BY <1>2, <2>3, <2>4
            <4>3. \A j \in SentBy(a)' : j < i => j \in SentBy(a)
                BY <2>3, <4>2
            <4> QED BY <2>4, <3>1, <4>1, <4>2, <4>3
        <3>6. ASSUME NEW a \in Ipv4, a \notin DOMAIN ip_to_mac, NEW i \in SentBy(a)'
              PROVE  frames'[i].mac = ""
            <4>1. i \in SentBy(a)
                BY <3>2
            <4>2. frames[i].mac = ""
                BY <1>1, <3>6, <4>1 DEF AddressInv
            <4> QED BY <2>4, <4>1, <4>2
        <3>7. \A a \in DOMAIN ip_pkt_count : ip_pkt_count[a] = Cardinality(SentBy(a)')
            BY <1>1, <3>2, <3>3 DEF AddressInv
        <3>8. DOMAIN ip_pkt_count = {a \in Ipv4 : SentBy(a)' # {}}
            BY <1>1, <3>2 DEF AddressInv
        <3> QED BY <3>1, <3>5, <3>6, <3>7, <3>8 DEF AddressInv
    <2>7. CASE f.src \in Ipv4
        <3> DEFINE s == f.src
        <3>1. /\ ip_pkt_count' = Entered(ip_pkt_count, s, IF s \in DOMAIN ip_pkt_count THEN ip_pkt_count[s] + 1 ELSE 1)
              /\ ip_to_mac' = IF s \in DOMAIN ip_to_mac \/ f.mac = "" THEN ip_to_mac
                              ELSE Entered(ip_to_mac, s, f.mac)
            BY <1>1, <1>4, <2>7 DEF AddressFrame
        <3>2. /\ SentBy(s)' = SentBy(s) \cup {n + 1}
              /\ \A a : a # s => SentBy(a)' = SentBy(a)
            BY <2>3
        <3>s. s \in Ipv4
            BY <2>7
        <3> HIDE DEF s
        <3>3. DOMAIN ip_pkt_count' = {a \in Ipv4 : SentBy(a)' # {}}
            <4>1. DOMAIN ip_pkt_count' = DOMAIN ip_pkt_count \cup {s}
                BY <3>1 DEF Entered
            <4> QED BY <1>1, <3>2, <3>s, <4>1 DEF AddressInv
        <3>4. ASSUME NEW a \in DOMAIN ip_pkt_count'
              PROVE  ip_pkt_count'[a] = Cardinality(SentBy(a)')
            <4>1. CASE a # s
                <5>1. a \in DOMAIN ip_pkt_count /\ ip_pkt_count'[a] = ip_pkt_count[a]
                    BY <3>1, <4>1 DEF Entered
                <5>2. SentBy(a)' = SentBy(a)
                    BY <3>2, <4>1
                <5> QED BY <1>1, <5>1, <5>2 DEF AddressInv
            <4>2. CASE a = s
                <5>1. ip_pkt_count'[s] = IF s \in DOMAIN ip_pkt_count THEN ip_pkt_count[s] + 1 ELSE 1
                    BY <3>1 DEF Entered
                <5>2. s \notin DOMAIN ip_pkt_count => SentBy(s) = {}
                    BY <1>1, <3>s DEF AddressInv
                <5>3. s \notin DOMAIN ip_pkt_count => Cardinality(SentBy(s)) = 0
                    BY <5>2, FS_EmptySet
                <5>4. s \in DOMAIN ip_pkt_count => ip_pkt_count[s] = Cardinality(SentBy(s))
                    BY <1>1 DEF AddressInv
                <5>5. Cardinality(SentBy(s) \cup {n + 1}) = Cardinality(SentBy(s)) + 1
                    BY <2>4, <2>5, FS_AddElement
                <5>6. Cardinality(SentBy(s)) \in Nat
                    BY <2>5
                <5>7. Cardinality(SentBy(s)') = Cardinality(SentBy(s)) + 1
                    BY <3>2, <5>5
                <5> QED BY <4>2, <5>1, <5>3, <5>4, <5>6, <5>7
            <4> QED BY <4>1, <4>2
        <3>5. ASSUME NEW a \in DOMAIN ip_to_mac'
              PROVE  \E i \in SentBy(a)' : /\ ip_to_mac'[a] = frames'[i].mac /\ ip_to_mac'[a] # ""
                                           /\ \A j \in SentBy(a)' : j < i => frames'[j].mac = ""
            <4>1. CASE a \in DOMAIN ip_to_mac
                <5>1. PICK i \in SentBy(a) : /\ ip_to_mac[a] = frames[i].mac /\ ip_to_mac[a] # ""
                                             /\ \A j \in SentBy(a) : j < i => frames[j].mac = ""
                    BY <1>1, <4>1 DEF AddressInv
                <5>2. i \in SentBy(a)' /\ frames'[i] = frames[i] /\ ~(n + 1 < i)
                    BY <1>2, <2>3, <2>4
                <5>3. \A j \in SentBy(a)' : j < i => j \in SentBy(a)
                    BY <2>3, <5>2
                <5>4. ip_to_mac'[a] = ip_to_mac[a]
                    BY <3>1, <4>1 DEF Entered
                <5> QED BY <2>4, <5>1, <5>2, <5>3, <5>4
            <4>2. CASE a \notin DOMAIN ip_to_mac
                <5>1. a = s /\ s \notin DOMAIN ip_to_mac /\ f.mac # "" /\ ip_to_mac'[s] = f.mac
                    BY <3>1, <4>2 DEF Entered
                <5>2. n + 1 \in SentBy(s)' /\ frames'[n + 1] = f
                    BY <2>1, <3>2
                <5>3. \A j \in SentBy(s) : frames[j].mac = ""
                    BY <1>1, <3>s, <5>1 DEF AddressInv
                <5>4. \A j \in SentBy(s)' : j < n + 1 => frames'[j].mac = ""
                    <6> SUFFICES ASSUME NEW j \in SentBy(s)', j < n + 1 PROVE frames'[j].mac = ""
                        OBVIOUS
                    <6>1. j # n + 1
                        BY <1>2
                    <6>2. j \in SentBy(s)
                        BY <3>2, <6>1
                    <6> QED BY <2>4, <5>3, <6>2
                <5> QED BY <5>1, <5>2, <5>4
            <4> QED BY <4>1, <4>2
        <3>6. ASSUME NEW a \in Ipv4, a \notin DOMAIN ip_to_mac', NEW i \in SentBy(a)'
              PROVE  frames'[i].mac = ""
            <4>1. a \notin DOMAIN ip_to_mac
                BY <3>1, <3>6 DEF Entered
            <4>2. CASE i \in SentBy(a)
                BY <1>1, <2>4, <4>1, <4>2 DEF AddressInv
            <4>3. CASE i \notin SentBy(a)
                <5>1. a = s /\ i = n + 1 /\ frames'[i] = f
                    BY <2>1, <3>2, <4>3
                <5>2. f.mac = ""
                    BY <3>1, <3>6, <4>1, <5>1 DEF Entered
                <5> QED BY <5>1, <5>2
            <4> QED BY <4>2, <4>3
        <3> QED BY <3>3, <3>4, <3>5, <3>6 DEF AddressInv
    <2> QED BY <2>6, <2>7
<1> QED BY <1>3, <1>4

\* Nothing is left of an answer that timed out.
LEMMA TimeOutStep ==
    ASSUME PcapInv, NEW p \in asking, TimesOut(p)
    PROVE  PcapInv'
<1>1. /\ HeardInv /\ AddressInv /\ PortInv /\ \A q \in Pairings : PairInv(q)
      /\ p \in Questions /\ heard \in [Questions -> Nat]
    BY DEF PcapInv, HeardInv
<1>2. /\ frames' = frames /\ asking' = asking \ {p}
      /\ heard'[p] = 0 /\ heard' \in [Questions -> Nat]
      /\ \A q \in Questions : q # p => heard'[q] = heard[q]
    BY <1>1 DEF TimesOut
<1>3. HeardInv'
    BY <1>1, <1>2 DEF HeardInv
<1>4. ASSUME NEW q \in Pairings
      PROVE  PairInv(q)'
    <2>1. q \in Questions
        BY DEF Questions
    <2>2. CASE q = p
        <3>1. pending'[q] = NoEntries /\ results'[q] = {} /\ heard'[q] = 0
            BY <1>2, <2>2 DEF TimesOut
        <3>2. \A A, B, key : Couples(A, B, key, 0) = {}
            BY DEF Couples
        <3>3. \A A, B, key : Tracks(NoEntries, A, B, key, 0)
            BY DEF Tracks, NoEntries
        <3> QED BY <3>1, <3>2, <3>3 DEF PairInv
    <2>3. CASE q # p
        <3>1. pending'[q] = pending[q] /\ results'[q] = results[q]
            BY <2>3 DEF TimesOut
        <3> QED BY <1>1, <1>2, <2>1, <2>3, <3>1, PairsKept
    <2> QED BY <2>2, <2>3
<1>5. AddressInv'
    <2>1. CASE p = "addresses"
        <3>1. DOMAIN ip_pkt_count' = {} /\ DOMAIN ip_to_mac' = {}
            BY <2>1 DEF TimesOut, NoEntries
        <3>2. \A a : SentBy(a)' = {}
            BY <1>2, <2>1 DEF SentBy
        <3> QED BY <3>1, <3>2 DEF AddressInv
    <2>2. CASE p # "addresses"
        <3>1. UNCHANGED <<ip_pkt_count, ip_to_mac>>
            BY <2>2 DEF TimesOut
        <3>2. "addresses" \in Questions
            BY DEF Questions
        <3> QED BY <1>1, <1>2, <2>2, <3>1, <3>2, AddressKept
    <2> QED BY <2>1, <2>2
<1>6. PortInv'
    <2>1. CASE p = "ports"
        <3>1. open_ports' = {} /\ PortsSeen' = {}
            BY <1>2, <2>1 DEF TimesOut, PortsSeen
        <3> QED BY <3>1 DEF PortInv
    <2>2. CASE p # "ports"
        <3>1. UNCHANGED open_ports
            BY <2>2 DEF TimesOut
        <3>2. "ports" \in Questions
            BY DEF Questions
        <3> QED BY <1>1, <1>2, <2>2, <3>1, <3>2, PortKept
    <2> QED BY <2>1, <2>2
<1> QED BY <1>3, <1>4, <1>5, <1>6 DEF PcapInv

\* No frame more or less for anyone.
LEMMA NoFrameStep ==
    ASSUME PcapInv, asking' \subseteq asking,
           UNCHANGED <<frames, heard, pending, results, ip_to_mac, ip_pkt_count, open_ports>>
    PROVE  PcapInv'
<1>1. HeardInv'
    BY DEF PcapInv, HeardInv
<1>2. \A q \in Pairings : PairInv(q)'
    BY PairsKept DEF PcapInv
<1>3. AddressInv' /\ PortInv'
    BY AddressKept, PortKept DEF PcapInv
<1> QED BY <1>1, <1>2, <1>3 DEF PcapInv

LEMMA PcapHolds == PcapSpec => []PcapInv
<1>1. PcapInit => PcapInv
    <2> SUFFICES ASSUME PcapInit PROVE PcapInv
        OBVIOUS
    <2>1. /\ frames \in Seq(Frames) /\ Len(frames) = 0 /\ asking = Questions
          /\ heard = [q \in Questions |-> 0]
          /\ "addresses" \in Questions /\ "ports" \in Questions
        BY DEF PcapInit, Questions
    <2>2. \A A, B, key : Couples(A, B, key, 0) = {}
        BY DEF Couples
    <2>3. \A A, B, key : Tracks(NoEntries, A, B, key, 0)
        BY DEF Tracks, NoEntries
    <2>4. ASSUME NEW q \in Pairings PROVE PairInv(q)
        <3>1. heard[q] = 0 /\ pending[q] = NoEntries /\ results[q] = {}
            BY <2>1 DEF PcapInit, Questions
        <3> QED BY <2>2, <2>3, <3>1 DEF PairInv
    <2>5. AddressInv
        <3>1. \A a : SentBy(a) = {}
            BY <2>1 DEF SentBy
        <3> QED BY <3>1 DEF PcapInit, AddressInv, NoEntries
    <2>6. PortInv
        <3>1. PortsSeen = {}
            BY <2>1 DEF PortsSeen
        <3> QED BY <3>1 DEF PcapInit, PortInv
    <2>7. HeardInv
        BY <2>1 DEF HeardInv
    <2> QED BY <2>4, <2>5, <2>6, <2>7 DEF PcapInv
<1>2. PcapInv /\ [PcapNext]_pcapVars => PcapInv'
    <2> SUFFICES ASSUME PcapInv, [PcapNext]_pcapVars PROVE PcapInv'
        OBVIOUS
    <2>1. CASE \E f \in Frames : ReadFrame(f)
        <3>1. PICK f \in Frames : ReadFrame(f)
            BY <2>1
        <3>2. HeardInv'
            BY <3>1, CaptureGrows DEF PcapInv
        <3> QED BY <3>1, <3>2, PairStep, AddressStep, PortStep DEF PcapInv
    <2>2. CASE \E q \in asking : TimesOut(q)
        BY <2>2, TimeOutStep
    <2>3. CASE \E q \in asking : BreaksOff(q)
        BY <2>3, NoFrameStep DEF BreaksOff
    <2>4. CASE UNCHANGED pcapVars
        BY <2>4, NoFrameStep DEF pcapVars
    <2> QED BY <2>1, <2>2, <2>3, <2>4 DEF PcapNext
<1> QED BY <1>1, <1>2, PTL DEF PcapSpec

\* Where a line tells the talk, its key is the talk's.
LEMMA KeysTell ==
    ASSUME NEW q \in Pairings, NEW f, NEW g
    PROVE  /\ Tells(q, f) => (Key(q, f) = Key(q, g) <=> Talk(q, f) = Talk(q, g))
           /\ Tells(q, f) /\ Key(q, f) = Key(q, g) => Tells(q, g)
           /\ Key(q, f) = Key(q, g) => f.tag = g.tag
<1>1. CASE q = "tls"
    BY <1>1 DEF Tells, Key, TlsKey, Talk
<1>2. CASE q = "dns"
    <2>1. \A a, b : b \in Ipv4 => (Printed(a) = Printed(b) <=> a = b)
        BY PcapAssumption DEF Printed, PcapAssumption
    <2>2. \A a, b : b \in Ipv4 /\ Printed(a) = Printed(b) => a \in Ipv4
        BY <2>1
    <2>3. /\ Key(q, f) = DnsKey(f) /\ Key(q, g) = DnsKey(g)
          /\ Tells(q, f) <=> f.src \in Ipv4 /\ f.dst \in Ipv4
          /\ Tells(q, g) <=> g.src \in Ipv4 /\ g.dst \in Ipv4
        BY <1>2 DEF Key, Tells
    <2>4. /\ Talk(q, f) = IF f.kind = "query" THEN <<f.src, f.dst, f.tag>> ELSE <<f.dst, f.src, f.tag>>
          /\ Talk(q, g) = IF g.kind = "query" THEN <<g.src, g.dst, g.tag>> ELSE <<g.dst, g.src, g.tag>>
        BY <1>2 DEF Talk
    <2>5. CASE f.kind = "query" /\ g.kind = "query"
        BY <2>1, <2>2, <2>3, <2>4, <2>5 DEF DnsKey
    <2>6. CASE f.kind = "query" /\ g.kind # "query"
        BY <2>1, <2>2, <2>3, <2>4, <2>6 DEF DnsKey
    <2>7. CASE f.kind # "query" /\ g.kind = "query"
        BY <2>1, <2>2, <2>3, <2>4, <2>7 DEF DnsKey
    <2>8. CASE f.kind # "query" /\ g.kind # "query"
        BY <2>1, <2>2, <2>3, <2>4, <2>8 DEF DnsKey
    <2> QED BY <2>5, <2>6, <2>7, <2>8
<1> QED BY <1>1, <1>2 DEF Pairings

LEMMA PairsAreFound ==
    ASSUME PcapInv
    PROVE  LatenciesAreRight
<1> SUFFICES ASSUME NEW q \in Pairings
             PROVE  /\ results[q] \subseteq (1 .. heard[q]) \X (1 .. heard[q])
                    /\ \A i, j \in 1 .. heard[q] :
                         IF Tells(q, frames[i])
                         THEN <<i, j>> \in results[q] <=>
                                  /\ Fit(q, i, j) /\ Talk(q, frames[i]) = Talk(q, frames[j])
                                  /\ \A k \in Between(q, i, j) : ~frames[k].plain
                         ELSE <<i, j>> \in results[q] =>
                                  Fit(q, i, j) /\ frames[i].tag = frames[j].tag /\ ~Tells(q, frames[j])
    BY DEF LatenciesAreRight
<1> DEFINE n == heard[q]
           A == ReadBy(q, Asks(q))
           B == ReadBy(q, Answers(q))
<1>1. n \in Nat /\ results[q] = Couples(A, B, KeysOf(q), n)
    BY DEF PcapInv, PairInv, HeardInv, Questions
<1>2. results[q] \subseteq (1 .. n) \X (1 .. n)
    BY <1>1 DEF Couples
<1>3. ASSUME NEW i \in 1 .. n, NEW j \in 1 .. n
      PROVE  <<i, j>> \in results[q] <=>
                 /\ Fit(q, i, j) /\ Key(q, frames[i]) = Key(q, frames[j])
                 /\ \A m \in i + 1 .. j - 1 : ~(/\ frames[m].plain
                                                /\ frames[m].kind \in {Asks(q), Answers(q)}
                                                /\ Key(q, frames[m]) = Key(q, frames[i]))
    <2>1. \A m \in i + 1 .. j - 1 : m \in 1 .. n
        BY <1>1
    <2>2. \A m \in 1 .. n : /\ KeysOf(q)[m] = Key(q, frames[m])
                            /\ m \in A <=> frames[m].plain /\ frames[m].kind = Asks(q)
                            /\ m \in B <=> frames[m].plain /\ frames[m].kind = Answers(q)
        BY DEF KeysOf, ReadBy
    <2> HIDE DEF n, A, B
    <2>3. <<i, j>> \in results[q] <=> Belong(A, B, KeysOf(q), i, j)
        BY <1>1 DEF Couples
    <2>4. Belong(A, B, KeysOf(q), i, j) <=>
              /\ i < j /\ i \in A /\ j \in B /\ Key(q, frames[i]) = Key(q, frames[j])
              /\ \A m \in i + 1 .. j - 1 : ~(m \in A \cup B /\ Key(q, frames[m]) = Key(q, frames[i]))
        BY <2>1, <2>2 DEF Belong
    <2>5. (i < j /\ i \in A /\ j \in B) <=> Fit(q, i, j)
        BY <2>2 DEF Fit
    <2> QED BY <2>1, <2>2, <2>3, <2>4, <2>5
<1> HIDE DEF n
<1>4. ASSUME NEW i \in 1 .. n, NEW j \in 1 .. n, Tells(q, frames[i])
      PROVE  <<i, j>> \in results[q] <=>
                 /\ Fit(q, i, j) /\ Talk(q, frames[i]) = Talk(q, frames[j])
                 /\ \A k \in Between(q, i, j) : ~frames[k].plain
    <2>1. \A m : Key(q, frames[m]) = Key(q, frames[i]) <=> Talk(q, frames[m]) = Talk(q, frames[i])
        BY <1>4, KeysTell
    <2>2. (\A k \in Between(q, i, j) : ~frames[k].plain) <=>
              \A m \in i + 1 .. j - 1 : ~(/\ frames[m].plain
                                          /\ frames[m].kind \in {Asks(q), Answers(q)}
                                          /\ Key(q, frames[m]) = Key(q, frames[i]))
        BY <2>1 DEF Between
    <2>3. Key(q, frames[i]) = Key(q, frames[j]) <=> Talk(q, frames[i]) = Talk(q, frames[j])
        BY <2>1
    <2> QED BY <1>3, <2>2, <2>3
<1>5. ASSUME NEW i \in 1 .. n, NEW j \in 1 .. n, ~Tells(q, frames[i]), <<i, j>> \in results[q]
      PROVE  Fit(q, i, j) /\ frames[i].tag = frames[j].tag /\ ~Tells(q, frames[j])
    <2>1. Fit(q, i, j) /\ Key(q, frames[i]) = Key(q, frames[j])
        BY <1>3, <1>5
    <2>2. frames[i].tag = frames[j].tag
        BY <2>1, KeysTell
    <2>3. ~Tells(q, frames[j])
        BY <1>5, <2>1, KeysTell
    <2> QED BY <2>1, <2>2, <2>3
<1> QED BY <1>2, <1>4, <1>5 DEF n

LEMMA SendersAreFound ==
    ASSUME PcapInv
    PROVE  DevicesAreSenders
<1>0. AddressInv /\ PortInv
    BY DEF PcapInv
<1> DEFINE dev(a) == [ip |-> a, packets |-> ip_pkt_count[a],
                      mac |-> IF a \in DOMAIN ip_to_mac THEN ip_to_mac[a] ELSE "",
                      ports |-> {p[2] : p \in {r \in open_ports : r[1] = a}}]
<1>1. ResultDevices = {dev(a) : a \in DOMAIN ip_pkt_count}
    BY DEF ResultDevices
<1>2. \A a : /\ dev(a).ip = a /\ dev(a).packets = ip_pkt_count[a]
             /\ dev(a).mac = IF a \in DOMAIN ip_to_mac THEN ip_to_mac[a] ELSE ""
             /\ dev(a).ports = {p[2] : p \in {r \in open_ports : r[1] = a}}
    OBVIOUS
<1> HIDE DEF dev
<1>3. {d.ip : d \in ResultDevices} = {a \in Ipv4 : SentBy(a) # {}}
    <2>1. ASSUME NEW d \in ResultDevices PROVE d.ip \in DOMAIN ip_pkt_count
        BY <1>1, <1>2
    <2>2. ASSUME NEW a \in DOMAIN ip_pkt_count PROVE \E d \in ResultDevices : d.ip = a
        BY <1>1, <1>2
    <2>3. {d.ip : d \in ResultDevices} = DOMAIN ip_pkt_count
        BY <2>1, <2>2
    <2> QED BY <1>0, <2>3 DEF AddressInv
<1>4. ASSUME NEW d \in ResultDevices
      PROVE  /\ d.packets = Cardinality(SentBy(d.ip))
             /\ d.ports = {frames[i].tag : i \in {j \in 1 .. heard["ports"] :
                                                    frames[j].src = d.ip /\ frames[j].kind = "syn_ack"}}
             /\ \/ d.mac = "" /\ \A i \in SentBy(d.ip) : frames[i].mac = ""
                \/ \E i \in SentBy(d.ip) : /\ d.mac = frames[i].mac /\ d.mac # ""
                                           /\ \A j \in SentBy(d.ip) : j < i => frames[j].mac = ""
    <2>1. PICK a \in DOMAIN ip_pkt_count : d = dev(a)
        BY <1>1
    <2>2. d.ip = a /\ a \in Ipv4
        BY <1>0, <1>2, <2>1 DEF AddressInv
    <2>3. d.packets = Cardinality(SentBy(a))
        BY <1>0, <1>2, <2>1 DEF AddressInv
    <2>4. d.ports = {frames[i].tag : i \in {j \in 1 .. heard["ports"] :
                                              frames[j].src = a /\ frames[j].kind = "syn_ack"}}
        <3>1. \A b : Printed(b) = a <=> b = a
            BY <2>2, PcapAssumption DEF Printed, PcapAssumption
        <3>2. \A x : (\E r \in open_ports : r[1] = a /\ r[2] = x) <=>
                     (\E i \in PortsSeen : frames[i].src = a /\ frames[i].tag = x)
            <4>1. open_ports = {<<Printed(frames[i].src), frames[i].tag>> : i \in PortsSeen}
                BY <1>0 DEF PortInv
            <4>2. ASSUME NEW x, NEW r \in open_ports, r[1] = a, r[2] = x
                  PROVE  \E i \in PortsSeen : frames[i].src = a /\ frames[i].tag = x
                <5>1. PICK i \in PortsSeen : r = <<Printed(frames[i].src), frames[i].tag>>
                    BY <4>1
                <5> QED BY <3>1, <4>2, <5>1
            <4>3. ASSUME NEW x, NEW i \in PortsSeen, frames[i].src = a, frames[i].tag = x
                  PROVE  \E r \in open_ports : r[1] = a /\ r[2] = x
                <5>1. <<Printed(frames[i].src), frames[i].tag>> \in open_ports
                    BY <4>1
                <5> QED BY <3>1, <4>3, <5>1
            <4> QED BY <4>2, <4>3
        <3>3. d.ports = {p[2] : p \in {r \in open_ports : r[1] = a}}
            BY <1>2, <2>1
        <3> QED BY <3>2, <3>3 DEF PortsSeen
    <2>5. \/ d.mac = "" /\ \A i \in SentBy(a) : frames[i].mac = ""
          \/ \E i \in SentBy(a) : /\ d.mac = frames[i].mac /\ d.mac # ""
                                  /\ \A j \in SentBy(a) : j < i => frames[j].mac = ""
        <3>1. CASE a \in DOMAIN ip_to_mac
            <4>1. d.mac = ip_to_mac[a]
                BY <1>2, <2>1, <3>1
            <4>2. PICK i \in SentBy(a) : /\ ip_to_mac[a] = frames[i].mac /\ ip_to_mac[a] # ""
                                         /\ \A j \in SentBy(a) : j < i => frames[j].mac = ""
                BY <1>0, <3>1 DEF AddressInv
            <4> QED BY <4>1, <4>2
        <3>2. CASE a \notin DOMAIN ip_to_mac
            BY <1>0, <1>2, <2>1, <2>2, <3>2 DEF AddressInv
        <3> QED BY <3>1, <3>2
    <2> QED BY <2>2, <2>3, <2>4, <2>5
<1> QED BY <1>3, <1>4 DEF DevicesAreSenders

\* _analyze_pcap of the portal: a latency is that of an answer and the last query
\* of its talk, as far as the lines tell the talks and can be read, and the devices
\* are the IPv4 senders, for any capture and whichever of its questions time out or
\* break off.
THEOREM LatenciesArePaired == PcapSpec => []AnswersArePaired
<1>1. PcapInv => AnswersArePaired
    BY PairsAreFound, SendersAreFound DEF AnswersArePaired
<1> QED BY <1>1, PcapHolds, PTL

-----------------------------------------------------------------------------
(* The risk register.                                                       *)

AllPorts == 1 .. NoMore - 1

LEMMA NoMoreIsNumber == NoMore \in Nat /\ NoMore > 0
BY DEF NoMore

LEMMA PortsAreNumbers ==
    ASSUME NEW S \in SUBSET AllPorts
    PROVE  \A p \in S : p \in Nat /\ p > 0 /\ p < NoMore
BY NoMoreIsNumber DEF AllPorts

LEMMA RunEnds ==
    ASSUME NEW S \in SUBSET AllPorts, NEW p \in S
    PROVE  /\ RunEnd(S, p) \in S /\ RunEnd(S, p) + 1 \notin S
           /\ p <= RunEnd(S, p) /\ p .. RunEnd(S, p) \subseteq S
<1> DEFINE T == {q \in Nat : q >= p /\ q + 1 \notin S}
<1>1. NoMore - 1 \in T
    BY NoMoreIsNumber DEF AllPorts
<1>2. PICK q \in T : \A r \in T : q <= r
    BY <1>1, LeastExists
<1>3. p \in Nat /\ q \in Nat /\ q >= p /\ q + 1 \notin S
    BY <1>2 DEF AllPorts
<1>4. \A r \in p .. q : r \in S
    <2> SUFFICES ASSUME NEW r \in p .. q, r \notin S PROVE FALSE
        OBVIOUS
    <2>1. r # p /\ r - 1 \in Nat /\ r - 1 >= p /\ (r - 1) + 1 \notin S
        BY <1>3
    <2>2. r - 1 \in T
        BY <2>1
    <2> QED BY <1>2, <1>3, <2>2
<1>5. q \in S /\ p .. q \subseteq S
    BY <1>3, <1>4
<1>6. \E x \in S : p .. x \subseteq S /\ p <= x /\ x + 1 \notin S
    BY <1>3, <1>5
<1> QED BY <1>6 DEF RunEnd

LEMMA BehindIsNext ==
    ASSUME NEW S \in SUBSET AllPorts, NEW q \in Nat, q < NoMore
    PROVE  /\ Behind(S, q) \in S \cup {NoMore} /\ Behind(S, q) > q
           /\ \A r \in S : r > q => Behind(S, q) <= r
<1> DEFINE T == {r \in S : r > q} \cup {NoMore}
<1>1. T \in SUBSET Nat /\ T # {}
    BY NoMoreIsNumber, PortsAreNumbers
<1>2. \E x \in T : \A y \in T : x <= y
    BY <1>1, LeastExists
<1>3. Behind(S, q) \in T /\ \A y \in T : Behind(S, q) <= y
    BY <1>2 DEF Behind, Min
<1> QED BY <1>3

\* One step of the loop, from p, given what is kept behind.
KeptFrom(S, f, p) ==
    IF p = NoMore THEN {}
    ELSE (IF RunEnd(S, p) - p + 1 < RunThreshold THEN p .. RunEnd(S, p) ELSE {})
             \cup f[Behind(S, RunEnd(S, p))]

LastOf(S, n) == {p \in S \cup {NoMore} : p + n >= NoMore}

LEMMA SearchGoesOn ==
    ASSUME NEW S \in SUBSET AllPorts, NEW p \in S
    PROVE  /\ Behind(S, RunEnd(S, p)) \in S \cup {NoMore}
           /\ Behind(S, RunEnd(S, p)) \in Nat /\ p \in Nat
           /\ Behind(S, RunEnd(S, p)) > p
<1>1. RunEnd(S, p) \in S /\ p <= RunEnd(S, p)
    BY RunEnds
<1>2. RunEnd(S, p) \in Nat /\ RunEnd(S, p) < NoMore
    BY <1>1, PortsAreNumbers
<1>3. /\ Behind(S, RunEnd(S, p)) \in S \cup {NoMore}
      /\ Behind(S, RunEnd(S, p)) > RunEnd(S, p)
    BY <1>2, BehindIsNext
<1> QED BY <1>1, <1>2, <1>3, NoMoreIsNumber, PortsAreNumbers

LEMMA KeptExists ==
    ASSUME NEW S \in SUBSET AllPorts
    PROVE  \E f : f = [p \in S \cup {NoMore} |-> KeptFrom(S, f, p)]
<1> DEFINE G == {n \in Nat : \E f : f = [p \in LastOf(S, n) |-> KeptFrom(S, f, p)]}
<1>0. S \cup {NoMore} \subseteq Nat
    BY NoMoreIsNumber DEF AllPorts
<1>1. 0 \in G
    <2> DEFINE f == [p \in LastOf(S, 0) |-> {}]
    <2>1. \A p \in LastOf(S, 0) : p = NoMore
        BY NoMoreIsNumber DEF LastOf, AllPorts
    <2>2. f = [p \in LastOf(S, 0) |-> KeptFrom(S, f, p)]
        BY <2>1 DEF KeptFrom
    <2> HIDE DEF f
    <2> QED BY <2>2
<1>2. ASSUME NEW n \in Nat, n \in G PROVE n + 1 \in G
    <2>1. PICK f : f = [p \in LastOf(S, n) |-> KeptFrom(S, f, p)]
        BY <1>2
    <2> DEFINE g == [p \in LastOf(S, n + 1) |-> IF p \in LastOf(S, n) THEN f[p] ELSE KeptFrom(S, f, p)]
    <2>2. LastOf(S, n) \subseteq LastOf(S, n + 1)
        BY <1>0, NoMoreIsNumber DEF LastOf
    <2>3. ASSUME NEW p \in LastOf(S, n + 1), p # NoMore
          PROVE  Behind(S, RunEnd(S, p)) \in LastOf(S, n)
        <3>1. p \in S /\ p + (n + 1) >= NoMore
            BY <2>3 DEF LastOf
        <3>2. /\ Behind(S, RunEnd(S, p)) \in S \cup {NoMore}
              /\ Behind(S, RunEnd(S, p)) \in Nat /\ p \in Nat
              /\ Behind(S, RunEnd(S, p)) > p
            BY <3>1, SearchGoesOn
        <3> QED BY <3>1, <3>2, NoMoreIsNumber DEF LastOf
    <2>4. ASSUME NEW p \in LastOf(S, n + 1)
          PROVE  g[p] = KeptFrom(S, g, p)
        <3>1. g[p] = KeptFrom(S, f, p)
            BY <2>1
        <3>2. p # NoMore => g[Behind(S, RunEnd(S, p))] = f[Behind(S, RunEnd(S, p))]
            BY <2>2, <2>3
        <3> HIDE DEF g
        <3> QED BY <3>1, <3>2 DEF KeptFrom
    <2>5. DOMAIN g = LastOf(S, n + 1) /\ g = [p \in DOMAIN g |-> g[p]]
        OBVIOUS
    <2> HIDE DEF g
    <2>6. g = [p \in LastOf(S, n + 1) |-> KeptFrom(S, g, p)]
        BY <2>4, <2>5
    <2> QED BY <2>6
<1> HIDE DEF G
<1>3. Nat \subseteq G
    BY <1>1, <1>2, NumbersInduct
<1>4. NoMore \in G
    BY <1>3, NoMoreIsNumber
<1>5. LastOf(S, NoMore) = S \cup {NoMore}
    BY <1>0, NoMoreIsNumber DEF LastOf
<1> QED BY <1>4, <1>5 DEF G

\* Part of a block of four.
InBlock(S, q) == \E first \in q - 3 .. q : first .. first + 3 \subseteq S

\* In the run that begins at p, all are part of a block or none is.
LEMMA RunsAreBlocks ==
    ASSUME NEW S \in SUBSET AllPorts, NEW p \in S, p - 1 \notin S, NEW q \in p .. RunEnd(S, p)
    PROVE  InBlock(S, q) <=> RunEnd(S, p) - p + 1 >= 4
<1> DEFINE e == RunEnd(S, p)
<1>1. /\ e \in S /\ e + 1 \notin S /\ p <= e /\ p .. e \subseteq S
      /\ p \in Nat /\ e \in Nat /\ q \in Nat /\ p <= q /\ q <= e
    <2>1. e \in S /\ e + 1 \notin S /\ p <= e /\ p .. e \subseteq S
        BY RunEnds
    <2>2. q \in p .. e
        OBVIOUS
    <2> HIDE DEF e
    <2> QED BY <2>1, <2>2, PortsAreNumbers
<1> HIDE DEF e
<1>2. ASSUME NEW first \in q - 3 .. q, first .. first + 3 \subseteq S
      PROVE  e - p + 1 >= 4
    <2>1. first >= p
        <3> SUFFICES ASSUME first < p PROVE FALSE
            BY <1>1
        <3>1. p - 1 \in first .. first + 3
            BY <1>1
        <3> QED BY <1>2, <3>1
    <2>2. first + 3 <= e
        <3> SUFFICES ASSUME first + 3 > e PROVE FALSE
            BY <1>1
        <3>1. e + 1 \in first .. first + 3
            BY <1>1
        <3> QED BY <1>1, <1>2, <3>1
    <2> QED BY <1>1, <2>1, <2>2
<1>3. ASSUME e - p + 1 >= 4
      PROVE  InBlock(S, q)
    <2> DEFINE first == IF q <= e - 3 THEN q ELSE e - 3
    <2>1. first \in q - 3 .. q /\ first >= p /\ first + 3 <= e
        BY <1>1, <1>3
    <2> HIDE DEF first
    <2>2. first .. first + 3 \subseteq p .. e
        BY <1>1, <2>1
    <2>3. first .. first + 3 \subseteq S
        BY <1>1, <2>2
    <2> QED BY <2>1, <2>3 DEF InBlock
<1> QED BY <1>2, <1>3 DEF InBlock, e

LEMMA KeptIsShort ==
    ASSUME NEW S \in SUBSET AllPorts, NEW f, f = [p \in S \cup {NoMore} |-> KeptFrom(S, f, p)]
    PROVE  \A p \in S \cup {NoMore} : p - 1 \notin S \/ p = NoMore =>
               f[p] = {q \in S : q >= p /\ ~InBlock(S, q)}
<1> DEFINE Good(p) == f[p] = {q \in S : q >= p /\ ~InBlock(S, q)}
           Starts(n) == {p \in LastOf(S, n) : p - 1 \notin S \/ p = NoMore}
           G == {n \in Nat : \A p \in Starts(n) : Good(p)}
<1>0. S \cup {NoMore} \subseteq Nat /\ \A q \in S : q < NoMore
    BY NoMoreIsNumber DEF AllPorts
<1>1. Good(NoMore)
    <2>1. f[NoMore] = {}
        BY DEF KeptFrom
    <2> QED BY <1>0, <2>1
<1>2. 0 \in G
    <2>1. \A p \in LastOf(S, 0) : p = NoMore
        BY NoMoreIsNumber DEF LastOf, AllPorts
    <2> HIDE DEF Good
    <2> QED BY <1>1, <2>1
<1>3. ASSUME NEW n \in Nat, n \in G PROVE n + 1 \in G
    <2> SUFFICES ASSUME NEW p \in Starts(n + 1), p # NoMore PROVE Good(p)
        <3> HIDE DEF Good
        <3> QED BY <1>1
    <2> DEFINE e == RunEnd(S, p)
               r == Behind(S, e)
    <2>1. p \in S /\ p - 1 \notin S /\ p + (n + 1) >= NoMore
        BY DEF LastOf
    <2>2. /\ e \in S /\ e + 1 \notin S /\ p <= e /\ p .. e \subseteq S
        BY <2>1, RunEnds
    <2>3. r \in S \cup {NoMore} /\ r > e /\ \A q \in S : q > e => r <= q
        <3>1. e \in Nat /\ e < NoMore
            BY <1>0, <2>2
        <3> HIDE DEF e
        <3> QED BY <3>1, BehindIsNext
    <2>4. r \in Starts(n)
        <3>1. r \in Nat /\ p \in Nat /\ e \in Nat
            BY <1>0, <2>1, <2>2, <2>3
        <3>2. r + n >= NoMore
            BY <2>1, <2>2, <2>3, <3>1, NoMoreIsNumber
        <3>3. r - 1 \notin S \/ r = NoMore
            <4> SUFFICES ASSUME r - 1 \in S PROVE r = NoMore
                OBVIOUS
            <4>1. ~(r - 1 > e)
                BY <2>3, <3>1
            <4>2. r = e + 1
                BY <2>3, <3>1, <4>1
            <4> HIDE DEF r, e
            <4> QED BY <2>2, <2>3, <4>2
        <3> HIDE DEF r
        <3> QED BY <2>3, <3>2, <3>3 DEF LastOf
    <2>5. f[r] = {q \in S : q >= r /\ ~InBlock(S, q)}
        BY <1>3, <2>4
    <2>6. f[p] = (IF e - p + 1 < 4 THEN p .. e ELSE {}) \cup f[r]
        <3>1. f[p] = KeptFrom(S, f, p)
            BY <2>1
        <3> QED BY <2>1, <1>0, <3>1 DEF KeptFrom, RunThreshold
    <2>7. \A q \in p .. e : InBlock(S, q) <=> e - p + 1 >= 4
        BY <2>1, RunsAreBlocks
    <2> HIDE DEF r, e
    <2>8. p \in Nat /\ e \in Nat /\ r \in Nat /\ S \subseteq Nat
        BY <1>0, <2>1, <2>2, <2>3
    <2>9. \A q \in S : q >= p <=> q \in p .. e \/ q >= r
        BY <2>2, <2>3, <2>8
    <2>10. ASSUME NEW q
           PROVE  q \in f[p] <=> q \in S /\ q >= p /\ ~InBlock(S, q)
        <3>1. CASE q \in p .. e
            <4>1. q \in S /\ q >= p /\ ~(q >= r)
                BY <2>2, <2>3, <2>8, <3>1
            <4>2. InBlock(S, q) <=> e - p + 1 >= 4
                BY <2>7, <3>1
            <4>3. q \in f[p] <=> e - p + 1 < 4
                BY <2>5, <2>6, <3>1, <4>1
            <4> QED BY <2>8, <4>1, <4>2, <4>3
        <3>2. CASE q \notin p .. e
            <4>1. q \in f[p] <=> q \in f[r]
                BY <2>6, <3>2
            <4> QED BY <2>5, <2>9, <3>2, <4>1
        <3> QED BY <3>1, <3>2
    <2>11. \A q \in f[p] : q \in S /\ q >= p /\ ~InBlock(S, q)
        BY <2>10
    <2> QED BY <2>10, <2>11
<1> HIDE DEF G
<1>4. Nat \subseteq G
    BY <1>2, <1>3, NumbersInduct
<1>5. NoMore \in G
    BY <1>4, NoMoreIsNumber
<1>6. LastOf(S, NoMore) = S \cup {NoMore}
    BY <1>0, NoMoreIsNumber DEF LastOf
<1> HIDE DEF Good
<1>7. \A p \in Starts(NoMore) : Good(p)
    BY <1>5 DEF G
<1>8. \A p \in S \cup {NoMore} : p - 1 \notin S \/ p = NoMore => Good(p)
    BY <1>6, <1>7
<1> QED BY <1>8 DEF Good

LEMMA RunsAreDropped ==
    ASSUME NEW S \in SUBSET AllPorts
    PROVE  DropScanRuns(S) = {q \in S : ~InBlock(S, q)}
<1> DEFINE Fits(g) == g = [p \in S \cup {NoMore} |-> KeptFrom(S, g, p)]
           f == CHOOSE g : Fits(g)
           p0 == Behind(S, 0)
<1>1. DropScanRuns(S) = f[p0]
    BY DEF DropScanRuns, KeptFrom
<1>2. Fits(f)
    <2>1. \E g : Fits(g)
        BY KeptExists
    <2> HIDE DEF Fits
    <2> QED BY <2>1
<1> HIDE DEF f
<1>3. p0 \in S \cup {NoMore} /\ p0 > 0 /\ \A r \in S : r > 0 => p0 <= r
    BY BehindIsNext, NoMoreIsNumber
<1> HIDE DEF p0
<1>4. S \subseteq Nat /\ p0 \in Nat /\ \A r \in S : r > 0
    BY <1>3, NoMoreIsNumber DEF AllPorts
<1>5. p0 - 1 \notin S
    <2> SUFFICES ASSUME p0 - 1 \in S PROVE FALSE
        OBVIOUS
    <2> QED BY <1>3, <1>4
<1>6. f[p0] = {q \in S : q >= p0 /\ ~InBlock(S, q)}
    BY <1>2, <1>3, <1>5, KeptIsShort
<1>7. \A q \in S : q >= p0
    BY <1>3, <1>4
<1> QED BY <1>1, <1>6, <1>7

-----------------------------------------------------------------------------

LEMMA WeightIsNumber == \A p : Weight(p) \in Nat
BY DEF Weight

LEMMA WeightsAddUp ==
    ASSUME NEW S, IsFiniteSet(S)
    PROVE  /\ SumFunction([p \in S |-> Weight(p)]) \in Nat
           /\ S = {} => SumFunction([p \in S |-> Weight(p)]) = 0
<1> DEFINE F == [p \in S |-> Weight(p)]
<1>1. DOMAIN F = S /\ Numbers(F, S)
    BY WeightIsNumber DEF Numbers
<1> HIDE DEF F
<1>2. SumFunction(F) = SumFunctionOnSet(F, S)
    BY <1>1 DEF SumFunction
<1>3. SumFunctionOnSet(F, S) \in Nat /\ (S = {} => SumFunctionOnSet(F, S) = 0)
    BY <1>1, SumTyped, SumOfNone
<1>4. SumFunction(F) \in Nat /\ (S = {} => SumFunction(F) = 0)
    BY <1>2, <1>3
<1> QED BY <1>4 DEF F

-----------------------------------------------------------------------------

RiskInv == RiskTypeOK /\ IsFiniteSet(DOMAIN observed)

LEMMA RiskStep ==
    ASSUME RiskInv, [RiskNext]_riskVars
    PROVE  RiskInv'
<1>0. RiskTypeOK /\ IsFiniteSet(DOMAIN observed)
    BY DEF RiskInv
<1>1. ASSUME NEW h \in Hosts, Enlist(h)
      PROVE  RiskInv'
    <2>1. /\ observed' = [x \in DOMAIN observed \cup {h} |-> IF x = h THEN {} ELSE observed[x]]
          /\ UNCHANGED <<log, findings, verified>>
        BY <1>1 DEF Enlist
    <2>2. DOMAIN observed' = DOMAIN observed \cup {h}
        BY <2>1
    <2>3. IsFiniteSet(DOMAIN observed')
        BY <1>0, <2>2, FS_AddElement
    <2> QED BY <1>0, <2>1, <2>3 DEF RiskInv, RiskTypeOK
<1>2. ASSUME NEW h \in Hosts, NEW p \in Ports[h], Observe(h, p)
      PROVE  RiskInv'
    BY <1>0, <1>2 DEF Observe, RiskInv, RiskTypeOK
<1>3. ASSUME NEW e \in LogEntry, LogAlert(e)
      PROVE  RiskInv'
    BY <1>0, <1>3 DEF LogAlert, RiskInv, RiskTypeOK
<1>4. ASSUME NEW f \in Finding, RecordVerdict(f)
      PROVE  RiskInv'
    BY <1>0, <1>4 DEF RecordVerdict, RiskInv, RiskTypeOK
<1>5. ASSUME NEW h \in Hosts, SetVerified(h)
      PROVE  RiskInv'
    BY <1>0, <1>5 DEF SetVerified, RiskInv, RiskTypeOK
<1>6. CASE UNCHANGED riskVars
    BY <1>0, <1>6 DEF riskVars, RiskInv, RiskTypeOK
<1> QED BY <1>1, <1>2, <1>3, <1>4, <1>5, <1>6 DEF RiskNext

LEMMA RiskHolds == RiskSpec => []RiskInv
<1>1. RiskInit => RiskInv
    BY FS_EmptySet DEF RiskInit, RiskInv, RiskTypeOK
<1> QED BY <1>1, RiskStep, PTL DEF RiskSpec

-----------------------------------------------------------------------------

LEMMA ServicesArePorts ==
    ASSUME RiskInv, NEW h \in DOMAIN observed
    PROVE  /\ Services(h) \in SUBSET AllPorts
           /\ IsFiniteSet(DropScanRuns(Services(h)))
           /\ Services(h) = {} => DropScanRuns(Services(h)) = {}
<1>1. h \in Hosts /\ observed[h] \subseteq Ports[h]
    BY DEF RiskInv, RiskTypeOK
<1>2. Ports[h] \in SUBSET (1 .. NoMore - 1)
    BY <1>1, RiskAssumption
<1>3. Services(h) \in SUBSET AllPorts
    BY <1>1, <1>2 DEF Services, AllPorts
<1>4. IsFiniteSet(AllPorts)
    BY NoMoreIsNumber, FS_Interval DEF AllPorts
<1>5. DropScanRuns(Services(h)) \subseteq Services(h)
    BY <1>3, RunsAreDropped
<1>6. IsFiniteSet(DropScanRuns(Services(h)))
    BY <1>3, <1>4, <1>5, FS_Subset
<1> QED BY <1>3, <1>5, <1>6

LEMMA ExposureIsNumber ==
    ASSUME NEW P, IsFiniteSet(P)
    PROVE  Exposure(P) \in Nat /\ (P = {} => Exposure(P) = 0)
<1> DEFINE sum == SumFunction([p \in P |-> Weight(p)])
           more == IF Cardinality(P) > 5 THEN Cardinality(P) - 5 ELSE 0
<1>1. sum \in Nat /\ (P = {} => sum = 0)
    BY WeightsAddUp
<1>2. more \in Nat /\ (P = {} => more = 0)
    BY FS_CardinalityType, FS_EmptySet
<1>3. Exposure(P) = AtMost(60, sum + more)
    BY DEF Exposure
<1> HIDE DEF sum, more
<1> QED BY <1>1, <1>2, <1>3 DEF AtMost

LEMMA ThreatIsNumber ==
    ASSUME NEW level \in 0 .. 4, NEW count \in Nat
    PROVE  Threat(level, count) \in Nat /\ (level = 0 => Threat(level, count) <= 20)
<1>1. LevelScore(level) \in Nat /\ (level = 0 => LevelScore(level) = 0)
    BY DEF LevelScore
<1> QED BY <1>1 DEF Threat, AtMost

LEMMA LevelsAreKnown ==
    ASSUME NEW L \in Seq(LogEntry), NEW h
    PROVE  /\ WorstLevel(h, L) \in 0 .. 4
           /\ AlertCount(h, L) \in Nat
           /\ (\A i \in DOMAIN L : L[i].src # h) => WorstLevel(h, L) = 0
<1> DEFINE mine == {L[i].level : i \in {j \in DOMAIN L : L[j].src = h}}
<1>1. DOMAIN L = 1 .. Len(L) /\ Len(L) \in Nat /\ \A i \in DOMAIN L : L[i] \in LogEntry
    OBVIOUS
<1>2. mine \subseteq 1 .. 4
    BY <1>1, RiskAssumption DEF LogEntry
<1>3. (\A i \in DOMAIN L : L[i].src # h) => mine = {}
    OBVIOUS
<1>4. WorstLevel(h, L) = CHOOSE m \in mine \cup {0} : \A n \in mine : n <= m
    BY DEF WorstLevel
<1> HIDE DEF mine
<1>5. \E m \in mine \cup {0} : \A n \in mine : n <= m
    <2>1. CASE 4 \in mine
        BY <1>2, <2>1
    <2>2. CASE 4 \notin mine /\ 3 \in mine
        BY <1>2, <2>2
    <2>3. CASE 4 \notin mine /\ 3 \notin mine /\ 2 \in mine
        BY <1>2, <2>3
    <2>4. CASE 4 \notin mine /\ 3 \notin mine /\ 2 \notin mine
        <3>1. \A n \in mine : n = 1
            BY <1>2, <2>4
        <3> QED BY <3>1
    <2> QED BY <2>1, <2>2, <2>3, <2>4
<1>6. WorstLevel(h, L) \in mine \cup {0}
    BY <1>4, <1>5
<1>7. AlertCount(h, L) \in Nat
    <2> DEFINE I == {i \in DOMAIN L : h \in {L[i].src, L[i].dst}}
    <2>0. I \subseteq 1 .. Len(L)
        BY <1>1
    <2> HIDE DEF I
    <2>1. I \in SUBSET (1 .. Len(L)) /\ IsFiniteSet(1 .. Len(L))
        BY <1>1, <2>0, FS_Interval
    <2>2. IsFiniteSet(I)
        BY <2>1, FS_Subset
    <2>3. Cardinality(I) \in Nat
        BY <2>2, FS_CardinalityType
    <2> QED BY <2>3 DEF AlertCount, I
<1>8. WorstLevel(h, L) \in 0 .. 4
    <2>1. mine \cup {0} \subseteq 0 .. 4
        BY <1>2
    <2> QED BY <1>6, <2>1
<1>9. mine = {} => WorstLevel(h, L) = 0
    BY <1>6
<1> QED BY <1>3, <1>7, <1>8, <1>9

LEMMA IntelIsNumber == \A v, x : Intel(v, x) \in Nat /\ (~x => Intel(v, x) = 0)
BY DEF Intel

\* What a score is made of.
Raw(h, L) == Exposure(DropScanRuns(Services(h))) + Threat(WorstLevel(h, L), AlertCount(h, L))
             + Intel(VerdictOf(h), h \in Peers)

LEMMA RawIsNumber ==
    ASSUME RiskInv, NEW h \in DOMAIN observed, NEW L \in Seq(LogEntry)
    PROVE  /\ Raw(h, L) \in Nat
           /\ \A V : Score(h, L, V) = AtMost(100, IF h \in V THEN (Raw(h, L) * 85) \div 100 ELSE Raw(h, L))
<1>1. Exposure(DropScanRuns(Services(h))) \in Nat
    BY ServicesArePorts, ExposureIsNumber
<1>2. Threat(WorstLevel(h, L), AlertCount(h, L)) \in Nat
    BY LevelsAreKnown, ThreatIsNumber
<1>3. Raw(h, L) \in Nat
    BY <1>1, <1>2, IntelIsNumber DEF Raw
<1>4. \A V : Score(h, L, V) = AtMost(100, IF h \in V THEN (Raw(h, L) * 85) \div 100 ELSE Raw(h, L))
    BY DEF Score, DeviceScore, Raw
<1> QED BY <1>3, <1>4

LEMMA FactorLowers ==
    ASSUME NEW raw \in Nat
    PROVE  (raw * 85) \div 100 \in Nat /\ (raw * 85) \div 100 <= raw
OBVIOUS

LEMMA VerifiedScoresLess ==
    ASSUME RiskInv, NEW h \in DOMAIN observed, NEW L \in Seq(LogEntry), NEW V, NEW W, V \subseteq W
    PROVE  Score(h, L, W) \in Nat /\ Score(h, L, V) \in Nat /\ Score(h, L, W) <= Score(h, L, V)
<1> DEFINE raw == Raw(h, L)
<1>1. /\ raw \in Nat
      /\ \A U : Score(h, L, U) = AtMost(100, IF h \in U THEN (raw * 85) \div 100 ELSE raw)
    BY RawIsNumber
<1> HIDE DEF raw
<1> DEFINE less == (raw * 85) \div 100
<1>2. less \in Nat /\ less <= raw
    BY <1>1, FactorLowers
<1>3. /\ Score(h, L, W) = AtMost(100, IF h \in W THEN less ELSE raw)
      /\ Score(h, L, V) = AtMost(100, IF h \in V THEN less ELSE raw)
    BY <1>1
<1> HIDE DEF less
<1> QED BY <1>1, <1>2, <1>3 DEF AtMost

-----------------------------------------------------------------------------

LEMMA BlameHolds ==
    ASSUME RiskInv
    PROVE  BlameIsFair
<1> SUFFICES ASSUME NEW h \in Register
             PROVE  /\ Score(h, log, verified) = Score(h, Mild(h), verified)
                    /\ h \notin Peers => Intel(VerdictOf(h), h \in Peers) = 0
                    /\ (/\ h \notin Peers /\ Services(h) = {}
                        /\ \A i \in DOMAIN log : log[i].src # h)
                            => RiskLevel(Score(h, log, verified)) = "low"
    BY DEF BlameIsFair
<1>0. h \in DOMAIN observed /\ log \in Seq(LogEntry) /\ \A i \in DOMAIN log : log[i] \in LogEntry
    BY DEF Register, RiskInv, RiskTypeOK
<1>1. /\ DOMAIN Mild(h) = DOMAIN log
      /\ \A i \in DOMAIN log : /\ Mild(h)[i].src = log[i].src /\ Mild(h)[i].dst = log[i].dst
                               /\ log[i].src = h => Mild(h)[i].level = log[i].level
    BY <1>0 DEF Mild, LogEntry
<1>2. WorstLevel(h, Mild(h)) = WorstLevel(h, log)
    <2>1. {Mild(h)[i].level : i \in {j \in DOMAIN Mild(h) : Mild(h)[j].src = h}}
              = {log[i].level : i \in {j \in DOMAIN log : log[j].src = h}}
        BY <1>1
    <2> QED BY <2>1 DEF WorstLevel
<1>3. AlertCount(h, Mild(h)) = AlertCount(h, log)
    <2>1. {i \in DOMAIN Mild(h) : h \in {Mild(h)[i].src, Mild(h)[i].dst}}
              = {i \in DOMAIN log : h \in {log[i].src, log[i].dst}}
        BY <1>1
    <2> QED BY <2>1 DEF AlertCount
<1>4. Score(h, log, verified) = Score(h, Mild(h), verified)
    BY <1>2, <1>3 DEF Score
<1>5. ASSUME h \notin Peers, Services(h) = {}, \A i \in DOMAIN log : log[i].src # h
      PROVE  RiskLevel(Score(h, log, verified)) = "low"
    <2>1. Exposure(DropScanRuns(Services(h))) = 0
        BY <1>0, <1>5, ServicesArePorts, ExposureIsNumber
    <2>2. WorstLevel(h, log) = 0 /\ AlertCount(h, log) \in Nat
        BY <1>0, <1>5, LevelsAreKnown
    <2>3. Threat(WorstLevel(h, log), AlertCount(h, log)) \in Nat
          /\ Threat(WorstLevel(h, log), AlertCount(h, log)) <= 20
        BY <2>2, ThreatIsNumber
    <2>4. Intel(VerdictOf(h), h \in Peers) = 0
        BY <1>5, IntelIsNumber
    <2>5. Raw(h, log) \in Nat /\ Raw(h, log) <= 20
        BY <2>1, <2>3, <2>4 DEF Raw
    <2>6. Score(h, log, verified)
              = AtMost(100, IF h \in verified THEN (Raw(h, log) * 85) \div 100 ELSE Raw(h, log))
        BY <1>0, RawIsNumber
    <2>7. (Raw(h, log) * 85) \div 100 \in Nat /\ (Raw(h, log) * 85) \div 100 <= Raw(h, log)
        BY <2>5, FactorLowers
    <2>8. Score(h, log, verified) \in Nat /\ Score(h, log, verified) <= 20
        BY <2>5, <2>6, <2>7 DEF AtMost
    <2> QED BY <2>8 DEF RiskLevel
<1> QED BY <1>4, <1>5, IntelIsNumber

LEMMA DroppingHolds ==
    ASSUME RiskInv
    PROVE  OnlyRunsAreDropped
<1> SUFFICES ASSUME NEW h \in DOMAIN observed
             PROVE  DropScanRuns(Services(h)) =
                        {p \in Services(h) : ~\E first \in p - 3 .. p : first .. first + 3 \subseteq Services(h)}
    BY DEF OnlyRunsAreDropped
<1>1. Services(h) \in SUBSET AllPorts
    BY ServicesArePorts
<1> HIDE DEF Services
<1> QED BY <1>1, RunsAreDropped DEF InBlock

LEMMA VerifyingHolds ==
    ASSUME RiskInv
    PROVE  VerifyingHelps
<1> SUFFICES ASSUME NEW h \in Register
             PROVE  /\ Compliance(log, verified \cup {h}) >= Compliance(log, verified)
                    /\ \A g \in Register : Score(g, log, verified \cup {h}) <= Score(g, log, verified)
    BY DEF VerifyingHelps
<1> DEFINE V == verified
           W == verified \cup {h}
           before == Controls(log, V)
           after  == Controls(log, W)
<1>0. log \in Seq(LogEntry) /\ Register \subseteq DOMAIN observed /\ Owned \subseteq DOMAIN observed
      /\ IsFiniteSet(DOMAIN observed)
    BY DEF RiskInv, RiskTypeOK, Register, Owned
<1>1. \A g \in Register : /\ Score(g, log, W) \in Nat /\ Score(g, log, V) \in Nat
                          /\ Score(g, log, W) <= Score(g, log, V)
    BY <1>0, VerifiedScoresLess
<1>2. AtRisk(log, W) \subseteq AtRisk(log, V)
    <2> SUFFICES ASSUME NEW g \in Register, RiskLevel(Score(g, log, W)) \in {"high", "critical"}
                 PROVE  RiskLevel(Score(g, log, V)) \in {"high", "critical"}
        BY DEF AtRisk
    <2>1. \A n \in Nat : RiskLevel(n) \in {"high", "critical"} <=> n >= 50
        BY DEF RiskLevel
    <2> QED BY <1>1, <2>1
<1>3. Cardinality(Owned) \in Nat /\ Cardinality(Owned \cap V) \in Nat /\ Cardinality(Owned \cap W) \in Nat
      /\ Cardinality(Owned \cap V) <= Cardinality(Owned \cap W)
    <2>1. IsFiniteSet(Owned)
        BY <1>0, FS_Subset
    <2>2. IsFiniteSet(Owned \cap V) /\ IsFiniteSet(Owned \cap W)
        BY <2>1, FS_Intersection
    <2>3. Owned \cap V \subseteq Owned \cap W
        OBVIOUS
    <2> QED BY <2>1, <2>2, <2>3, FS_Subset, FS_CardinalityType
<1>4. /\ before.inventory = "pass" => after.inventory = "pass"
      /\ before.services = after.services /\ before.logging = after.logging
      /\ before.admin = "pass" => after.admin = "pass"
      /\ before.defense = "pass" => after.defense = "pass"
    <2>1. before.inventory = "pass" => after.inventory = "pass"
        BY <1>3 DEF Controls
    <2>2. before.services = after.services /\ before.logging = after.logging
        BY DEF Controls
    <2>3. before.admin = "pass" => after.admin = "pass"
        BY DEF Controls
    <2>4. before.defense = "pass" => after.defense = "pass"
        BY <1>2 DEF Controls
    <2> QED BY <2>1, <2>2, <2>3, <2>4
<1> DEFINE Names == {"inventory", "services", "admin", "logging", "defense"}
           P == {c \in Names : before[c] = "pass"}
           Q == {c \in Names : after[c] = "pass"}
<1>5. DOMAIN before = Names /\ DOMAIN after = Names
    BY DEF Controls
<1>6. P \subseteq Q
    <2> HIDE DEF before, after
    <2> QED BY <1>4
<1>7. IsFiniteSet(Names)
    <2>1. /\ IsFiniteSet({"inventory"}) /\ IsFiniteSet({"services"}) /\ IsFiniteSet({"admin"})
          /\ IsFiniteSet({"logging"}) /\ IsFiniteSet({"defense"})
        BY FS_Singleton
    <2>2. IsFiniteSet({"inventory"} \cup {"services"} \cup {"admin"} \cup {"logging"} \cup {"defense"})
        BY <2>1, FS_Union
    <2>3. Names = {"inventory"} \cup {"services"} \cup {"admin"} \cup {"logging"} \cup {"defense"}
        OBVIOUS
    <2> QED BY <2>2, <2>3
<1>8. IsFiniteSet(Q)
    BY <1>7, FS_Subset
<1>9. Cardinality(P) <= Cardinality(Q) /\ Cardinality(P) \in Nat /\ Cardinality(Q) \in Nat
    BY <1>6, <1>8, FS_Subset, FS_CardinalityType
<1>10. Compliance(log, V) = 20 * Cardinality(P) /\ Compliance(log, W) = 20 * Cardinality(Q)
    BY <1>5 DEF Compliance
<1> HIDE DEF P, Q
<1>11. Compliance(log, W) >= Compliance(log, V)
    BY <1>9, <1>10
<1> QED BY <1>1, <1>11

\* grc/risk.py and _build_grc_assessment: no device is scored for what others
\* did, exactly the runs of four and more ports are dropped, and verifying a
\* device makes nothing look worse, for any ports, alerts and verdicts.
THEOREM RegisterSound == RiskSpec => []RegisterIsSound
<1>1. RiskInv => RegisterIsSound
    BY BlameHolds, DroppingHolds, VerifyingHolds DEF RegisterIsSound
<1> QED BY <1>1, RiskHolds, PTL

-----------------------------------------------------------------------------
(* The capture of flows.                                                    *)

LEMMA FiniteImage ==
    ASSUME NEW S, IsFiniteSet(S), NEW h
    PROVE  IsFiniteSet({h[x] : x \in S})
<1> DEFINE r == [x \in S |-> h[x]]
<1>1. r \in Surjection(S, {h[x] : x \in S})
    BY DEF Surjection
<1> QED BY <1>1, FS_Surjection

LEMMA FiniteHasGreatest ==
    ASSUME NEW S, IsFiniteSet(S), S \subseteq Nat, S # {}
    PROVE  Max(S) \in S /\ \A y \in S : y <= Max(S)
<1> DEFINE P == {s \in SUBSET S : s = {} \/ \E x \in s : \A y \in s : y <= x}
<1>1. {} \in P
    OBVIOUS
<1>2. ASSUME NEW s \in SUBSET S, NEW x \in S, s \in P, x \notin s
      PROVE  s \cup {x} \in P
    <2>1. CASE s = {}
        BY <2>1
    <2>2. CASE s # {}
        <3>1. PICK z \in s : \A y \in s : y <= z
            BY <1>2, <2>2
        <3>2. CASE z <= x
            <4>1. \A y \in s \cup {x} : y <= x
                BY <3>1, <3>2
            <4> QED BY <4>1
        <3>3. CASE ~(z <= x)
            <4>1. \A y \in s \cup {x} : y <= z
                BY <3>1, <3>3
            <4> QED BY <3>1, <4>1
        <3> QED BY <3>2, <3>3
    <2> QED BY <2>1, <2>2
<1> HIDE DEF P
<1>3. S \in P
    BY <1>1, <1>2, FiniteInduct
<1>4. \E x \in S : \A y \in S : x >= y
    BY <1>3 DEF P
<1> QED BY <1>4 DEF Max

\* The least and the greatest of the parts are those of the whole.
LEMMA LeastOfParts ==
    ASSUME NEW A \in SUBSET Nat, NEW B \in SUBSET A, B # {}, \A a \in A : \E b \in B : b <= a
    PROVE  Min(B) = Min(A)
<1>1. Min(A) \in A /\ (\A a \in A : Min(A) <= a) /\ Min(B) \in B /\ \A b \in B : Min(B) <= b
    BY MinIsLeast
<1>2. PICK b \in B : b <= Min(A)
    BY <1>1
<1>3. Min(A) <= Min(B) /\ Min(B) <= b
    BY <1>1
<1>4. Min(A) \in Nat /\ Min(B) \in Nat /\ b \in Nat
    BY <1>1
<1> QED BY <1>2, <1>3, <1>4

LEMMA GreatestOfParts ==
    ASSUME NEW A \in SUBSET Nat, IsFiniteSet(A), NEW B \in SUBSET A, B # {}, \A a \in A : \E b \in B : a <= b
    PROVE  Max(B) = Max(A)
<1>1. IsFiniteSet(B)
    BY FS_Subset
<1>2. Max(A) \in A /\ (\A a \in A : a <= Max(A)) /\ Max(B) \in B /\ \A b \in B : b <= Max(B)
    BY <1>1, FiniteHasGreatest
<1>3. PICK b \in B : Max(A) <= b
    BY <1>2
<1>4. Max(B) <= Max(A) /\ b <= Max(B)
    BY <1>2
<1>5. Max(A) \in Nat /\ Max(B) \in Nat /\ b \in Nat
    BY <1>2
<1> QED BY <1>3, <1>4, <1>5

LEMMA SumOver ==
    ASSUME NEW f, NEW S, DOMAIN f = S, IsFiniteSet(S), NEW F, \A x \in S : f[x] = F[x] /\ F[x] \in Nat
    PROVE  SumFunction(f) = SumFunctionOnSet(F, S)
<1>1. SumFunctionOnSet(F, S) = SumFunctionOnSet(f, S)
    BY SumSame DEF Numbers
<1> QED BY <1>1 DEF SumFunction

LEMMA CountedOnes ==
    ASSUME NEW D, NEW S \in SUBSET D, IsFiniteSet(S)
    PROVE  SumFunctionOnSet([x \in D |-> 1], S) = Cardinality(S)
<1> DEFINE F == [x \in D |-> 1]
<1>1. \A x \in S : F[x] = 1
    OBVIOUS
<1> HIDE DEF F
<1>2. SumFunctionOnSet(F, S) = Cardinality(S) * 1
    BY <1>1, SumOfEqual
<1>3. Cardinality(S) \in Nat
    BY FS_CardinalityType
<1>4. SumFunctionOnSet(F, S) = Cardinality(S)
    BY <1>2, <1>3
<1> QED BY <1>4 DEF F

\* What the flows f and the names h are after the lines L.
SentIn(L)    == {i \in DOMAIN L : L[i].src \in Network}
PartIn(L, k) == {i \in SentIn(L) : FlowKey(L[i]) = k}
LenIn(L)     == [i \in DOMAIN L |-> L[i].len]
NamedIn(L)   == {i \in SentIn(L) : L[i].name # ""}

FlowCounts(L, k, r) ==
    /\ r.packets = Cardinality(PartIn(L, k)) /\ r.bytes = SumFunctionOnSet(LenIn(L), PartIn(L, k))
    /\ r.first \in {L[i].ts : i \in PartIn(L, k)} /\ \A i \in PartIn(L, k) : r.first <= L[i].ts
    /\ r.last \in {L[i].ts : i \in PartIn(L, k)} /\ \A i \in PartIn(L, k) : L[i].ts <= r.last

FlowsOk(L, f) ==
    /\ DOMAIN f = {FlowKey(L[i]) : i \in SentIn(L)} /\ f = [k \in DOMAIN f |-> f[k]]
    /\ \A k \in DOMAIN f : FlowCounts(L, k, f[k])

FirstNamed(L, c, i) ==
    /\ i \in NamedIn(L) /\ Connection(L[i]) = c
    /\ \A j \in NamedIn(L) : Connection(L[j]) = c => j = i \/ i < j

HintsOk(L, h) ==
    /\ DOMAIN h = {Connection(L[i]) : i \in NamedIn(L)}
    /\ \A c \in DOMAIN h : \E i \in NamedIn(L) : FirstNamed(L, c, i) /\ h[c] = L[i].name

CaptureInv == lines \in Seq(Packets) /\ FlowsOk(lines, flows) /\ HintsOk(lines, domain_hints)

LEMMA LinesAreFinite ==
    ASSUME NEW L \in Seq(Packets)
    PROVE  /\ IsFiniteSet(SentIn(L)) /\ SentIn(L) \subseteq DOMAIN L /\ DOMAIN L = 1 .. Len(L) /\ Len(L) \in Nat
           /\ \A k : IsFiniteSet(PartIn(L, k)) /\ PartIn(L, k) \subseteq SentIn(L)
           /\ \A i \in DOMAIN L : L[i] \in Packets /\ LenIn(L)[i] = L[i].len /\ LenIn(L)[i] \in Nat /\ L[i].ts \in Nat
<1>1. DOMAIN L = 1 .. Len(L) /\ Len(L) \in Nat /\ \A i \in DOMAIN L : L[i] \in Packets
    OBVIOUS
<1>2. IsFiniteSet(1 .. Len(L))
    BY <1>1, FS_Interval
<1>3. SentIn(L) \subseteq DOMAIN L
    BY DEF SentIn
<1>4. IsFiniteSet(SentIn(L))
    BY <1>1, <1>2, <1>3, FS_Subset
<1>5. \A k : PartIn(L, k) \subseteq SentIn(L)
    BY DEF PartIn
<1>6. \A k : IsFiniteSet(PartIn(L, k))
    BY <1>4, <1>5, FS_Subset
<1>7. \A i \in DOMAIN L : LenIn(L)[i] = L[i].len /\ LenIn(L)[i] \in Nat /\ L[i].ts \in Nat
    BY <1>1, FlowCaptureAssumption DEF LenIn
<1> QED BY <1>1, <1>3, <1>4, <1>5, <1>6, <1>7

\* M is L with p as its line n.
Extends(M, n, L, p) ==
    /\ M \in Seq(Packets) /\ DOMAIN M = DOMAIN L \cup {n} /\ n \notin DOMAIN L /\ n \in Nat
    /\ M[n] = p /\ \A i \in DOMAIN L : M[i] = L[i] /\ i < n /\ i \in Nat
    /\ SentIn(M) = SentIn(L) \cup (IF p.src \in Network THEN {n} ELSE {})
    /\ \A k : PartIn(M, k) = PartIn(L, k) \cup (IF p.src \in Network /\ FlowKey(p) = k THEN {n} ELSE {})
    /\ NamedIn(M) = NamedIn(L) \cup (IF p.src \in Network /\ p.name # "" THEN {n} ELSE {})

LEMMA LineIsAppended ==
    ASSUME NEW L \in Seq(Packets), NEW p \in Packets
    PROVE  Extends(Append(L, p), Len(L) + 1, L, p)
<1> DEFINE M == Append(L, p)
           n == Len(L) + 1
<1>1. /\ M \in Seq(Packets) /\ DOMAIN M = DOMAIN L \cup {n} /\ n \notin DOMAIN L /\ n \in Nat
      /\ M[n] = p /\ \A i \in DOMAIN L : M[i] = L[i] /\ i < n /\ i \in Nat
    <2>1. DOMAIN L = 1 .. Len(L) /\ Len(L) \in Nat /\ DOMAIN M = 1 .. n /\ M \in Seq(Packets)
        OBVIOUS
    <2>2. M[n] = p /\ \A i \in DOMAIN L : M[i] = L[i]
        OBVIOUS
    <2> HIDE DEF M
    <2> QED BY <2>1, <2>2
<1> HIDE DEF M, n
<1>2. SentIn(M) = SentIn(L) \cup (IF p.src \in Network THEN {n} ELSE {})
    BY <1>1 DEF SentIn
<1>3. SentIn(L) \subseteq DOMAIN L
    BY DEF SentIn
<1>4. \A k : PartIn(M, k) = PartIn(L, k) \cup (IF p.src \in Network /\ FlowKey(p) = k THEN {n} ELSE {})
    <2> TAKE k
    <2>1. \A i \in SentIn(L) : FlowKey(M[i]) = FlowKey(L[i])
        BY <1>1, <1>3
    <2>2. FlowKey(M[n]) = FlowKey(p)
        BY <1>1
    <2> QED BY <1>2, <2>1, <2>2 DEF PartIn
<1>5. NamedIn(M) = NamedIn(L) \cup (IF p.src \in Network /\ p.name # "" THEN {n} ELSE {})
    BY <1>1, <1>2, <1>3 DEF NamedIn
<1> QED BY <1>1, <1>2, <1>4, <1>5 DEF Extends, M, n

LEMMA FlowIsCounted ==
    ASSUME NEW L \in Seq(Packets), NEW f, FlowsOk(L, f), NEW p \in Packets, p.src \in Network,
           NEW M, NEW n, Extends(M, n, L, p)
    PROVE  FlowCounts(M, FlowKey(p), Counted(IF FlowKey(p) \in DOMAIN f THEN f[FlowKey(p)] ELSE NewFlow(p), p))
<1> DEFINE k == FlowKey(p)
           old == IF k \in DOMAIN f THEN f[k] ELSE NewFlow(p)
           new == Counted(old, p)
<1>1. /\ M \in Seq(Packets) /\ DOMAIN M = DOMAIN L \cup {n} /\ n \notin DOMAIN L
      /\ M[n] = p /\ \A i \in DOMAIN L : M[i] = L[i]
      /\ PartIn(M, k) = PartIn(L, k) \cup {n} /\ n \in DOMAIN M
    <2>1. PartIn(M, k) = PartIn(L, k) \cup {n}
        BY DEF Extends
    <2> QED BY <2>1 DEF Extends
<1>2. /\ IsFiniteSet(PartIn(L, k)) /\ PartIn(L, k) \subseteq DOMAIN L
      /\ IsFiniteSet(PartIn(M, k)) /\ PartIn(M, k) \subseteq DOMAIN M
      /\ \A i \in DOMAIN L : LenIn(L)[i] = L[i].len /\ LenIn(L)[i] \in Nat /\ L[i].ts \in Nat
      /\ \A i \in DOMAIN M : LenIn(M)[i] = M[i].len /\ LenIn(M)[i] \in Nat /\ M[i].ts \in Nat
    BY <1>1, LinesAreFinite
<1>3. k \notin DOMAIN f => PartIn(L, k) = {}
    BY DEF FlowsOk, PartIn
<1>4. /\ old.packets = Cardinality(PartIn(L, k)) /\ old.bytes = SumFunctionOnSet(LenIn(L), PartIn(L, k))
      /\ old.first \in {L[i].ts : i \in PartIn(L, k)} \cup {p.ts}
      /\ old.last \in {L[i].ts : i \in PartIn(L, k)} \cup {p.ts}
      /\ \A i \in PartIn(L, k) : old.first <= L[i].ts /\ L[i].ts <= old.last
    <2>1. CASE k \in DOMAIN f
        BY <2>1 DEF FlowsOk, FlowCounts
    <2>2. CASE k \notin DOMAIN f
        BY <1>3, <2>2, FS_EmptySet, SumOfNone DEF NewFlow
    <2> QED BY <2>1, <2>2
<1> HIDE DEF k, old
<1>5. new.packets = Cardinality(PartIn(M, k))
    <2>1. Cardinality(PartIn(L, k) \cup {n}) = Cardinality(PartIn(L, k)) + 1
        BY <1>1, <1>2, FS_AddElement
    <2> QED BY <1>1, <1>4, <2>1 DEF Counted
<1>6. new.bytes = SumFunctionOnSet(LenIn(M), PartIn(M, k))
    <2>1. SumFunctionOnSet(LenIn(M), PartIn(L, k) \cup {n})
              = SumFunctionOnSet(LenIn(M), PartIn(L, k)) + LenIn(M)[n]
        BY <1>1, <1>2, SumAdds DEF Numbers
    <2>2. SumFunctionOnSet(LenIn(L), PartIn(L, k)) = SumFunctionOnSet(LenIn(M), PartIn(L, k))
        BY <1>1, <1>2, SumSame DEF Numbers
    <2>3. LenIn(M)[n] = p.len
        BY <1>1, <1>2
    <2> QED BY <1>1, <1>4, <2>1, <2>2, <2>3 DEF Counted
<1>7. {M[i].ts : i \in PartIn(M, k)} = {L[i].ts : i \in PartIn(L, k)} \cup {p.ts}
    BY <1>1, <1>2
<1>8. p.ts \in Nat /\ old.first \in Nat /\ old.last \in Nat
    BY <1>1, <1>2, <1>4
<1>9. /\ new.first \in {old.first, p.ts} /\ new.first <= old.first /\ new.first <= p.ts
      /\ new.last \in {old.last, p.ts} /\ old.last <= new.last /\ p.ts <= new.last
    BY <1>8 DEF Counted
<1> HIDE DEF new
<1>10. new.first \in {M[i].ts : i \in PartIn(M, k)} /\ new.last \in {M[i].ts : i \in PartIn(M, k)}
    BY <1>4, <1>7, <1>9
<1>11. \A i \in PartIn(M, k) : new.first <= M[i].ts /\ M[i].ts <= new.last
    <2> TAKE i \in PartIn(M, k)
    <2>1. CASE i = n
        BY <1>1, <1>9, <2>1
    <2>2. CASE i \in PartIn(L, k)
        <3>1. M[i].ts = L[i].ts /\ L[i].ts \in Nat
            BY <1>1, <1>2, <2>2
        <3>2. old.first <= L[i].ts /\ L[i].ts <= old.last
            BY <1>4, <2>2
        <3>3. new.first \in Nat /\ new.last \in Nat
            BY <1>8, <1>9
        <3> QED BY <1>8, <1>9, <3>1, <3>2, <3>3
    <2> QED BY <1>1, <2>1, <2>2
<1> QED BY <1>5, <1>6, <1>10, <1>11 DEF FlowCounts, k, old, new

LEMMA FlowsStep ==
    ASSUME NEW L \in Seq(Packets), NEW f, FlowsOk(L, f), NEW p \in Packets,
           NEW M, NEW n, Extends(M, n, L, p), NEW g,
           g = IF p.src \notin Network THEN f
               ELSE AddTo(f, FlowKey(p), Counted(IF FlowKey(p) \in DOMAIN f THEN f[FlowKey(p)]
                                                 ELSE NewFlow(p), p))
    PROVE  FlowsOk(M, g)
<1> DEFINE k == FlowKey(p)
           r == Counted(IF k \in DOMAIN f THEN f[k] ELSE NewFlow(p), p)
<1>0. p.src \in Network => FlowCounts(M, k, r)
    BY FlowIsCounted
<1>1. /\ M \in Seq(Packets) /\ DOMAIN M = DOMAIN L \cup {n} /\ n \notin DOMAIN L
      /\ M[n] = p /\ \A i \in DOMAIN L : M[i] = L[i]
      /\ SentIn(M) = SentIn(L) \cup (IF p.src \in Network THEN {n} ELSE {})
      /\ \A j : PartIn(M, j) = PartIn(L, j) \cup (IF p.src \in Network /\ k = j THEN {n} ELSE {})
    BY DEF Extends
<1>2. /\ \A j : IsFiniteSet(PartIn(L, j)) /\ PartIn(L, j) \subseteq DOMAIN L
      /\ \A i \in DOMAIN L : LenIn(L)[i] = L[i].len /\ LenIn(L)[i] \in Nat
      /\ \A i \in DOMAIN M : LenIn(M)[i] = M[i].len
      /\ SentIn(L) \subseteq DOMAIN L
    BY <1>1, LinesAreFinite
<1>a. g = IF p.src \notin Network THEN f ELSE AddTo(f, k, r)
    OBVIOUS
<1> HIDE DEF r, k
<1>3. ASSUME NEW j, ~(p.src \in Network /\ k = j), FlowCounts(L, j, f[j]) PROVE FlowCounts(M, j, f[j])
    <2>1. PartIn(M, j) = PartIn(L, j)
        BY <1>1, <1>3
    <2>2. \A i \in PartIn(L, j) : M[i] = L[i]
        BY <1>1, <1>2
    <2>3. SumFunctionOnSet(LenIn(L), PartIn(L, j)) = SumFunctionOnSet(LenIn(M), PartIn(L, j))
        BY <1>1, <1>2, SumSame DEF Numbers
    <2>4. {M[i].ts : i \in PartIn(M, j)} = {L[i].ts : i \in PartIn(L, j)}
        BY <2>1, <2>2
    <2> QED BY <1>3, <2>1, <2>2, <2>3, <2>4 DEF FlowCounts
<1>4. {FlowKey(M[i]) : i \in SentIn(M)}
          = {FlowKey(L[i]) : i \in SentIn(L)} \cup (IF p.src \in Network THEN {k} ELSE {})
    <2>1. \A i \in SentIn(L) : FlowKey(M[i]) = FlowKey(L[i])
        BY <1>1, <1>2
    <2>2. FlowKey(M[n]) = k
        BY <1>1 DEF k
    <2> QED BY <1>1, <2>1, <2>2
<1>5. FlowsOk(M, g)
    <2>1. CASE p.src \notin Network
        <3>1. g = f
            BY <1>a, <2>1
        <3>2. DOMAIN f = {FlowKey(M[i]) : i \in SentIn(M)} /\ f = [j \in DOMAIN f |-> f[j]]
            BY <1>4, <2>1 DEF FlowsOk
        <3>3. \A j \in DOMAIN f : FlowCounts(M, j, f[j])
            BY <1>3, <2>1 DEF FlowsOk
        <3> QED BY <3>1, <3>2, <3>3 DEF FlowsOk
    <2>2. CASE p.src \in Network
        <3>1. g = [j \in DOMAIN f \cup {k} |-> IF j = k THEN r ELSE f[j]]
            BY <1>a, <2>2 DEF AddTo
        <3>2. DOMAIN g = DOMAIN f \cup {k} /\ g = [j \in DOMAIN g |-> g[j]]
            BY <3>1
        <3>3. \A j \in DOMAIN f \cup {k} : g[j] = IF j = k THEN r ELSE f[j]
            BY <3>1
        <3>4. DOMAIN g = {FlowKey(M[i]) : i \in SentIn(M)}
            BY <1>4, <2>2, <3>2 DEF FlowsOk
        <3>5. ASSUME NEW j \in DOMAIN g PROVE FlowCounts(M, j, g[j])
            <4>1. CASE j = k
                BY <1>0, <2>2, <3>2, <3>3, <4>1
            <4>2. CASE j # k
                <5>1. j \in DOMAIN f /\ g[j] = f[j]
                    BY <3>2, <3>3, <3>5, <4>2
                <5>2. FlowCounts(L, j, f[j])
                    BY <5>1 DEF FlowsOk
                <5> QED BY <1>3, <4>2, <5>1, <5>2
            <4> QED BY <4>1, <4>2
        <3> QED BY <3>2, <3>4, <3>5 DEF FlowsOk
    <2> QED BY <2>1, <2>2
<1> QED BY <1>5

LEMMA HintsStep ==
    ASSUME NEW L \in Seq(Packets), NEW h, HintsOk(L, h), NEW p \in Packets,
           NEW M, NEW n, Extends(M, n, L, p), NEW g,
           g = IF p.src \notin Network \/ p.name = "" \/ Connection(p) \in DOMAIN h THEN h
               ELSE AddTo(h, Connection(p), p.name)
    PROVE  HintsOk(M, g)
<1> DEFINE c == Connection(p)
<1>1. /\ M \in Seq(Packets) /\ DOMAIN M = DOMAIN L \cup {n} /\ n \notin DOMAIN L /\ n \in Nat
      /\ M[n] = p /\ \A i \in DOMAIN L : M[i] = L[i] /\ i < n /\ i \in Nat
      /\ NamedIn(M) = NamedIn(L) \cup (IF p.src \in Network /\ p.name # "" THEN {n} ELSE {})
    BY DEF Extends
<1>2. NamedIn(L) \subseteq DOMAIN L
    BY DEF NamedIn, SentIn
<1>3. /\ Connection(M[n]) = c
      /\ \A i \in NamedIn(L) : Connection(M[i]) = Connection(L[i]) /\ M[i].name = L[i].name /\ i < n
    <2>1. Connection(M[n]) = c
        BY <1>1
    <2>2. \A i \in NamedIn(L) : M[i] = L[i] /\ i < n
        BY <1>1, <1>2
    <2> QED BY <2>1, <2>2
<1>a. g = IF p.src \notin Network \/ p.name = "" \/ c \in DOMAIN h THEN h ELSE AddTo(h, c, p.name)
    OBVIOUS
<1> HIDE DEF c
<1>4. {Connection(M[i]) : i \in NamedIn(M)}
          = {Connection(L[i]) : i \in NamedIn(L)} \cup (IF p.src \in Network /\ p.name # "" THEN {c} ELSE {})
    BY <1>1, <1>3
<1>5. DOMAIN h = {Connection(L[i]) : i \in NamedIn(L)}
    BY DEF HintsOk
<1>6. DOMAIN g = {Connection(M[i]) : i \in NamedIn(M)}
    BY <1>a, <1>4, <1>5 DEF AddTo
<1>7. ASSUME NEW d \in DOMAIN h
      PROVE  \E i \in NamedIn(M) : FirstNamed(M, d, i) /\ h[d] = M[i].name
    <2>1. PICK i \in NamedIn(L) : FirstNamed(L, d, i) /\ h[d] = L[i].name
        BY DEF HintsOk
    <2>2. FirstNamed(M, d, i)
        BY <1>1, <1>3, <2>1 DEF FirstNamed
    <2> QED BY <1>1, <1>3, <2>1, <2>2
<1>8. ASSUME NEW d \in DOMAIN g
      PROVE  \E i \in NamedIn(M) : FirstNamed(M, d, i) /\ g[d] = M[i].name
    <2>1. CASE d \in DOMAIN h
        <3>1. g[d] = h[d]
            BY <1>a, <2>1 DEF AddTo
        <3> QED BY <1>7, <2>1, <3>1
    <2>2. CASE d \notin DOMAIN h
        <3>1. p.src \in Network /\ p.name # "" /\ d = c /\ g[d] = p.name
            BY <1>a, <2>2 DEF AddTo
        <3>2. n \in NamedIn(M) /\ M[n].name = p.name
            BY <1>1, <3>1
        <3>3. \A j \in NamedIn(M) : Connection(M[j]) = d => j = n
            <4> SUFFICES ASSUME NEW j \in NamedIn(M), Connection(M[j]) = d, j # n PROVE FALSE
                OBVIOUS
            <4>1. j \in NamedIn(L)
                BY <1>1
            <4>2. Connection(L[j]) = d
                BY <1>3, <4>1
            <4> QED BY <1>5, <2>2, <4>1, <4>2
        <3> QED BY <1>3, <3>1, <3>2, <3>3 DEF FirstNamed
    <2> QED BY <2>1, <2>2
<1>9. HintsOk(M, g)
    <2> QED BY <1>6, <1>8 DEF HintsOk
<1> QED BY <1>9

LEMMA CaptureStart ==
    ASSUME lines' = << >>, flows' = [k \in {} |-> 0], domain_hints' = [k \in {} |-> ""]
    PROVE  CaptureInv'
<1>1. SentIn(<< >>) = {} /\ NamedIn(<< >>) = {}
    BY DEF SentIn, NamedIn
<1>2. FlowsOk(<< >>, [k \in {} |-> 0]) /\ HintsOk(<< >>, [k \in {} |-> ""])
    BY <1>1 DEF FlowsOk, HintsOk
<1> QED BY <1>2 DEF CaptureInv

LEMMA PacketIsRead ==
    ASSUME CaptureInv, CaptureNext
    PROVE  CaptureInv'
<1>1. PICK p \in Packets : ReadPacket(p)
    BY DEF CaptureNext
<1>0. Extends(lines', Len(lines) + 1, lines, p) /\ lines \in Seq(Packets)
    <2>1. lines \in Seq(Packets)
        BY DEF CaptureInv
    <2>2. Extends(Append(lines, p), Len(lines) + 1, lines, p)
        BY <2>1, LineIsAppended
    <2>3. lines' = Append(lines, p)
        BY <1>1 DEF ReadPacket
    <2> QED BY <2>1, <2>2, <2>3
<1>2. FlowsOk(lines', flows')
    <2>1. flows' = IF p.src \notin Network THEN flows
                   ELSE AddTo(flows, FlowKey(p),
                              Counted(IF FlowKey(p) \in DOMAIN flows THEN flows[FlowKey(p)]
                                      ELSE NewFlow(p), p))
        BY <1>1 DEF ReadPacket
    <2> QED BY <1>0, <2>1, FlowsStep DEF CaptureInv
<1>3. HintsOk(lines', domain_hints')
    <2>1. domain_hints' = IF p.src \notin Network \/ p.name = "" \/ Connection(p) \in DOMAIN domain_hints
                          THEN domain_hints ELSE AddTo(domain_hints, Connection(p), p.name)
        BY <1>1 DEF ReadPacket
    <2> QED BY <1>0, <2>1, HintsStep DEF CaptureInv
<1>4. lines' \in Seq(Packets)
    <2>1. lines \in Seq(Packets)
        BY DEF CaptureInv
    <2>2. Extends(Append(lines, p), Len(lines) + 1, lines, p)
        BY <2>1, LineIsAppended
    <2>3. lines' = Append(lines, p)
        BY <1>1 DEF ReadPacket
    <2> QED BY <2>1, <2>2, <2>3
<1> QED BY <1>2, <1>3, <1>4 DEF CaptureInv

-----------------------------------------------------------------------------

\* The lines of one connection are the parts its flows count, and no line is in two.
PartsOf(c, mine, parts) ==
    /\ c \in {Connection(lines[i]) : i \in SentIn(lines)}
    /\ mine = {i \in SentIn(lines) : Connection(lines[i]) = c}
    /\ parts = {k \in DOMAIN flows : k[1] = c}

AddUpTo(parts, mine) ==
    /\ SumFunction([k \in parts |-> flows[k].packets]) = Cardinality(mine)
    /\ SumFunction([k \in parts |-> flows[k].bytes]) = SumFunction([i \in mine |-> lines[i].len])
    /\ Min({flows[k].first : k \in parts}) = Min({lines[i].ts : i \in mine})
    /\ Max({flows[k].last : k \in parts}) = Max({lines[i].ts : i \in mine})

LEMMA PartsOfConnection ==
    ASSUME CaptureInv, NEW c, NEW mine, NEW parts, PartsOf(c, mine, parts)
    PROVE  /\ mine # {} /\ IsFiniteSet(mine) /\ IsFiniteSet(parts) /\ mine \subseteq DOMAIN lines
           /\ \A i \in mine : FlowKey(lines[i]) \in parts
           /\ \A k \in parts : PartIn(lines, k) = {i \in mine : FlowKey(lines[i]) = k}
           /\ \A k \in parts : FlowCounts(lines, k, flows[k]) /\ PartIn(lines, k) # {}
<1>1. /\ IsFiniteSet(SentIn(lines)) /\ SentIn(lines) \subseteq DOMAIN lines
      /\ DOMAIN flows = {FlowKey(lines[i]) : i \in SentIn(lines)}
      /\ \A k \in DOMAIN flows : FlowCounts(lines, k, flows[k])
    BY LinesAreFinite DEF CaptureInv, FlowsOk
<1>2. \A i \in SentIn(lines) : FlowKey(lines[i])[1] = Connection(lines[i])
    BY DEF FlowKey
<1>3. IsFiniteSet(mine) /\ mine # {} /\ mine \subseteq DOMAIN lines
    BY <1>1, FS_Subset DEF PartsOf
<1>4. IsFiniteSet(parts)
    <2> DEFINE key == [i \in SentIn(lines) |-> FlowKey(lines[i])]
    <2>1. IsFiniteSet({key[i] : i \in SentIn(lines)})
        <3> HIDE DEF key
        <3> QED BY <1>1, FiniteImage
    <2>2. parts \subseteq {key[i] : i \in SentIn(lines)}
        BY <1>1 DEF PartsOf
    <2> QED BY <2>1, <2>2, FS_Subset
<1>5. \A i \in mine : FlowKey(lines[i]) \in parts
    BY <1>1, <1>2 DEF PartsOf
<1>6. \A k \in parts : PartIn(lines, k) = {i \in mine : FlowKey(lines[i]) = k}
    BY <1>2 DEF PartIn, PartsOf
<1>7. \A k \in parts : PartIn(lines, k) # {}
    BY <1>1 DEF PartIn, PartsOf
<1>8. \A k \in parts : FlowCounts(lines, k, flows[k])
    BY <1>1 DEF PartsOf
<1> QED BY <1>3, <1>4, <1>5, <1>6, <1>7, <1>8

LEMMA PartsAddUpTo ==
    ASSUME CaptureInv, NEW c, NEW mine, NEW parts, PartsOf(c, mine, parts)
    PROVE  AddUpTo(parts, mine)
<1> DEFINE key == [i \in mine |-> FlowKey(lines[i])]
<1>1. /\ mine # {} /\ IsFiniteSet(mine) /\ IsFiniteSet(parts) /\ mine \subseteq DOMAIN lines
      /\ \A i \in mine : key[i] \in parts /\ i \in PartIn(lines, key[i])
      /\ \A k \in parts : PartIn(lines, k) = Group(mine, key, k)
      /\ \A k \in parts : FlowCounts(lines, k, flows[k]) /\ PartIn(lines, k) # {}
    <2>1. /\ mine # {} /\ IsFiniteSet(mine) /\ IsFiniteSet(parts) /\ mine \subseteq DOMAIN lines
          /\ \A i \in mine : FlowKey(lines[i]) \in parts
          /\ \A k \in parts : PartIn(lines, k) = {i \in mine : FlowKey(lines[i]) = k}
          /\ \A k \in parts : FlowCounts(lines, k, flows[k]) /\ PartIn(lines, k) # {}
        BY PartsOfConnection
    <2>2. \A i \in mine : key[i] \in parts /\ i \in PartIn(lines, key[i])
        BY <2>1
    <2>3. \A k \in parts : Group(mine, key, k) = {i \in mine : FlowKey(lines[i]) = k}
        BY DEF Group
    <2> QED BY <2>1, <2>2, <2>3
<1>2. \A i \in mine : LenIn(lines)[i] = lines[i].len /\ LenIn(lines)[i] \in Nat /\ lines[i].ts \in Nat
    BY <1>1, LinesAreFinite DEF CaptureInv
<1> HIDE DEF key
<1>3. \A k \in parts : /\ PartIn(lines, k) \subseteq mine /\ IsFiniteSet(PartIn(lines, k))
                       /\ flows[k].packets = Cardinality(PartIn(lines, k))
                       /\ flows[k].bytes = SumFunctionOnSet(LenIn(lines), PartIn(lines, k))
    <2>1. \A k \in parts : PartIn(lines, k) \subseteq mine
        BY <1>1 DEF Group
    <2> QED BY <1>1, <2>1, FS_Subset DEF FlowCounts
<1>4. SumFunction([k \in parts |-> flows[k].packets]) = Cardinality(mine)
    <2> DEFINE one == [i \in mine |-> 1]
               G == [k \in parts |-> flows[k].packets]
    <2>1. \A k \in parts : G[k] = SumFunctionOnSet(one, Group(mine, key, k))
        <3> SUFFICES ASSUME NEW k \in parts PROVE G[k] = SumFunctionOnSet(one, Group(mine, key, k))
            OBVIOUS
        <3>1. G[k] = Cardinality(PartIn(lines, k)) /\ PartIn(lines, k) \in SUBSET mine
              /\ IsFiniteSet(PartIn(lines, k)) /\ PartIn(lines, k) = Group(mine, key, k)
            BY <1>1, <1>3
        <3>2. SumFunctionOnSet(one, PartIn(lines, k)) = Cardinality(PartIn(lines, k))
            BY <3>1, CountedOnes
        <3> QED BY <3>1, <3>2
    <2>2. Numbers(one, mine) /\ \A i \in mine : key[i] \in parts
        BY <1>1 DEF Numbers
    <2>3. DOMAIN G = parts
        OBVIOUS
    <2>4. SumFunctionOnSet(one, mine) = Cardinality(mine)
        BY <1>1, CountedOnes
    <2> HIDE DEF one, G
    <2>5. SumFunctionOnSet(one, mine) = SumFunctionOnSet(G, parts)
        BY <1>1, <2>1, <2>2, SumRegroups DEF Grouped
    <2> QED BY <2>3, <2>4, <2>5 DEF SumFunction, G
<1>5. SumFunction([k \in parts |-> flows[k].bytes]) = SumFunction([i \in mine |-> lines[i].len])
    <2> DEFINE F == [i \in mine |-> lines[i].len]
               G == [k \in parts |-> flows[k].bytes]
    <2>1. DOMAIN F = mine /\ DOMAIN G = parts /\ \A i \in mine : F[i] = LenIn(lines)[i]
        BY <1>2
    <2>2. \A k \in parts : G[k] = SumFunctionOnSet(LenIn(lines), Group(mine, key, k))
        BY <1>1, <1>3
    <2> HIDE DEF F, G
    <2>3. Numbers(LenIn(lines), mine) /\ \A i \in mine : key[i] \in parts
        BY <1>1, <1>2 DEF Numbers
    <2>4. SumFunctionOnSet(LenIn(lines), mine) = SumFunctionOnSet(G, parts)
        BY <1>1, <2>2, <2>3, SumRegroups DEF Grouped
    <2>5. SumFunction(F) = SumFunctionOnSet(LenIn(lines), mine)
        BY <1>1, <1>2, <2>1, SumOver
    <2> QED BY <2>1, <2>4, <2>5 DEF SumFunction, F, G
<1> DEFINE times == {lines[i].ts : i \in mine}
           firsts == {flows[k].first : k \in parts}
           lasts == {flows[k].last : k \in parts}
<1>6. times \in SUBSET Nat /\ IsFiniteSet(times) /\ firsts \in SUBSET times /\ lasts \in SUBSET times
      /\ firsts # {} /\ lasts # {}
    <2>1. times \in SUBSET Nat
        BY <1>2
    <2>2. IsFiniteSet(times)
        <3> DEFINE at == [i \in mine |-> lines[i].ts]
        <3>1. {at[i] : i \in mine} = times
            OBVIOUS
        <3> HIDE DEF at
        <3>2. IsFiniteSet({at[i] : i \in mine})
            BY <1>1, FiniteImage
        <3> QED BY <3>1, <3>2
    <2>3. \A k \in parts : flows[k].first \in times /\ flows[k].last \in times
        BY <1>1, <1>3 DEF FlowCounts
    <2>4. parts # {}
        BY <1>1
    <2> QED BY <2>1, <2>2, <2>3, <2>4
<1>7. \A a \in times : (\E b \in firsts : b <= a) /\ (\E b \in lasts : a <= b)
    <2> SUFFICES ASSUME NEW i \in mine
                 PROVE  (\E b \in firsts : b <= lines[i].ts) /\ (\E b \in lasts : lines[i].ts <= b)
        OBVIOUS
    <2>1. key[i] \in parts /\ flows[key[i]].first <= lines[i].ts /\ lines[i].ts <= flows[key[i]].last
        BY <1>1 DEF FlowCounts
    <2> QED BY <2>1
<1>8. Min(firsts) = Min(times) /\ Max(lasts) = Max(times)
    <2> HIDE DEF firsts, lasts, times
    <2> QED BY <1>6, <1>7, LeastOfParts, GreatestOfParts
<1> QED BY <1>4, <1>5, <1>8 DEF AddUpTo

\* The name of a flow is the first that was seen on its connection.
LEMMA NamesAreFirst ==
    ASSUME CaptureInv, NEW c, NEW named, named = {i \in NamedIn(lines) : Connection(lines[i]) = c},
           NEW k, k[1] = c
    PROVE  DomainOf(k) = IF named = {} THEN "none" ELSE lines[Min(named)].name
<1>1. DOMAIN domain_hints = {Connection(lines[i]) : i \in NamedIn(lines)}
    BY DEF CaptureInv, HintsOk
<1>2. CASE named = {}
    <2>1. c \notin DOMAIN domain_hints
        BY <1>1, <1>2
    <2> QED BY <1>2, <2>1 DEF DomainOf
<1>3. CASE named # {}
    <2>1. c \in DOMAIN domain_hints
        BY <1>1, <1>3
    <2>2. PICK i \in NamedIn(lines) : FirstNamed(lines, c, i) /\ domain_hints[c] = lines[i].name
        BY <2>1 DEF CaptureInv, HintsOk
    <2>3. i \in named /\ \A j \in named : j = i \/ i < j
        BY <2>2 DEF FirstNamed
    <2>4. named \in SUBSET Nat
        <3>1. SentIn(lines) \subseteq DOMAIN lines /\ DOMAIN lines = 1 .. Len(lines)
            BY LinesAreFinite DEF CaptureInv
        <3>2. SentIn(lines) \subseteq Nat
            BY <3>1
        <3>3. named \subseteq SentIn(lines)
            BY DEF NamedIn
        <3> QED BY <3>2, <3>3
    <2>5. Min(named) = i
        <3>1. Min(named) \in named /\ \A y \in named : Min(named) <= y
            BY <1>3, <2>4, MinIsLeast
        <3>2. Min(named) \in Nat /\ i \in Nat /\ Min(named) <= i /\ (Min(named) = i \/ i < Min(named))
            BY <2>3, <2>4, <3>1
        <3> QED BY <3>2
    <2> QED BY <1>3, <2>1, <2>2, <2>5 DEF DomainOf
<1> QED BY <1>2, <1>3

LEMMA PartsHold ==
    ASSUME CaptureInv
    PROVE  PartsAddUp
<1> SUFFICES ASSUME NEW c \in {Connection(lines[i]) : i \in SentIn(lines)}
             PROVE  LET mine  == {i \in SentIn(lines) : Connection(lines[i]) = c}
                        parts == {k \in DOMAIN flows : k[1] = c}
                        named == {i \in mine : lines[i].name # ""}
                    IN  /\ AddUpTo(parts, mine)
                        /\ \A k \in parts :
                               DomainOf(k) = IF named = {} THEN "none" ELSE lines[Min(named)].name
    BY DEF PartsAddUp, SentIn, AddUpTo
<1> DEFINE mine  == {i \in SentIn(lines) : Connection(lines[i]) = c}
           parts == {k \in DOMAIN flows : k[1] = c}
           named == {i \in mine : lines[i].name # ""}
<1>1. PartsOf(c, mine, parts)
    BY DEF PartsOf
<1>2. named = {i \in NamedIn(lines) : Connection(lines[i]) = c} /\ \A k \in parts : k[1] = c
    BY DEF NamedIn
<1> HIDE DEF mine, parts, named
<1>3. AddUpTo(parts, mine)
    BY <1>1, PartsAddUpTo
<1>4. \A k \in parts : DomainOf(k) = IF named = {} THEN "none" ELSE lines[Min(named)].name
    BY <1>2, NamesAreFirst
<1> QED BY <1>3, <1>4 DEF mine, parts, named

-----------------------------------------------------------------------------
(* The table of the flows.                                                  *)

\* A row holds what the packets R of its report, with its key, add up to; the rows
\* are those of the packets reported within the retention of the last report.
RowIn(R, j)    == <<j[1], FlowKey(R[j].packet)>>
RecentIn(R)    == {j \in DOMAIN R : \A k \in DOMAIN R : R[k].at <= R[j].at + KeepFlows}
BehindIn(R, i) == {j \in RecentIn(R) : RowIn(R, j) = i}
SizeIn(R)      == [j \in DOMAIN R |-> R[j].packet.len]

RowCounts(R, i, r) ==
    /\ r.key = i[2] /\ r.bytes = SumFunctionOnSet(SizeIn(R), BehindIn(R, i))
    /\ r.packets = Cardinality(BehindIn(R, i)) /\ \A j \in BehindIn(R, i) : R[j].at = r.at

RowsOk(R, T) ==
    /\ DOMAIN T = {RowIn(R, j) : j \in RecentIn(R)}
    /\ \A i \in DOMAIN T : RowCounts(R, i, T[i])

ReportedOk(R, n, last) ==
    /\ IsFiniteSet(DOMAIN R)
    /\ \A j \in DOMAIN R : /\ j[1] \in 1 .. n /\ R[j].packet \in Packets
                           /\ R[j].packet.src \in Network /\ R[j].at \in 0 .. last
    /\ \A j, k \in DOMAIN R : j[1] = k[1] => R[j].at = R[k].at

StoreInv ==
    /\ CaptureInv /\ oclock \in Nat /\ reports \in Nat
    /\ ReportedOk(reported, reports, oclock) /\ RowsOk(reported, rows)

LEMMA CardinalityRenames ==
    ASSUME NEW S, IsFiniteSet(S), NEW h, \A x, y \in S : h[x] = h[y] => x = y
    PROVE  IsFiniteSet(ImageOf(h, S)) /\ Cardinality(ImageOf(h, S)) = Cardinality(S)
<1> DEFINE f == [x \in S |-> h[x]]
           T == {h[x] : x \in S}
<1>1. f \in [S -> T] /\ \A x \in S : f[x] = h[x]
    OBVIOUS
<1>2. \A t \in T : \E x \in S : f[x] = t
    OBVIOUS
<1> HIDE DEF f, T
<1>3. f \in Injection(S, T)
    BY <1>1 DEF Injection, IsInjective
<1>4. f \in Surjection(S, T)
    BY <1>1, <1>2 DEF Surjection
<1>5. ExistsBijection(S, T)
    BY <1>3, <1>4 DEF ExistsBijection, Bijection
<1>6. IsFiniteSet(T) /\ Cardinality(T) = Cardinality(S)
    BY <1>5, FS_Bijection
<1> QED BY <1>6 DEF T, ImageOf

\* The report n of the lines L, stored at the hour "last": what is reported then, and
\* the table.
AddReport(R, n, L, last) ==
    [j \in DOMAIN R \cup ({n} \X SentIn(L)) |->
        IF j \in {n} \X SentIn(L) THEN [packet |-> L[j[2]], at |-> last] ELSE R[j]]

NewRow(r, k, f, last) ==
    r.at = last /\ r.key = k /\ r.bytes = f[k].bytes /\ r.packets = f[k].packets

Added(Q, R, n, L, last) ==
    /\ ReportedOk(Q, n, last) /\ DOMAIN Q = DOMAIN R \cup ({n} \X SentIn(L))
    /\ \A j \in DOMAIN R : Q[j] = R[j] /\ j[1] # n /\ RowIn(Q, j) = RowIn(R, j)
    /\ \A i \in SentIn(L) : /\ Q[<<n, i>>].packet = L[i] /\ Q[<<n, i>>].at = last
                            /\ RowIn(Q, <<n, i>>) = <<n, FlowKey(L[i])>>

LEMMA ReportIsAdded ==
    ASSUME NEW R, NEW n \in Nat, NEW last \in Nat, ReportedOk(R, n, last), NEW L \in Seq(Packets)
    PROVE  Added(AddReport(R, n + 1, L, last), R, n + 1, L, last)
<1> DEFINE Q == AddReport(R, n + 1, L, last)
<1> DEFINE new == {n + 1} \X SentIn(L)
<1>1. DOMAIN Q = DOMAIN R \cup new
    BY DEF AddReport
<1>2. \A j \in DOMAIN R : j[1] \in 1 .. n /\ j[1] # n + 1
    BY DEF ReportedOk
<1>3. \A j \in new : j[1] = n + 1 /\ j[2] \in SentIn(L) /\ j = <<n + 1, j[2]>>
    OBVIOUS
<1>4. \A j \in DOMAIN R : Q[j] = R[j]
    BY <1>1, <1>2 DEF AddReport
<1>5. \A j \in new : Q[j].packet = L[j[2]] /\ Q[j].at = last
    BY <1>1 DEF AddReport
<1>6. \A i \in SentIn(L) : <<n + 1, i>> \in new
    OBVIOUS
<1>7. IsFiniteSet(new)
    <2> DEFINE h == [i \in SentIn(L) |-> <<n + 1, i>>]
    <2>1. new = {h[i] : i \in SentIn(L)}
        OBVIOUS
    <2> HIDE DEF h, new
    <2>2. IsFiniteSet(SentIn(L))
        BY LinesAreFinite
    <2>3. IsFiniteSet({h[i] : i \in SentIn(L)})
        BY <2>2, FiniteImage
    <2> QED BY <2>1, <2>3
<1>8. \A i \in SentIn(L) : L[i] \in Packets /\ L[i].src \in Network
    BY LinesAreFinite DEF SentIn
<1> HIDE DEF new, Q
<1>9. ReportedOk(Q, n + 1, last)
    <2>1. IsFiniteSet(DOMAIN Q)
        BY <1>1, <1>7, FS_Union DEF ReportedOk
    <2>2. \A j \in DOMAIN Q : /\ j[1] \in 1 .. n + 1 /\ Q[j].packet \in Packets
                              /\ Q[j].packet.src \in Network /\ Q[j].at \in 0 .. last
        <3>1. \A j \in DOMAIN R : /\ j[1] \in 1 .. n + 1 /\ Q[j].packet \in Packets
                                  /\ Q[j].packet.src \in Network /\ Q[j].at \in 0 .. last
            <4>1. \A j \in DOMAIN R : j[1] \in 1 .. n + 1
                BY <1>2
            <4> QED BY <1>4, <4>1 DEF ReportedOk
        <3>2. \A j \in new : /\ Q[j].packet \in Packets
                             /\ Q[j].packet.src \in Network /\ Q[j].at \in 0 .. last
            <4>1. last \in 0 .. last
                OBVIOUS
            <4> QED BY <1>3, <1>5, <1>8, <4>1
        <3>3. \A j \in new : j[1] \in 1 .. n + 1
            BY <1>3
        <3> QED BY <1>1, <3>1, <3>2, <3>3
    <2>3. \A j, k \in DOMAIN Q : j[1] = k[1] => Q[j].at = Q[k].at
        <3>1. \A j, k \in DOMAIN R : j[1] = k[1] => Q[j].at = Q[k].at
            BY <1>4 DEF ReportedOk
        <3>2. \A j \in new : Q[j].at = last
            BY <1>5
        <3> QED BY <1>1, <1>2, <1>3, <3>1, <3>2
    <2> QED BY <2>1, <2>2, <2>3 DEF ReportedOk
<1>10. \A j \in DOMAIN R : RowIn(Q, j) = RowIn(R, j)
    BY <1>4 DEF RowIn
<1>11. \A i \in SentIn(L) : Q[<<n + 1, i>>].packet = L[i] /\ Q[<<n + 1, i>>].at = last
    BY <1>5, <1>6
<1>12. \A i \in SentIn(L) : RowIn(Q, <<n + 1, i>>) = <<n + 1, FlowKey(L[i])>>
    BY <1>11 DEF RowIn
<1> QED BY <1>1, <1>2, <1>4, <1>9, <1>10, <1>11, <1>12 DEF Added, Q, new

\* After a report that is not empty, recent is what is not too old for it.
LEMMA RecentAfterReport ==
    ASSUME NEW R, NEW m, NEW last \in Nat, ReportedOk(R, m, last),
           NEW L, SentIn(L) # {}, NEW Q, NEW n, Added(Q, R, n, L, last)
    PROVE  /\ RecentIn(Q) = {j \in RecentIn(R) : last <= R[j].at + KeepFlows} \cup ({n} \X SentIn(L))
           /\ \A j \in RecentIn(R) : R[j].at \in Nat
<1> DEFINE new == {n} \X SentIn(L)
<1>1. /\ DOMAIN Q = DOMAIN R \cup new
      /\ \A j \in DOMAIN R : Q[j] = R[j]
      /\ \A i \in SentIn(L) : Q[<<n, i>>].at = last
      /\ \A j \in DOMAIN Q : Q[j].at \in 0 .. last
    BY DEF Added, ReportedOk
<1>2. \A j \in new : Q[j].at = last
    BY <1>1
<1>3. \E j \in new : TRUE
    <2>1. PICK i \in SentIn(L) : TRUE
        OBVIOUS
    <2>2. <<n, i>> \in new
        OBVIOUS
    <2> QED BY <2>2
<1>4. KeepFlows \in Nat
    BY FlowStoreAssumption
<1> HIDE DEF new
<1>5. \A j \in DOMAIN Q : j \in RecentIn(Q) <=> last <= Q[j].at + KeepFlows
    <2> SUFFICES ASSUME NEW j \in DOMAIN Q
                 PROVE  (\A k \in DOMAIN Q : Q[k].at <= Q[j].at + KeepFlows) <=> last <= Q[j].at + KeepFlows
        BY DEF RecentIn
    <2>1. (\A k \in DOMAIN Q : Q[k].at <= Q[j].at + KeepFlows) => last <= Q[j].at + KeepFlows
        BY <1>1, <1>2, <1>3
    <2>2. ASSUME last <= Q[j].at + KeepFlows, NEW k \in DOMAIN Q
          PROVE  Q[k].at <= Q[j].at + KeepFlows
        BY <1>1, <1>4, <2>2
    <2> QED BY <2>1, <2>2
<1>6. \A j \in DOMAIN R : R[j].at \in 0 .. last
    BY DEF ReportedOk
<1>7. \A j \in DOMAIN R : last <= R[j].at + KeepFlows => j \in RecentIn(R)
    BY <1>4, <1>6 DEF RecentIn
<1>8. \A j \in new : last <= Q[j].at + KeepFlows
    BY <1>2, <1>4
<1>9. RecentIn(Q) \subseteq DOMAIN Q /\ RecentIn(R) \subseteq DOMAIN R
    BY DEF RecentIn
<1>10. RecentIn(Q) = {j \in RecentIn(R) : last <= R[j].at + KeepFlows} \cup new
    BY <1>1, <1>5, <1>7, <1>8, <1>9
<1> QED BY <1>6, <1>9, <1>10 DEF new

LEMMA RowsAfterReport ==
    ASSUME NEW R, NEW m, NEW last \in Nat, ReportedOk(R, m, last),
           NEW L \in Seq(Packets), SentIn(L) # {}, NEW Q, NEW n, Added(Q, R, n, L, last),
           NEW T, RowsOk(R, T), NEW f, FlowsOk(L, f), NEW U,
           DOMAIN U = {i \in DOMAIN T : last <= T[i].at + KeepFlows} \cup ({n} \X DOMAIN f),
           \A i \in DOMAIN T : i[1] # n /\ i \in DOMAIN U => U[i] = T[i],
           \A k \in DOMAIN f : NewRow(U[<<n, k>>], k, f, last)
    PROVE  RowsOk(Q, U)
<1> DEFINE new == {n} \X SentIn(L)
<1>1. /\ DOMAIN Q = DOMAIN R \cup new
      /\ \A j \in DOMAIN R : Q[j] = R[j] /\ j[1] # n /\ RowIn(Q, j) = RowIn(R, j)
      /\ \A i \in SentIn(L) : /\ Q[<<n, i>>].packet = L[i] /\ Q[<<n, i>>].at = last
                              /\ RowIn(Q, <<n, i>>) = <<n, FlowKey(L[i])>>
      /\ RecentIn(Q) = {j \in RecentIn(R) : last <= R[j].at + KeepFlows} \cup new
      /\ \A j \in RecentIn(R) : R[j].at \in Nat
      /\ RecentIn(R) \subseteq DOMAIN R
    <2>1. /\ RecentIn(Q) = {j \in RecentIn(R) : last <= R[j].at + KeepFlows} \cup new
          /\ \A j \in RecentIn(R) : R[j].at \in Nat
        BY RecentAfterReport
    <2>2. RecentIn(R) \subseteq DOMAIN R
        BY DEF RecentIn
    <2> QED BY <2>1, <2>2 DEF Added
<1>2. /\ DOMAIN T = {RowIn(R, j) : j \in RecentIn(R)} /\ \A i \in DOMAIN T : RowCounts(R, i, T[i])
      /\ DOMAIN f = {FlowKey(L[i]) : i \in SentIn(L)} /\ \A k \in DOMAIN f : FlowCounts(L, k, f[k])
    BY DEF RowsOk, FlowsOk
<1>3. \A j \in RecentIn(R) : /\ RowIn(R, j) \in DOMAIN T /\ T[RowIn(R, j)].at = R[j].at
                             /\ RowIn(R, j)[1] = j[1] /\ j \in BehindIn(R, RowIn(R, j))
    <2> TAKE j \in RecentIn(R)
    <2>1. RowIn(R, j) \in DOMAIN T /\ j \in BehindIn(R, RowIn(R, j))
        BY <1>2 DEF BehindIn
    <2> QED BY <1>2, <2>1 DEF RowCounts, RowIn
<1>4. \A i \in DOMAIN T : /\ i[1] # n /\ BehindIn(R, i) # {}
                          /\ \A j \in BehindIn(R, i) : j \in RecentIn(R) /\ RowIn(R, j) = i /\ R[j].at = T[i].at
    <2> TAKE i \in DOMAIN T
    <2>1. PICK j \in RecentIn(R) : i = RowIn(R, j)
        BY <1>2
    <2>2. i[1] # n /\ j \in BehindIn(R, i)
        BY <1>1, <1>3, <2>1
    <2>3. \A x \in BehindIn(R, i) : x \in RecentIn(R) /\ RowIn(R, x) = i /\ R[x].at = T[i].at
        BY <1>2 DEF BehindIn, RowCounts
    <2> QED BY <2>2, <2>3
<1>5. \A j \in new : j[1] = n /\ j[2] \in SentIn(L) /\ j = <<n, j[2]>> /\ RowIn(Q, j)[1] = n
    <2>1. \A j \in new : j[1] = n /\ j[2] \in SentIn(L) /\ j = <<n, j[2]>>
        OBVIOUS
    <2> QED BY <2>1 DEF RowIn
<1>6. \A i \in SentIn(L) : <<n, i>> \in new
    OBVIOUS
<1> HIDE DEF new
<1>7. DOMAIN U = {RowIn(Q, j) : j \in RecentIn(Q)}
    <2>1. ASSUME NEW j \in RecentIn(Q) PROVE RowIn(Q, j) \in DOMAIN U
        <3>1. CASE j \in new
            <4>1. RowIn(Q, j) = <<n, FlowKey(L[j[2]])>> /\ j[2] \in SentIn(L)
                BY <1>1, <1>5, <3>1
            <4>2. FlowKey(L[j[2]]) \in DOMAIN f
                BY <1>2, <4>1
            <4> QED BY <4>1, <4>2
        <3>2. CASE j \notin new
            <4>1. j \in RecentIn(R) /\ last <= R[j].at + KeepFlows /\ RowIn(Q, j) = RowIn(R, j)
                BY <1>1, <2>1, <3>2
            <4> QED BY <1>3, <4>1
        <3> QED BY <3>1, <3>2
    <2>2. ASSUME NEW i \in DOMAIN T, last <= T[i].at + KeepFlows
          PROVE  \E j \in RecentIn(Q) : i = RowIn(Q, j)
        <3>1. PICK j \in BehindIn(R, i) : TRUE
            BY <1>4
        <3>2. j \in RecentIn(R) /\ RowIn(R, j) = i /\ R[j].at = T[i].at
            BY <1>4, <3>1
        <3> QED BY <1>1, <2>2, <3>2
    <2>3. ASSUME NEW i \in {n} \X DOMAIN f
          PROVE  \E j \in RecentIn(Q) : i = RowIn(Q, j)
        <3>1. PICK x \in SentIn(L) : i[2] = FlowKey(L[x])
            BY <1>2, <2>3
        <3>2. i = <<n, FlowKey(L[x])>>
            BY <2>3, <3>1
        <3>3. <<n, x>> \in RecentIn(Q) /\ RowIn(Q, <<n, x>>) = i
            BY <1>1, <1>6, <3>2
        <3> QED BY <3>3
    <2> QED BY <2>1, <2>2, <2>3
<1>8. ASSUME NEW i \in DOMAIN T, last <= T[i].at + KeepFlows PROVE RowCounts(Q, i, U[i])
    <2>1. U[i] = T[i] /\ RowCounts(R, i, T[i])
        BY <1>2, <1>4, <1>8
    <2>2. BehindIn(Q, i) = BehindIn(R, i)
        <3>1. \A j \in BehindIn(Q, i) : j \in RecentIn(R) /\ RowIn(R, j) = i
            <4> TAKE j \in BehindIn(Q, i)
            <4>1. j \in RecentIn(Q) /\ RowIn(Q, j) = i
                BY DEF BehindIn
            <4>2. j \notin new
                BY <1>4, <1>5, <4>1
            <4> QED BY <1>1, <4>1, <4>2
        <3>2. \A j \in BehindIn(R, i) : j \in RecentIn(Q) /\ RowIn(Q, j) = i
            BY <1>1, <1>4, <1>8
        <3> QED BY <3>1, <3>2 DEF BehindIn
    <2>3. BehindIn(R, i) \subseteq DOMAIN R /\ IsFiniteSet(BehindIn(R, i))
        <3>1. BehindIn(R, i) \subseteq DOMAIN R
            BY <1>1 DEF BehindIn
        <3> QED BY <3>1, FS_Subset DEF ReportedOk
    <2>4. SumFunctionOnSet(SizeIn(R), BehindIn(R, i)) = SumFunctionOnSet(SizeIn(Q), BehindIn(R, i))
        <3>1. \A j \in BehindIn(R, i) : SizeIn(R)[j] = SizeIn(Q)[j] /\ SizeIn(R)[j] \in Nat
            <4>1. \A j \in DOMAIN R : R[j].packet.len \in Nat
                BY FlowCaptureAssumption DEF ReportedOk
            <4> QED BY <1>1, <2>3, <4>1 DEF SizeIn
        <3> QED BY <2>3, <3>1, SumSame DEF Numbers
    <2>5. \A j \in BehindIn(R, i) : Q[j] = R[j]
        BY <1>1, <2>3
    <2> QED BY <2>1, <2>2, <2>4, <2>5 DEF RowCounts
<1>9. ASSUME NEW k \in DOMAIN f PROVE RowCounts(Q, <<n, k>>, U[<<n, k>>])
    <2> DEFINE i == <<n, k>>
               h == [p \in PartIn(L, k) |-> <<n, p>>]
    <2>1. /\ IsFiniteSet(PartIn(L, k)) /\ PartIn(L, k) \subseteq SentIn(L) /\ SentIn(L) \subseteq DOMAIN L
          /\ \A p \in DOMAIN L : LenIn(L)[p] = L[p].len /\ LenIn(L)[p] \in Nat
        BY LinesAreFinite
    <2>2. \A p \in PartIn(L, k) : FlowKey(L[p]) = k /\ h[p] = <<n, p>> /\ h[p] \in new
        BY <1>6, <2>1 DEF PartIn
    <2>3. \A x, y \in PartIn(L, k) : h[x] = h[y] => x = y
        BY <2>2
    <2>4. FlowCounts(L, k, f[k]) /\ NewRow(U[i], k, f, last) /\ i[2] = k /\ i = <<n, k>>
        BY <1>2
    <2> HIDE DEF h, i
    <2>5. BehindIn(Q, i) = ImageOf(h, PartIn(L, k))
        <3>1. ASSUME NEW j \in BehindIn(Q, i) PROVE \E p \in PartIn(L, k) : j = h[p]
            <4>1. j \in RecentIn(Q) /\ RowIn(Q, j) = i
                BY DEF BehindIn
            <4>2. j[1] = n
                BY <2>4, <4>1 DEF RowIn
            <4>3. j \in new
                BY <1>1, <4>1, <4>2
            <4>4. j[2] \in SentIn(L) /\ j = <<n, j[2]>>
                BY <1>5, <4>3
            <4>5. RowIn(Q, j) = <<n, FlowKey(L[j[2]])>>
                BY <1>1, <4>4
            <4>6. FlowKey(L[j[2]]) = k
                BY <2>4, <4>1, <4>5
            <4>7. j[2] \in PartIn(L, k)
                BY <4>4, <4>6 DEF PartIn
            <4> QED BY <2>2, <4>4, <4>7
        <3>2. ASSUME NEW p \in PartIn(L, k) PROVE h[p] \in BehindIn(Q, i)
            <4>1. h[p] = <<n, p>> /\ h[p] \in new /\ p \in SentIn(L) /\ FlowKey(L[p]) = k
                BY <2>1, <2>2
            <4>2. RowIn(Q, h[p]) = i
                BY <1>1, <2>4, <4>1
            <4>3. h[p] \in RecentIn(Q)
                BY <1>1, <4>1
            <4> QED BY <4>2, <4>3 DEF BehindIn
        <3> QED BY <3>1, <3>2 DEF ImageOf
    <2>6. \A p \in PartIn(L, k) : Q[h[p]].packet = L[p] /\ Q[h[p]].at = last /\ h[p] \in DOMAIN Q
        BY <1>1, <2>1, <2>2
    <2>7. \A p \in PartIn(L, k) : LenIn(L)[p] = SizeIn(Q)[h[p]] /\ LenIn(L)[p] \in Nat
        BY <2>1, <2>6 DEF SizeIn
    <2>8. SumFunctionOnSet(LenIn(L), PartIn(L, k)) = SumFunctionOnSet(SizeIn(Q), ImageOf(h, PartIn(L, k)))
        BY <2>1, <2>3, <2>7, SumRenames DEF Numbers
    <2>9. Cardinality(ImageOf(h, PartIn(L, k))) = Cardinality(PartIn(L, k))
        BY <2>1, <2>3, CardinalityRenames
    <2>10. \A j \in BehindIn(Q, i) : Q[j].at = last
        BY <2>5, <2>6 DEF ImageOf
    <2>11. RowCounts(Q, i, U[i])
        BY <2>4, <2>5, <2>8, <2>9, <2>10 DEF RowCounts, NewRow, FlowCounts
    <2> QED BY <2>11 DEF i
<1>10. \A i \in DOMAIN U : RowCounts(Q, i, U[i])
    <2> TAKE i \in DOMAIN U
    <2>1. CASE i \in DOMAIN T /\ last <= T[i].at + KeepFlows
        BY <1>8, <2>1
    <2>2. CASE i \in {n} \X DOMAIN f
        <3>1. i = <<n, i[2]>> /\ i[2] \in DOMAIN f
            BY <2>2
        <3> QED BY <1>9, <3>1
    <2> QED BY <2>1, <2>2
<1> QED BY <1>7, <1>10 DEF RowsOk

LEMMA RowsAreReported ==
    ASSUME StoreInv, NEW i \in DOMAIN rows
    PROVE  \E j \in BehindIn(reported, i) :
               /\ j \in RecentIn(reported) /\ RowIn(reported, j) = i /\ rows[i].at = reported[j].at
               /\ i[1] \in 1 .. reports /\ rows[i].at \in 0 .. oclock
<1>1. PICK j \in RecentIn(reported) : i = RowIn(reported, j)
    BY DEF StoreInv, RowsOk
<1>2. j \in BehindIn(reported, i) /\ j \in DOMAIN reported
    BY <1>1 DEF BehindIn, RecentIn
<1>3. rows[i].at = reported[j].at
    BY <1>2 DEF StoreInv, RowsOk, RowCounts
<1>4. i[1] = j[1]
    BY <1>1 DEF RowIn
<1> QED BY <1>1, <1>2, <1>3, <1>4 DEF StoreInv, ReportedOk

LEMMA ReportStep ==
    ASSUME StoreInv, InsertReport
    PROVE  StoreInv'
<1> DEFINE n     == reports + 1
           new   == {n} \X DOMAIN flows
           table == [i \in DOMAIN rows \cup new |-> IF i \in new THEN StoredRow(i[2]) ELSE rows[i]]
<1>0. /\ lines \in Seq(Packets) /\ FlowsOk(lines, flows) /\ oclock \in Nat /\ reports \in Nat
      /\ ReportedOk(reported, reports, oclock) /\ RowsOk(reported, rows)
    BY DEF StoreInv, CaptureInv
<1>1. /\ flows # [k \in {} |-> 0] /\ oclock' = oclock /\ reports' = n /\ NewCapture
      /\ rows' = [i \in {r \in DOMAIN table : ~TooOld(table[r])} |-> table[i]]
      /\ reported' = AddReport(reported, n, lines, oclock)
    <2>1. Captured = SentIn(lines)
        BY DEF Captured, SentIn
    <2>2. reported' = AddReport(reported, n, lines, oclock)
        BY <2>1 DEF InsertReport, AddReport
    <2> QED BY <2>2 DEF InsertReport
<1>2. CaptureInv'
    BY <1>1, CaptureStart DEF NewCapture
<1>3. Added(reported', reported, n, lines, oclock)
    BY <1>0, <1>1, ReportIsAdded
<1>4. SentIn(lines) # {}
    <2> SUFFICES ASSUME SentIn(lines) = {} PROVE FALSE
        OBVIOUS
    <2>1. DOMAIN flows = {} /\ flows = [k \in DOMAIN flows |-> flows[k]]
        BY <1>0 DEF FlowsOk
    <2>2. flows = [k \in {} |-> 0]
        BY <2>1
    <2> QED BY <1>1, <2>2
<1>5. \A i \in DOMAIN rows : i[1] # n /\ rows[i].at \in Nat
    <2> TAKE i \in DOMAIN rows
    <2>1. i[1] \in 1 .. reports /\ rows[i].at \in 0 .. oclock
        BY RowsAreReported
    <2> QED BY <1>0, <2>1
<1>6. \A i \in new : i[1] = n /\ i[2] \in DOMAIN flows /\ i = <<n, i[2]>>
    OBVIOUS
<1>7. \A k \in DOMAIN flows : <<n, k>> \in new /\ <<n, k>>[2] = k
    OBVIOUS
<1>8. KeepFlows \in Nat
    BY FlowStoreAssumption
<1>9. DOMAIN table = DOMAIN rows \cup new
    OBVIOUS
<1>10. \A i \in DOMAIN rows : table[i] = rows[i] /\ (~TooOld(table[i]) <=> oclock <= table[i].at + KeepFlows)
    <2> TAKE i \in DOMAIN rows
    <2>1. table[i] = rows[i]
        BY <1>5, <1>6
    <2> HIDE DEF table
    <2> QED BY <1>0, <1>5, <1>8, <2>1 DEF TooOld
<1>11. \A k \in DOMAIN flows : NewRow(table[<<n, k>>], k, flows, oclock) /\ ~TooOld(table[<<n, k>>])
    <2> TAKE k \in DOMAIN flows
    <2>1. table[<<n, k>>] = StoredRow(k)
        BY <1>7
    <2> HIDE DEF table
    <2>2. NewRow(table[<<n, k>>], k, flows, oclock)
        BY <2>1 DEF StoredRow, NewRow
    <2>3. ~TooOld(table[<<n, k>>])
        BY <1>0, <1>8, <2>2 DEF TooOld, NewRow
    <2> QED BY <2>2, <2>3
<1> HIDE DEF table, n, new
<1>12. DOMAIN rows' = {i \in DOMAIN rows : oclock <= rows[i].at + KeepFlows} \cup new
    <2>1. DOMAIN rows' = {r \in DOMAIN table : ~TooOld(table[r])}
        BY <1>1
    <2>2. \A i \in new : ~TooOld(table[i])
        BY <1>6, <1>11
    <2>3. \A i \in DOMAIN rows : i \in {r \in DOMAIN table : ~TooOld(table[r])} <=> oclock <= rows[i].at + KeepFlows
        BY <1>9, <1>10
    <2> QED BY <1>9, <2>1, <2>2, <2>3
<1>13. \A i \in DOMAIN rows' : rows'[i] = table[i]
    BY <1>1
<1>14. RowsOk(reported', rows')
    <2>1. \A i \in DOMAIN rows : i[1] # n /\ i \in DOMAIN rows' => rows'[i] = rows[i]
        BY <1>10, <1>13
    <2>2. \A k \in DOMAIN flows : NewRow(rows'[<<n, k>>], k, flows, oclock)
        BY <1>7, <1>11, <1>12, <1>13
    <2>3. DOMAIN rows' = {i \in DOMAIN rows : oclock <= rows[i].at + KeepFlows} \cup ({n} \X DOMAIN flows)
        BY <1>12 DEF new
    <2> QED BY <1>0, <1>3, <1>4, <2>1, <2>2, <2>3, RowsAfterReport
<1>15. reports' \in Nat /\ ReportedOk(reported', reports', oclock')
    BY <1>0, <1>1, <1>3 DEF Added, n
<1> QED BY <1>0, <1>1, <1>2, <1>14, <1>15 DEF StoreInv

\* insert_report of flow_store.py: a row is the sum of the packets of its report with
\* its key, and the rows are those of the packets within the retention.
THEOREM StoreHolds == StoreSpec => []StoreInv
<1>1. StoreInit => StoreInv
    <2> SUFFICES ASSUME StoreInit PROVE StoreInv
        OBVIOUS
    <2>1. /\ lines = << >> /\ flows = [k \in {} |-> 0] /\ domain_hints = [k \in {} |-> ""]
          /\ oclock = 0 /\ reports = 0 /\ rows = [i \in {} |-> 0] /\ reported = [j \in {} |-> 0]
        BY DEF StoreInit, CaptureInit
    <2>2. SentIn(<< >>) = {} /\ NamedIn(<< >>) = {}
        BY DEF SentIn, NamedIn
    <2>3. CaptureInv
        BY <2>1, <2>2 DEF CaptureInv, FlowsOk, HintsOk
    <2>4. ReportedOk([j \in {} |-> 0], 0, 0)
        BY FS_EmptySet DEF ReportedOk
    <2>5. RowsOk([j \in {} |-> 0], [i \in {} |-> 0])
        BY DEF RowsOk, RecentIn
    <2> QED BY <2>1, <2>3, <2>4, <2>5 DEF StoreInv
<1>2. StoreInv /\ [StoreNext]_storeVars => StoreInv'
    <2> SUFFICES ASSUME StoreInv, [StoreNext]_storeVars PROVE StoreInv'
        OBVIOUS
    <2>1. CASE ReadLine
        <3>1. CaptureInv'
            BY <2>1, PacketIsRead DEF StoreInv, ReadLine
        <3> QED BY <2>1, <3>1 DEF StoreInv, ReadLine
    <2>2. CASE InsertReport
        BY <2>2, ReportStep
    <2>3. CASE DropReport
        <3>1. CaptureInv'
            BY <2>3, CaptureStart DEF DropReport, NewCapture
        <3> QED BY <2>3, <3>1 DEF StoreInv, DropReport
    <2>4. CASE HourPasses
        <3>1. CaptureInv'
            BY <2>4 DEF StoreInv, CaptureInv, HourPasses, captureVars
        <3>2. oclock \in Nat /\ oclock' = oclock + 1 /\ 0 .. oclock \subseteq 0 .. oclock' /\ oclock' \in Nat
            BY <2>4 DEF StoreInv, HourPasses
        <3>3. ReportedOk(reported, reports, oclock')
            BY <3>2 DEF StoreInv, ReportedOk
        <3> QED BY <2>4, <3>1, <3>2, <3>3 DEF StoreInv, HourPasses
    <2>5. CASE UNCHANGED storeVars
        BY <2>5 DEF StoreInv, CaptureInv, storeVars, captureVars
    <2> QED BY <2>1, <2>2, <2>3, <2>4, <2>5 DEF StoreNext
<1> QED BY <1>1, <1>2, PTL DEF StoreSpec

-----------------------------------------------------------------------------
(* The pages.                                                               *)

Recent    == RecentIn(reported)
SentOf(J) == SumFunction([j \in J |-> reported[j].packet.len])
Told(I)   == {j \in Recent : RowIn(reported, j) \in I}

LEMMA TableIsFinite ==
    ASSUME StoreInv
    PROVE  /\ IsFiniteSet(Recent) /\ Recent \subseteq DOMAIN reported
           /\ \A j \in Recent : /\ reported[j].packet \in Packets /\ reported[j].packet.src \in Network
                                /\ reported[j].packet.len \in Nat
                                /\ SizeIn(reported)[j] = reported[j].packet.len
           /\ IsFiniteSet(All) /\ All = {RowIn(reported, j) : j \in Recent}
<1>1. Recent \subseteq DOMAIN reported
    BY DEF Recent, RecentIn
<1>2. IsFiniteSet(Recent)
    BY <1>1, FS_Subset DEF StoreInv, ReportedOk
<1>3. All = {RowIn(reported, j) : j \in Recent}
    BY DEF StoreInv, RowsOk, All, Recent
<1>4. IsFiniteSet(All)
    <2> DEFINE h == [j \in Recent |-> RowIn(reported, j)]
    <2>1. All = {h[j] : j \in Recent}
        BY <1>3
    <2> HIDE DEF h
    <2>2. IsFiniteSet({h[j] : j \in Recent})
        BY <1>2, FiniteImage
    <2> QED BY <2>1, <2>2
<1>5. \A j \in Recent : /\ reported[j].packet \in Packets /\ reported[j].packet.src \in Network
                        /\ reported[j].packet.len \in Nat
    BY <1>1, FlowCaptureAssumption DEF StoreInv, ReportedOk
<1>6. \A j \in Recent : SizeIn(reported)[j] = reported[j].packet.len
    BY <1>1 DEF SizeIn
<1> QED BY <1>1, <1>2, <1>3, <1>4, <1>5, <1>6

\* What is sent is a number, and never less for more packets.
LEMMA SentIsSum ==
    ASSUME StoreInv, NEW J \in SUBSET Recent
    PROVE  /\ SentOf(J) = SumFunctionOnSet(SizeIn(reported), J) /\ SentOf(J) \in Nat
           /\ IsFiniteSet(J) /\ Numbers(SizeIn(reported), J)
<1> DEFINE f == [j \in J |-> reported[j].packet.len]
<1>1. IsFiniteSet(J)
    BY TableIsFinite, FS_Subset
<1>2. \A j \in J : SizeIn(reported)[j] = reported[j].packet.len /\ SizeIn(reported)[j] \in Nat
    BY TableIsFinite
<1>3. Numbers(SizeIn(reported), J)
    BY <1>2 DEF Numbers
<1>4. DOMAIN f = J /\ \A j \in J : f[j] = SizeIn(reported)[j] /\ SizeIn(reported)[j] \in Nat
    BY <1>2
<1> HIDE DEF f
<1>5. SumFunction(f) = SumFunctionOnSet(SizeIn(reported), J)
    BY <1>1, <1>4, SumOver
<1>6. SumFunctionOnSet(SizeIn(reported), J) \in Nat
    BY <1>1, <1>3, SumTyped
<1> QED BY <1>1, <1>3, <1>5, <1>6 DEF SentOf, f

LEMMA SentGrows ==
    ASSUME StoreInv, NEW J \in SUBSET Recent, NEW K \in SUBSET J
    PROVE  SentOf(K) <= SentOf(J) /\ SentOf(K) \in Nat /\ SentOf(J) \in Nat
<1>1. K \in SUBSET Recent
    OBVIOUS
<1>2. /\ SentOf(J) = SumFunctionOnSet(SizeIn(reported), J) /\ SentOf(J) \in Nat
      /\ IsFiniteSet(J) /\ Numbers(SizeIn(reported), J)
      /\ SentOf(K) = SumFunctionOnSet(SizeIn(reported), K) /\ SentOf(K) \in Nat
    BY <1>1, SentIsSum
<1> QED BY <1>2, SumGrows

\* The rows I say what the packets behind them sent.
LEMMA BytesAreSent ==
    ASSUME StoreInv, NEW I \in SUBSET All
    PROVE  Bytes(I) = SentOf(Told(I)) /\ Bytes(I) \in Nat
<1> DEFINE g == [j \in Recent |-> RowIn(reported, j)]
           G == [i \in I |-> rows[i].bytes]
           S == Told(I)
<1>1. S \in SUBSET Recent /\ \A j \in S : g[j] \in I
    BY DEF Told
<1>2. \A i \in I : Group(S, g, i) = BehindIn(reported, i)
    BY DEF Group, Told, BehindIn, Recent
<1>3. \A i \in I : rows[i].bytes = SumFunctionOnSet(SizeIn(reported), BehindIn(reported, i))
    BY DEF StoreInv, RowsOk, RowCounts, All
<1>4. DOMAIN G = I /\ \A i \in I : G[i] = SumFunctionOnSet(SizeIn(reported), Group(S, g, i))
    BY <1>2, <1>3
<1>5. IsFiniteSet(I)
    BY TableIsFinite, FS_Subset
<1> HIDE DEF g, G, S
<1>6. /\ SentOf(S) = SumFunctionOnSet(SizeIn(reported), S) /\ SentOf(S) \in Nat
      /\ IsFiniteSet(S) /\ Numbers(SizeIn(reported), S)
    BY <1>1, SentIsSum
<1>7. SumFunctionOnSet(SizeIn(reported), S) = SumFunctionOnSet(G, I)
    BY <1>1, <1>4, <1>5, <1>6, SumRegroups DEF Grouped
<1>8. Bytes(I) = SumFunctionOnSet(G, I)
    BY <1>4 DEF Bytes, SumFunction, G
<1> QED BY <1>6, <1>7, <1>8 DEF S

LEMMA PacketsAreCounted ==
    ASSUME StoreInv
    PROVE  SumFunction([i \in All |-> rows[i].packets]) = Cardinality(Recent)
<1> DEFINE g == [j \in Recent |-> RowIn(reported, j)]
           G == [i \in All |-> rows[i].packets]
           one == [j \in Recent |-> 1]
<1>0. IsFiniteSet(Recent) /\ IsFiniteSet(All) /\ All = {RowIn(reported, j) : j \in Recent}
    BY TableIsFinite
<1>1. \A j \in Recent : g[j] \in All
    BY <1>0
<1>2. \A i \in All : Group(Recent, g, i) = BehindIn(reported, i) /\ BehindIn(reported, i) \in SUBSET Recent
    BY DEF Group, BehindIn, Recent
<1>3. \A i \in All : rows[i].packets = Cardinality(BehindIn(reported, i))
    BY DEF StoreInv, RowsOk, RowCounts, All
<1>4. \A i \in All : SumFunctionOnSet(one, Group(Recent, g, i)) = Cardinality(BehindIn(reported, i))
    <2> TAKE i \in All
    <2>1. Group(Recent, g, i) \in SUBSET Recent /\ IsFiniteSet(Group(Recent, g, i))
        BY <1>0, <1>2, FS_Subset
    <2>2. SumFunctionOnSet(one, Group(Recent, g, i)) = Cardinality(Group(Recent, g, i))
        BY <2>1, CountedOnes
    <2> QED BY <1>2, <2>2
<1>5. DOMAIN G = All /\ \A i \in All : G[i] = SumFunctionOnSet(one, Group(Recent, g, i))
    BY <1>3, <1>4
<1>6. SumFunctionOnSet(one, Recent) = Cardinality(Recent)
    BY <1>0, CountedOnes
<1>7. Numbers(one, Recent)
    BY DEF Numbers
<1> HIDE DEF g, G, one
<1>8. SumFunctionOnSet(one, Recent) = SumFunctionOnSet(G, All)
    BY <1>0, <1>1, <1>5, <1>7, SumRegroups DEF Grouped
<1> QED BY <1>5, <1>6, <1>8 DEF SumFunction, G

\* The columns of a row are those of the packets behind it.
LEMMA ColumnsAreOfPackets ==
    ASSUME StoreInv, NEW j \in Recent, NEW p, p = reported[j].packet, NEW i, i = RowIn(reported, j)
    PROVE  /\ i \in All /\ Device[i] = p.src /\ Destination[i] = p.dst /\ Port[i] = p.port
           /\ Protocol[i] = ResolveProtocol(p.proto, p.port)
<1>1. i \in All
    BY TableIsFinite
<1>2. rows[i].key = i[2]
    BY <1>1 DEF StoreInv, RowsOk, RowCounts, All
<1>3. i[2] = <<<<p.src, p.dst, p.port>>, ResolveProtocol(p.proto, p.port)>>
    BY DEF RowIn, FlowKey, Connection
<1> QED BY <1>1, <1>2, <1>3 DEF Device, Destination, Port, Protocol

LEMMA RowsHavePackets ==
    ASSUME StoreInv, NEW i \in All
    PROVE  \E j \in Recent : i = RowIn(reported, j)
BY TableIsFinite

\* A query by a column, of the rows where another has a value.
LEMMA GroupIsSent ==
    ASSUME StoreInv, NEW By, NEW g, NEW I \in SUBSET All
    PROVE  /\ BytesOf(By, I, g) = SentOf({j \in Told(I) : By[RowIn(reported, j)] = g})
           /\ BytesOf(By, I, g) \in Nat
<1> DEFINE K == {i \in I : By[i] = g}
<1>1. K \in SUBSET All
    OBVIOUS
<1>2. Told(K) = {j \in Told(I) : By[RowIn(reported, j)] = g}
    BY DEF Told
<1> HIDE DEF K
<1>3. Bytes(K) = SentOf(Told(K)) /\ Bytes(K) \in Nat
    BY <1>1, BytesAreSent
<1> QED BY <1>2, <1>3 DEF BytesOf, K

LEMMA AllIsTold == ASSUME StoreInv PROVE Told(All) = Recent /\ \A I : Told(I) \in SUBSET Recent
BY TableIsFinite DEF Told

\* A list has what it can of the groups, the largest ones.
LEMMA ListingsAreLargest ==
    ASSUME StoreInv, NEW By, NEW I \in SUBSET All, NEW n \in Nat, NEW L \in Listings(By, I, n)
    PROVE  /\ L \in SUBSET Groups(By, I)
           /\ Cardinality(L) < n \/ Cardinality(Groups(By, I)) <= n => L = Groups(By, I)
           /\ \A g \in L, h \in Groups(By, I) \ L : BytesOf(By, I, h) <= BytesOf(By, I, g)
<1> DEFINE groups == Groups(By, I)
           size   == IF Cardinality(groups) < n THEN Cardinality(groups) ELSE n
<1>1. IsFiniteSet(groups) /\ Cardinality(groups) \in Nat
    <2>1. IsFiniteSet(I)
        BY TableIsFinite, FS_Subset
    <2>2. IsFiniteSet({By[i] : i \in I})
        BY <2>1, FiniteImage
    <2> QED BY <2>2, FS_CardinalityType DEF Groups
<1>2. /\ L \in kSubset(size, groups)
      /\ \A g \in L, h \in groups \ L : BytesOf(By, I, h) <= BytesOf(By, I, g)
    BY DEF Listings
<1>3. L \in SUBSET groups /\ Cardinality(L) = size
    BY <1>2 DEF kSubset
<1> HIDE DEF groups
<1>4. Cardinality(L) < n \/ Cardinality(groups) <= n => Cardinality(L) = Cardinality(groups)
    BY <1>1, <1>3
<1>5. Cardinality(L) = Cardinality(groups) => L = groups
    BY <1>1, <1>3, FS_Subset
<1> QED BY <1>2, <1>3, <1>4, <1>5 DEF groups

-----------------------------------------------------------------------------

FromDevice(d) == {j \in Recent : reported[j].packet.src = d}
ProtoOf(j)    == ResolveProtocol(reported[j].packet.proto, reported[j].packet.port)

LEMMA ByColumn ==
    ASSUME StoreInv
    PROVE  /\ \A q : BytesOf(Protocol, All, q) = SentOf({j \in Recent : ProtoOf(j) = q})
           /\ \A q : BytesOf(Device, All, q) = SentOf(FromDevice(q))
           /\ \A q : BytesOf(Destination, All, q) = SentOf({j \in Recent : reported[j].packet.dst = q})
           /\ \A q : BytesOf(Port, All, q) = SentOf({j \in Recent : reported[j].packet.port = q})
           /\ \A q : FromDevice(q) \in SUBSET Recent
<1>1. Told(All) = Recent
    BY AllIsTold
<1>2. \A By, q : BytesOf(By, All, q) = SentOf({j \in Recent : By[RowIn(reported, j)] = q})
    BY <1>1, GroupIsSent
<1>3. \A j \in Recent : /\ Device[RowIn(reported, j)] = reported[j].packet.src
                        /\ Destination[RowIn(reported, j)] = reported[j].packet.dst
                        /\ Port[RowIn(reported, j)] = reported[j].packet.port
                        /\ Protocol[RowIn(reported, j)] = ProtoOf(j)
    BY ColumnsAreOfPackets DEF ProtoOf
<1>4. ASSUME NEW q
      PROVE  /\ {j \in Recent : Protocol[RowIn(reported, j)] = q} = {j \in Recent : ProtoOf(j) = q}
             /\ {j \in Recent : Device[RowIn(reported, j)] = q} = FromDevice(q)
             /\ {j \in Recent : Destination[RowIn(reported, j)] = q} = {j \in Recent : reported[j].packet.dst = q}
             /\ {j \in Recent : Port[RowIn(reported, j)] = q} = {j \in Recent : reported[j].packet.port = q}
    BY <1>3 DEF FromDevice
<1>5. \A q : FromDevice(q) \in SUBSET Recent
    BY DEF FromDevice
<1>6. ASSUME NEW q
      PROVE  /\ BytesOf(Protocol, All, q) = SentOf({j \in Recent : ProtoOf(j) = q})
             /\ BytesOf(Device, All, q) = SentOf(FromDevice(q))
             /\ BytesOf(Destination, All, q) = SentOf({j \in Recent : reported[j].packet.dst = q})
             /\ BytesOf(Port, All, q) = SentOf({j \in Recent : reported[j].packet.port = q})
    <2>1. BytesOf(Protocol, All, q) = SentOf({j \in Recent : Protocol[RowIn(reported, j)] = q})
        BY <1>2
    <2>2. BytesOf(Device, All, q) = SentOf({j \in Recent : Device[RowIn(reported, j)] = q})
        BY <1>2
    <2>3. BytesOf(Destination, All, q) = SentOf({j \in Recent : Destination[RowIn(reported, j)] = q})
        BY <1>2
    <2>4. BytesOf(Port, All, q) = SentOf({j \in Recent : Port[RowIn(reported, j)] = q})
        BY <1>2
    <2>5. BytesOf(Protocol, All, q) = SentOf({j \in Recent : ProtoOf(j) = q})
        BY <1>4, <2>1
    <2>6. BytesOf(Device, All, q) = SentOf(FromDevice(q))
        BY <1>4, <2>2
    <2>7. BytesOf(Destination, All, q) = SentOf({j \in Recent : reported[j].packet.dst = q})
        BY <1>4, <2>3
    <2>8. BytesOf(Port, All, q) = SentOf({j \in Recent : reported[j].packet.port = q})
        BY <1>4, <2>4
    <2> QED BY <2>5, <2>6, <2>7, <2>8
<1> QED BY <1>5, <1>6

ProtocolsAgree ==
    \A q \in {ProtoOf(j) : j \in Recent} :
        BytesOf(Protocol, All, q) = SentOf({j \in Recent : ProtoOf(j) = q})

LEMMA ProtocolsHold == ASSUME StoreInv PROVE ProtocolsAgree
BY ByColumn DEF ProtocolsAgree

TotalsAgree == Totals.bytes = SentOf(Recent) /\ Totals.packets = Cardinality(Recent)

LEMMA TotalsHold == ASSUME StoreInv PROVE TotalsAgree
<1>1. Bytes(All) = SentOf(Recent)
    BY AllIsTold, BytesAreSent
<1> QED BY <1>1, PacketsAreCounted DEF TotalsAgree, Totals

DevicesAgree ==
    \A L \in TopDevices : \A d \in L :
        /\ BytesOf(Device, All, d) = SentOf(FromDevice(d))
        /\ \A e \in Network \ L : SentOf(FromDevice(e)) <= SentOf(FromDevice(d))

LEMMA DevicesHold == ASSUME StoreInv PROVE DevicesAgree
<1> SUFFICES ASSUME NEW L \in TopDevices, NEW d \in L, NEW e \in Network \ L
             PROVE  SentOf(FromDevice(e)) <= SentOf(FromDevice(d))
    BY ByColumn DEF DevicesAgree
<1>1. /\ BytesOf(Device, All, d) = SentOf(FromDevice(d)) /\ BytesOf(Device, All, e) = SentOf(FromDevice(e))
      /\ FromDevice(d) \in SUBSET Recent /\ FromDevice(e) \in SUBSET Recent
    BY ByColumn
<1>2. CASE e \in Groups(Device, All)
    <2>1. \A g \in L, h \in Groups(Device, All) \ L : BytesOf(Device, All, h) <= BytesOf(Device, All, g)
        BY ListingsAreLargest, FlowStoreAssumption DEF TopDevices
    <2> QED BY <1>1, <1>2, <2>1
<1>3. CASE e \notin Groups(Device, All)
    <2>1. FromDevice(e) = {}
        <3> SUFFICES ASSUME NEW j \in Recent, reported[j].packet.src = e PROVE FALSE
            BY DEF FromDevice
        <3>1. RowIn(reported, j) \in All /\ Device[RowIn(reported, j)] = e
            BY ColumnsAreOfPackets
        <3> QED BY <1>3, <3>1 DEF Groups
    <2> QED BY <1>1, <2>1, SentGrows
<1> QED BY <1>2, <1>3

DestinationsAgree ==
    \A L \in TopDestinations : \A d \in L :
        BytesOf(Destination, All, d) = SentOf({j \in Recent : reported[j].packet.dst = d})

LEMMA DestinationsHold == ASSUME StoreInv PROVE DestinationsAgree
BY ByColumn DEF DestinationsAgree

\* The rows of one device.
RowsOf(d) == {i \in All : Device[i] = d}

LEMMA RowsOfDevice ==
    ASSUME StoreInv, NEW d
    PROVE  Told(RowsOf(d)) = FromDevice(d) /\ RowsOf(d) \in SUBSET All
<1>1. \A j \in Recent : RowIn(reported, j) \in All /\ Device[RowIn(reported, j)] = reported[j].packet.src
    BY ColumnsAreOfPackets
<1> QED BY <1>1 DEF Told, RowsOf, FromDevice

DetailsAgree ==
    \A d \in Groups(Device, All) : \A L \in DrillDown(d) :
        LET shown == {i \in All : Device[i] = d /\ <<Destination[i], Protocol[i]>> \in L}
        IN  /\ Bytes(shown) <= SentOf(FromDevice(d))
            /\ Cardinality(L) < DrillFlows => Bytes(shown) = SentOf(FromDevice(d))

LEMMA DetailsHold == ASSUME StoreInv PROVE DetailsAgree
<1> SUFFICES ASSUME NEW d, NEW L \in DrillDown(d)
             PROVE  LET shown == {i \in All : Device[i] = d /\ <<Destination[i], Protocol[i]>> \in L}
                    IN  /\ Bytes(shown) <= SentOf(FromDevice(d))
                        /\ Cardinality(L) < DrillFlows => Bytes(shown) = SentOf(FromDevice(d))
    BY DEF DetailsAgree
<1> DEFINE shown == {i \in All : Device[i] = d /\ <<Destination[i], Protocol[i]>> \in L}
           By == [i \in All |-> <<Destination[i], Protocol[i]>>]
<1>1. shown \in SUBSET RowsOf(d) /\ shown \in SUBSET All
    BY DEF RowsOf
<1>2. Told(RowsOf(d)) = FromDevice(d) /\ RowsOf(d) \in SUBSET All /\ Told(shown) \subseteq Told(RowsOf(d))
    BY <1>1, RowsOfDevice DEF Told
<1>3. L \in Listings(By, RowsOf(d), DrillFlows) /\ DrillFlows \in Nat
    BY FlowStoreAssumption DEF DrillDown, RowsOf
<1>4. Groups(By, RowsOf(d)) = L => shown = RowsOf(d)
    <2>1. \A i \in RowsOf(d) : i \in All /\ Device[i] = d /\ <<Destination[i], Protocol[i]>> \in Groups(By, RowsOf(d))
        BY DEF RowsOf, Groups
    <2> QED BY <1>1, <2>1
<1> HIDE DEF shown, By
<1>5. Cardinality(L) < DrillFlows => shown = RowsOf(d)
    BY <1>2, <1>3, <1>4, ListingsAreLargest
<1>6. Bytes(shown) = SentOf(Told(shown)) /\ Bytes(RowsOf(d)) = SentOf(FromDevice(d))
    BY <1>1, <1>2, BytesAreSent
<1>7. Bytes(shown) <= SentOf(FromDevice(d))
    <2>1. FromDevice(d) \in SUBSET Recent
        BY ByColumn
    <2> QED BY <1>2, <1>6, <2>1, SentGrows
<1> QED BY <1>5, <1>6, <1>7 DEF shown

MainAgrees ==
    \A d \in Groups(Device, All) :
        \A L \in DestinationsOf(d, DestinationLimit) \cup MainDestination(d) : \A t \in L :
            /\ \E j \in FromDevice(d) : reported[j].packet.dst = t
            /\ Cardinality(Groups(Destination, All)) = 1 =>
                   BytesOf(Destination, {i \in All : Device[i] = d}, t) = SentOf(FromDevice(d))

LEMMA MainHolds == ASSUME StoreInv PROVE MainAgrees
<1> SUFFICES ASSUME NEW d, NEW L \in DestinationsOf(d, DestinationLimit) \cup MainDestination(d), NEW t \in L
             PROVE  /\ \E j \in FromDevice(d) : reported[j].packet.dst = t
                    /\ Cardinality(Groups(Destination, All)) = 1 =>
                           BytesOf(Destination, RowsOf(d), t) = SentOf(FromDevice(d))
    BY DEF MainAgrees, RowsOf
<1>1. Told(RowsOf(d)) = FromDevice(d) /\ RowsOf(d) \in SUBSET All
    BY RowsOfDevice
<1>2. t \in Groups(Destination, RowsOf(d))
    <2>1. L \in Listings(Destination, RowsOf(d), DestinationLimit) \cup Listings(Destination, RowsOf(d), 1)
        BY DEF DestinationsOf, MainDestination, RowsOf
    <2>2. DestinationLimit \in Nat /\ 1 \in Nat
        BY FlowStoreAssumption
    <2>3. L \in SUBSET Groups(Destination, RowsOf(d))
        BY <1>1, <2>1, <2>2, ListingsAreLargest
    <2> QED BY <2>3
<1>3. PICK i \in RowsOf(d) : t = Destination[i]
    BY <1>2 DEF Groups
<1>4. PICK j \in Recent : i = RowIn(reported, j)
    BY <1>1, <1>3, RowsHavePackets
<1>5. j \in FromDevice(d) /\ reported[j].packet.dst = t
    <2>1. j \in Told(RowsOf(d))
        BY <1>4 DEF Told
    <2> QED BY <1>1, <1>3, <1>4, <2>1, ColumnsAreOfPackets
<1>6. ASSUME Cardinality(Groups(Destination, All)) = 1
      PROVE  BytesOf(Destination, RowsOf(d), t) = SentOf(FromDevice(d))
    <2>1. \A k \in RowsOf(d) : Destination[k] = t
        <3> SUFFICES ASSUME NEW k \in RowsOf(d) PROVE Destination[k] = t
            OBVIOUS
        <3>1. Destination[k] \in Groups(Destination, All) /\ t \in Groups(Destination, All)
            BY <1>1, <1>3 DEF Groups
        <3>2. IsFiniteSet(Groups(Destination, All))
            BY TableIsFinite, FiniteImage DEF Groups
        <3>3. \E x : Groups(Destination, All) = {x}
            BY <1>6, <3>2, FS_Singleton
        <3> QED BY <3>1, <3>3
    <2>2. {k \in RowsOf(d) : Destination[k] = t} = RowsOf(d)
        BY <2>1
    <2>3. Bytes(RowsOf(d)) = SentOf(FromDevice(d))
        BY <1>1, BytesAreSent
    <2> QED BY <2>2, <2>3 DEF BytesOf
<1> QED BY <1>5, <1>6

AppsAgree ==
    \A A \in TopApps : \A a \in DOMAIN A :
        LET used == {j \in Recent : AppName(reported[j].packet.port) = a}
        IN  /\ A[a] <= SentOf(used)
            /\ Cardinality(Groups(Port, All)) <= PortLimit => A[a] = SentOf(used)

LEMMA AppIsSent ==
    ASSUME StoreInv, NEW L \in Listings(Port, All, PortLimit), NEW a,
           NEW v, v = SumFunction([p \in {q \in L : AppName(q) = a} |-> BytesOf(Port, All, p)]),
           NEW used, used = {j \in Recent : AppName(reported[j].packet.port) = a}
    PROVE  /\ v <= SentOf(used)
           /\ Cardinality(Groups(Port, All)) <= PortLimit => v = SentOf(used)
<1> DEFINE ports == {q \in L : AppName(q) = a}
           G == [p \in ports |-> BytesOf(Port, All, p)]
           S == {j \in Recent : reported[j].packet.port \in ports}
           g == [j \in S |-> reported[j].packet.port]
<1>1. /\ L \in SUBSET Groups(Port, All)
      /\ Cardinality(Groups(Port, All)) <= PortLimit => L = Groups(Port, All)
    BY ListingsAreLargest, FlowStoreAssumption
<1>2. IsFiniteSet(ports)
    <2>1. IsFiniteSet(Groups(Port, All))
        BY TableIsFinite, FiniteImage DEF Groups
    <2>2. ports \in SUBSET Groups(Port, All)
        BY <1>1
    <2> QED BY <2>1, <2>2, FS_Subset
<1>3. S \in SUBSET Recent /\ S \in SUBSET used /\ used \in SUBSET Recent
    OBVIOUS
<1>4. \A j \in Recent : reported[j].packet.port \in Groups(Port, All)
    <2> TAKE j \in Recent
    <2>1. RowIn(reported, j) \in All /\ Port[RowIn(reported, j)] = reported[j].packet.port
        BY ColumnsAreOfPackets
    <2> QED BY <2>1 DEF Groups
<1>5. L = Groups(Port, All) => S = used
    BY <1>4
<1>6. \A p \in ports : Group(S, g, p) = {j \in Recent : reported[j].packet.port = p}
    BY DEF Group
<1>7. DOMAIN G = ports /\ \A p \in ports : G[p] = BytesOf(Port, All, p)
    OBVIOUS
<1>8. \A j \in S : g[j] \in ports
    OBVIOUS
<1>9. v = SumFunctionOnSet(G, ports)
    BY <1>7 DEF SumFunction
<1> HIDE DEF S, g, G, ports
<1>10. \A p \in ports : G[p] = SumFunctionOnSet(SizeIn(reported), Group(S, g, p))
    <2> TAKE p \in ports
    <2>1. BytesOf(Port, All, p) = SentOf({j \in Recent : reported[j].packet.port = p})
        BY ByColumn
    <2>2. SentOf(Group(S, g, p)) = SumFunctionOnSet(SizeIn(reported), Group(S, g, p))
        <3>1. Group(S, g, p) \in SUBSET Recent
            BY <1>6
        <3> QED BY <3>1, SentIsSum
    <2> QED BY <1>6, <1>7, <2>1, <2>2
<1>11. /\ SentOf(S) = SumFunctionOnSet(SizeIn(reported), S)
       /\ IsFiniteSet(S) /\ Numbers(SizeIn(reported), S)
    BY <1>3, SentIsSum
<1>12. SumFunctionOnSet(SizeIn(reported), S) = SumFunctionOnSet(G, ports)
    BY <1>2, <1>8, <1>10, <1>11, SumRegroups DEF Grouped
<1>13. SentOf(S) <= SentOf(used)
    BY <1>3, SentGrows
<1> QED BY <1>1, <1>5, <1>9, <1>11, <1>12, <1>13

LEMMA AppsHold == ASSUME StoreInv PROVE AppsAgree
<1> SUFFICES ASSUME NEW L \in Listings(Port, All, PortLimit), NEW A,
                    A = [a \in {AppName(p) : p \in L} |->
                            SumFunction([p \in {q \in L : AppName(q) = a} |-> BytesOf(Port, All, p)])],
                    NEW a \in DOMAIN A
             PROVE  LET used == {j \in Recent : AppName(reported[j].packet.port) = a}
                    IN  /\ A[a] <= SentOf(used)
                        /\ Cardinality(Groups(Port, All)) <= PortLimit => A[a] = SentOf(used)
    BY DEF AppsAgree, TopApps
<1>1. A[a] = SumFunction([p \in {q \in L : AppName(q) = a} |-> BytesOf(Port, All, p)])
    OBVIOUS
<1> QED BY <1>1, AppIsSent

\* Hours of one day differ by less than a day, those of days apart by more.
LEMMA DaysApart ==
    ASSUME NEW a \in Nat, NEW b \in Nat, NEW D \in Nat \ {0}
    PROVE  /\ a > b - D => (a \div D) + 1 >= b \div D
           /\ (a \div D) + 1 >= b \div D => a > b - 2 * D
<1> DEFINE x == a \div D
           y == b \div D
           r == a % D
           s == b % D
<1>1. /\ x \in Nat /\ r \in 0 .. D - 1 /\ a = (x * D) + r
      /\ y \in Nat /\ s \in 0 .. D - 1 /\ b = (y * D) + s
    BY Division
<1> HIDE DEF x, y, r, s
<1>2. x * D \in Nat /\ y * D \in Nat /\ (x + 1) * D = (x * D) + D /\ (x + 2) * D = ((x * D) + D) + D
    <2>1. \A k \in Nat : k * D \in Nat /\ (k + 1) * D = (k * D) + D
        BY BeatsFollow
    <2>2. (x + 1) + 1 = x + 2 /\ x + 1 \in Nat
        BY <1>1
    <2> QED BY <1>1, <2>1, <2>2
<1>3. x + 1 < y => (x + 2) * D <= y * D
    <2>1. x + 1 < y => x + 2 <= y
        BY <1>1
    <2> QED BY <1>1, <2>1
<1>4. x + 1 >= y => y * D <= (x + 1) * D
    BY <1>1
<1>5. a > b - D => x + 1 >= y
    BY <1>1, <1>2, <1>3
<1>6. x + 1 >= y => a > b - (D + D)
    BY <1>1, <1>2, <1>4
<1>7. 2 * D = D + D
    OBVIOUS
<1> QED BY <1>5, <1>6, <1>7 DEF x, y

DayAgrees ==
    /\ \A i \in All : /\ rows[i].at > oclock - DayHours => i \in ShownHourly
                      /\ i \in ShownHourly => rows[i].at > oclock - 2 * DayHours
    /\ SumFunction(Hourly) = Bytes(ShownHourly)

LEMMA DayHolds == ASSUME StoreInv PROVE DayAgrees
<1>0. oclock \in Nat /\ DayHours \in Nat \ {0} /\ All = DOMAIN rows
    BY FlowStoreAssumption DEF StoreInv, All
<1>1. \A i \in All : rows[i].at \in Nat
    BY <1>0, RowsAreReported
<1>2. ASSUME NEW i \in All
      PROVE  /\ rows[i].at > oclock - DayHours => i \in ShownHourly
             /\ i \in ShownHourly => rows[i].at > oclock - 2 * DayHours
    <2> DEFINE a == rows[i].at
    <2>1. a \in Nat
        BY <1>1
    <2>2. i \in ShownHourly <=> (a \div DayHours) + 1 >= oclock \div DayHours
        BY DEF ShownHourly
    <2> HIDE DEF a
    <2>3. /\ a > oclock - DayHours => (a \div DayHours) + 1 >= oclock \div DayHours
          /\ (a \div DayHours) + 1 >= oclock \div DayHours => a > oclock - 2 * DayHours
        BY <1>0, <2>1, DaysApart
    <2> QED BY <2>2, <2>3 DEF a
<1> DEFINE S == ShownHourly
           F == [i \in S |-> rows[i].bytes]
           g == [i \in S |-> rows[i].at % DayHours]
           T == {rows[i].at % DayHours : i \in S}
<1>3. S \in SUBSET All /\ IsFiniteSet(S)
    <2>1. S \in SUBSET All
        BY DEF ShownHourly
    <2> QED BY <2>1, TableIsFinite, FS_Subset
<1>4. T = {g[i] : i \in S} /\ \A i \in S : g[i] \in T
    OBVIOUS
<1>5. Numbers(F, S) /\ DOMAIN F = S
    <2>1. \A i \in S : rows[i].bytes \in Nat
        <3> TAKE i \in S
        <3>1. i \in All /\ BehindIn(reported, i) \in SUBSET Recent
            BY <1>3 DEF BehindIn, Recent
        <3>2. rows[i].bytes = SumFunctionOnSet(SizeIn(reported), BehindIn(reported, i))
            BY <3>1 DEF StoreInv, RowsOk, RowCounts, All
        <3> QED BY <3>1, <3>2, SentIsSum
    <2> QED BY <2>1 DEF Numbers
<1>6. DOMAIN Hourly = T /\ \A h \in T : Hourly[h] = Bytes({i \in S : rows[i].at % DayHours = h})
    BY DEF Hourly
<1>7. \A h \in T : /\ Group(S, g, h) = {i \in S : rows[i].at % DayHours = h}
                   /\ Bytes(Group(S, g, h)) = SumFunctionOnSet(F, Group(S, g, h))
    <2> TAKE h \in T
    <2> DEFINE K == Group(S, g, h)
               f == [i \in K |-> rows[i].bytes]
    <2>1. K = {i \in S : rows[i].at % DayHours = h}
        BY DEF Group
    <2>2. K \in SUBSET S /\ IsFiniteSet(K)
        BY <1>3, <2>1, FS_Subset
    <2>3. DOMAIN f = K /\ \A i \in K : f[i] = F[i]
        BY <2>2
    <2>4. \A i \in K : F[i] \in Nat
        BY <1>5, <2>2 DEF Numbers
    <2> HIDE DEF K, f, F
    <2>5. SumFunction(f) = SumFunctionOnSet(F, K)
        BY <2>2, <2>3, <2>4, SumOver
    <2> QED BY <2>1, <2>5 DEF K, f, Bytes
<1>8. Bytes(S) = SumFunctionOnSet(F, S)
    BY <1>5 DEF Bytes, SumFunction
<1> HIDE DEF S, F, g, T
<1>9. IsFiniteSet(T)
    BY <1>3, <1>4, FiniteImage
<1>10. SumFunctionOnSet(F, S) = SumFunctionOnSet(Hourly, T)
    BY <1>3, <1>4, <1>5, <1>6, <1>7, <1>9, SumRegroups DEF Grouped
<1>11. SumFunction(Hourly) = Bytes(ShownHourly)
    BY <1>6, <1>8, <1>10 DEF SumFunction, S
<1> QED BY <1>2, <1>11 DEF DayAgrees

LEMMA PagesHold ==
    ASSUME TotalsAgree, ProtocolsAgree, DevicesAgree, DestinationsAgree, DetailsAgree,
           MainAgrees, AppsAgree, DayAgrees
    PROVE  ReportsAddUp
<1> DEFINE recent == {j \in DOMAIN reported :
                        \A k \in DOMAIN reported : reported[k].at <= reported[j].at + KeepFlows}
           Sent(J) == SumFunction([j \in J |-> reported[j].packet.len])
           Proto(j) == ResolveProtocol(reported[j].packet.proto, reported[j].packet.port)
           From(d) == {j \in recent : reported[j].packet.src = d}
<1>1. recent = Recent
    BY DEF Recent, RecentIn
<1>2. \A J : Sent(J) = SentOf(J)
    BY DEF SentOf
<1>3. \A j : Proto(j) = ProtoOf(j)
    BY DEF ProtoOf
<1>4. \A d : From(d) = FromDevice(d)
    BY <1>1 DEF FromDevice
<1> QED BY <1>1, <1>2, <1>3, <1>4 DEF ReportsAddUp, TotalsAgree, ProtocolsAgree, DevicesAgree,
           DestinationsAgree, DetailsAgree, MainAgrees, AppsAgree, DayAgrees, FromDevice, ProtoOf, SentOf,
           Recent, RecentIn

\* Flows: from the packets that a capture counted to the totals, lists and details of
\* the analytics page and the portal, nothing that a stored report heard within the
\* retention is lost or counted twice (reports/connection_report.py and
\* reports/flow_store.py), for any network, packets, ports, limits and retention.
THEOREM FlowsSound == StoreSpec => []FlowsAddUp
<1>1. StoreInv => FlowsAddUp
    <2> SUFFICES ASSUME StoreInv PROVE PartsAddUp /\ ReportsAddUp
        BY DEF FlowsAddUp
    <2>1. PartsAddUp
        BY PartsHold DEF StoreInv
    <2>2. ReportsAddUp
        BY TotalsHold, ProtocolsHold, DevicesHold, DestinationsHold, DetailsHold, MainHolds,
           AppsHold, DayHolds, PagesHold
    <2> QED BY <2>1, <2>2
<1> QED BY <1>1, StoreHolds, PTL

===============================================================================
