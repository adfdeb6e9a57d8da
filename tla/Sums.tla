-------------------------------- MODULE Sums --------------------------------
(***************************************************************************)
(* Sums over finite sets (SumFunction of the module Functions), for the    *)
(* proofs about the report and the dashboard.                              *)
(*                                                                         *)
(* The library defines a sum by recursion over a set, of which a member is *)
(* chosen at each step, so what is said of sums needs an induction over    *)
(* finite sets.  It is had without a theorem that takes an operator for    *)
(* its parameter: the subsets for which a claim fails are a set, strict    *)
(* inclusion is well-founded on finite sets (StrictSubset-                 *)
(* OrderingWellFounded and WFMin), and a smallest one leads to a           *)
(* contradiction.                                                          *)
(***************************************************************************)
EXTENDS Integers, FiniteSetTheorems, WellFoundedInduction, TLAPS

\* A sum over the members of S, as the library defines it.
Pick(s) == CHOOSE x \in s : TRUE
Steps(w, S, g) ==
    g = [s \in SUBSET S |-> IF s = {} THEN 0 ELSE w[Pick(s)] + g[s \ {Pick(s)}]]
Iter(w, S) == CHOOSE g : Steps(w, S, g)
SumOn(w, S) == Iter(w, S)[S]

\* The library's sum of a function is the sum over its domain.
LEMMA SumFunctionIs ==
    ASSUME NEW w
    PROVE  SumFunction(w) = SumOn(w, DOMAIN w)
  BY DEF SumFunction, SumFunctionOnSet, FoldFunctionOnSet, MapThenFoldSet,
         SumOn, Iter, Steps, Pick

\* The member the library takes first is one of the set.
LEMMA PickIn ==
    ASSUME NEW s, s # {}
    PROVE  Pick(s) \in s
  BY DEF Pick

\* Some of the subsets of a finite set, if any, have no smaller one among them.
LEMMA Smallest ==
    ASSUME NEW S, IsFiniteSet(S), NEW B \in SUBSET SUBSET S, B # {}
    PROVE  \E m \in B : \A k \in B : k \subseteq m => k = m
  <1> DEFINE R == StrictSubsetOrdering(S)
             F == FiniteSubsetsOf(S)
  <1>1. IsWellFoundedOn(R, F)
    BY FS_StrictSubsetOrderingWellFounded
  <1>2. B \subseteq F
    BY FS_Subset DEF FiniteSubsetsOf
  <1>3. \E x \in B : \A y \in B : <<y, x>> \notin R
    <2> HIDE DEF R, F
    <2> QED BY <1>1, <1>2, WFMin
  <1>4. PICK m \in B : \A k \in B : <<k, m>> \notin R
    BY <1>3
  <1>5. ASSUME NEW k \in B, k \subseteq m, k # m
        PROVE  FALSE
    <2>1. <<k, m>> \in R
      BY <1>5 DEF StrictSubsetOrdering
    <2> QED BY <1>4, <2>1
  <1> QED BY <1>4, <1>5

\* Induction over a finite set; G are the subsets of which the claim holds.
LEMMA SetInduction ==
    ASSUME NEW S, IsFiniteSet(S), NEW G, {} \in G,
           \A T \in SUBSET S, x \in S : T \in G /\ x \notin T => T \cup {x} \in G
    PROVE  S \in G
  <1> SUFFICES ASSUME S \notin G PROVE FALSE
    OBVIOUS
  <1> DEFINE B == {T \in SUBSET S : T \notin G}
  <1>1. B \in SUBSET SUBSET S /\ B # {}
    OBVIOUS
  <1>2. PICK m \in B : \A k \in B : k \subseteq m => k = m
    <2> HIDE DEF B
    <2> QED BY <1>1, Smallest
  <1>3. PICK x \in m : TRUE
    BY <1>2
  <1>4. m \ {x} \in SUBSET S /\ m \ {x} # m /\ m = (m \ {x}) \cup {x} /\ x \in S
    BY <1>2, <1>3
  <1>5. m \ {x} \in G
    BY <1>2, <1>4
  <1> QED BY <1>2, <1>4, <1>5

\* The recursion has at most one solution.
LEMMA IterUnique ==
    ASSUME NEW w, NEW S, IsFiniteSet(S), NEW g, NEW h, Steps(w, S, g), Steps(w, S, h)
    PROVE  g = h
  <1> DEFINE B == {s \in SUBSET S : g[s] # h[s]}
  <1>1. ASSUME B # {}
        PROVE  FALSE
    <2>1. PICK m \in B : \A k \in B : k \subseteq m => k = m
      <3>1. B \in SUBSET SUBSET S
        OBVIOUS
      <3> HIDE DEF B
      <3> QED BY <1>1, <3>1, Smallest
    <2>2. m # {}
      BY <2>1 DEF Steps
    <2>3. Pick(m) \in m
      BY <2>2, PickIn
    <2>4. m \ {Pick(m)} \in SUBSET S /\ m \ {Pick(m)} # m
      BY <2>1, <2>3
    <2>5. g[m \ {Pick(m)}] = h[m \ {Pick(m)}]
      BY <2>1, <2>4
    <2> QED BY <2>1, <2>2, <2>5 DEF Steps
  <1>2. g = [s \in SUBSET S |-> g[s]] /\ h = [s \in SUBSET S |-> h[s]]
    BY DEF Steps
  <1> QED BY <1>1, <1>2

\* Of a solution over a set, the part over a subset is the subset's own.
LEMMA IterPart ==
    ASSUME NEW w, NEW S, IsFiniteSet(S), NEW g, Steps(w, S, g), NEW T \in SUBSET S
    PROVE  SumOn(w, T) = g[T] /\ Steps(w, T, Iter(w, T))
  <1> DEFINE h == [s \in SUBSET T |-> g[s]]
  <1>1. Steps(w, T, h)
    <2>1. ASSUME NEW s \in SUBSET T
          PROVE  h[s] = IF s = {} THEN 0 ELSE w[Pick(s)] + h[s \ {Pick(s)}]
      <3>1. s \in SUBSET S /\ s \ {Pick(s)} \in SUBSET T
        OBVIOUS
      <3>2. g[s] = IF s = {} THEN 0 ELSE w[Pick(s)] + g[s \ {Pick(s)}]
        BY <3>1 DEF Steps
      <3> QED BY <3>1, <3>2
    <2> HIDE DEF h
    <2>2. h = [s \in SUBSET T |-> h[s]]
      BY DEF h
    <2> QED BY <2>1, <2>2 DEF Steps
  <1>2. Steps(w, T, Iter(w, T))
    BY <1>1 DEF Iter
  <1>3. IsFiniteSet(T)
    BY FS_Subset
  <1>4. Iter(w, T) = h
    BY <1>1, <1>2, <1>3, IterUnique
  <1> QED BY <1>2, <1>4 DEF SumOn

\* The recursion over a finite set has a solution.
LEMMA IterExists ==
    ASSUME NEW w, NEW S, IsFiniteSet(S)
    PROVE  \E g : Steps(w, S, g)
  <1> SUFFICES ASSUME \A g : ~Steps(w, S, g) PROVE FALSE
    OBVIOUS
  <1> DEFINE B == {T \in SUBSET S : \A g : ~Steps(w, T, g)}
  <1>1. B \in SUBSET SUBSET S /\ B # {}
    OBVIOUS
  <1>2. PICK m \in B : \A k \in B : k \subseteq m => k = m
    <2> HIDE DEF B
    <2> QED BY <1>1, Smallest
  <1>3. ASSUME NEW r \in SUBSET m, r # m
        PROVE  /\ r = {} => SumOn(w, r) = 0
               /\ r # {} => SumOn(w, r) = w[Pick(r)] + SumOn(w, r \ {Pick(r)})
    <2>1. PICK g : Steps(w, r, g)
      BY <1>2, <1>3
    <2>2. IsFiniteSet(r)
      BY <1>2, <1>3, FS_Subset
    <2>3. SumOn(w, r) = g[r]
      BY <2>1, <2>2, IterPart
    <2>4. r # {} => SumOn(w, r \ {Pick(r)}) = g[r \ {Pick(r)}]
      BY <2>1, <2>2, IterPart
    <2>5. g[r] = IF r = {} THEN 0 ELSE w[Pick(r)] + g[r \ {Pick(r)}]
      BY <2>1 DEF Steps
    <2> QED BY <2>3, <2>4, <2>5
  <1> DEFINE g == [s \in SUBSET m |-> IF s = {} THEN 0 ELSE w[Pick(s)] + SumOn(w, s \ {Pick(s)})]
  <1>4. ASSUME NEW s \in SUBSET m, s # {}
        PROVE  SumOn(w, s \ {Pick(s)}) = g[s \ {Pick(s)}]
    <2> DEFINE r == s \ {Pick(s)}
    <2>1. Pick(s) \in s
      BY <1>4, PickIn
    <2>2. r \in SUBSET m /\ r # m
      BY <2>1
    <2>3. g[r] = IF r = {} THEN 0 ELSE w[Pick(r)] + SumOn(w, r \ {Pick(r)})
      BY <2>2
    <2> HIDE DEF r, g
    <2>4. SumOn(w, r) = g[r]
      BY <1>3, <2>2, <2>3
    <2> QED BY <2>4 DEF r
  <1>5. \A s \in SUBSET m : g[s] = IF s = {} THEN 0 ELSE w[Pick(s)] + g[s \ {Pick(s)}]
    <2>1. \A s \in SUBSET m : g[s] = IF s = {} THEN 0 ELSE w[Pick(s)] + SumOn(w, s \ {Pick(s)})
      OBVIOUS
    <2> HIDE DEF g
    <2> QED BY <1>4, <2>1
  <1>6. g = [s \in SUBSET m |-> g[s]]
    OBVIOUS
  <1> HIDE DEF g
  <1>7. Steps(w, m, g)
    BY <1>5, <1>6 DEF Steps
  <1> QED BY <1>2, <1>7

\* A sum is the member taken first and the sum of the rest.
LEMMA SumStep ==
    ASSUME NEW w, NEW S, IsFiniteSet(S)
    PROVE  /\ S = {} => SumOn(w, S) = 0
           /\ S # {} => SumOn(w, S) = w[Pick(S)] + SumOn(w, S \ {Pick(S)})
  <1>1. PICK g : Steps(w, S, g)
    BY IterExists
  <1>2. \A T \in SUBSET S : SumOn(w, T) = g[T]
    BY <1>1, IterPart
  <1>3. g[S] = IF S = {} THEN 0 ELSE w[Pick(S)] + g[S \ {Pick(S)}]
    BY <1>1 DEF Steps
  <1> QED BY <1>2, <1>3

\* The sum of integers is one.
LEMMA SumInt ==
    ASSUME NEW w, NEW S, IsFiniteSet(S), \A t \in S : w[t] \in Int
    PROVE  SumOn(w, S) \in Int
  <1> SUFFICES ASSUME SumOn(w, S) \notin Int PROVE FALSE
    OBVIOUS
  <1> DEFINE B == {T \in SUBSET S : SumOn(w, T) \notin Int}
  <1>1. B \in SUBSET SUBSET S /\ B # {}
    OBVIOUS
  <1>2. PICK m \in B : \A k \in B : k \subseteq m => k = m
    <2> HIDE DEF B
    <2> QED BY <1>1, Smallest
  <1>3. IsFiniteSet(m)
    BY <1>2, FS_Subset
  <1>4. m # {}
    BY <1>2, <1>3, SumStep
  <1>5. Pick(m) \in m
    BY <1>4, PickIn
  <1>6. SumOn(w, m \ {Pick(m)}) \in Int
    BY <1>2, <1>5
  <1>7. w[Pick(m)] \in Int
    BY <1>2, <1>5
  <1>8. SumOn(w, m) = w[Pick(m)] + SumOn(w, m \ {Pick(m)})
    BY <1>3, <1>4, SumStep
  <1> QED BY <1>2, <1>6, <1>7, <1>8

\* Whichever member comes first, the sum is the same.
LEMMA SumAny ==
    ASSUME NEW w, NEW S, IsFiniteSet(S), \A t \in S : w[t] \in Int, NEW y \in S
    PROVE  SumOn(w, S) = w[y] + SumOn(w, S \ {y})
  <1> DEFINE good(T) == \A z \in T : SumOn(w, T) = w[z] + SumOn(w, T \ {z})
  <1> SUFFICES ASSUME ~good(S) PROVE FALSE
    OBVIOUS
  <1> DEFINE B == {T \in SUBSET S : ~good(T)}
  <1>1. B \in SUBSET SUBSET S /\ B # {}
    OBVIOUS
  <1>2. PICK m \in B : \A k \in B : k \subseteq m => k = m
    <2> HIDE DEF B
    <2> QED BY <1>1, Smallest
  <1>3. IsFiniteSet(m) /\ m \in SUBSET S
    BY <1>2, FS_Subset
  <1>4. PICK z \in m : SumOn(w, m) # w[z] + SumOn(w, m \ {z})
    BY <1>2
  <1> DEFINE x == Pick(m)
  <1>5. x \in m
    BY <1>4, PickIn
  <1>6. SumOn(w, m) = w[x] + SumOn(w, m \ {x})
    BY <1>3, <1>4, SumStep
  <1> HIDE DEF x
  <1>7. x # z
    BY <1>4, <1>6
  <1>8. SumOn(w, m \ {x}) = w[z] + SumOn(w, (m \ {x}) \ {z})
    <2>1. m \ {x} \in SUBSET S /\ m \ {x} # m /\ z \in m \ {x}
      BY <1>3, <1>5, <1>7
    <2>2. good(m \ {x})
      BY <1>2, <2>1
    <2> QED BY <2>1, <2>2
  <1>9. SumOn(w, m \ {z}) = w[x] + SumOn(w, (m \ {z}) \ {x})
    <2>1. m \ {z} \in SUBSET S /\ m \ {z} # m /\ x \in m \ {z}
      BY <1>3, <1>4, <1>5, <1>7
    <2>2. good(m \ {z})
      BY <1>2, <2>1
    <2> QED BY <2>1, <2>2
  <1>10. (m \ {x}) \ {z} = (m \ {z}) \ {x}
    OBVIOUS
  <1>11. SumOn(w, (m \ {x}) \ {z}) \in Int
    <2>1. IsFiniteSet((m \ {x}) \ {z})
      BY <1>3, FS_Subset
    <2> QED BY <1>3, <2>1, SumInt
  <1>12. w[x] \in Int /\ w[z] \in Int
    BY <1>3, <1>4, <1>5
  <1> HIDE DEF good, B
  <1>13. SumOn(w, m) = w[z] + SumOn(w, m \ {z})
    <2> DEFINE c == SumOn(w, (m \ {x}) \ {z})
    <2>1. SumOn(w, m) = w[x] + (w[z] + c)
      BY <1>6, <1>8
    <2>2. SumOn(w, m \ {z}) = w[x] + c
      BY <1>9, <1>10
    <2>3. c \in Int
      BY <1>11
    <2> HIDE DEF c
    <2>4. w[x] + (w[z] + c) = w[z] + (w[x] + c)
      BY <1>12, <2>3
    <2> QED BY <2>1, <2>2, <2>4
  <1> QED BY <1>4, <1>13

\* Sums over the same members of functions that agree on them.
LEMMA SumSame ==
    ASSUME NEW w, NEW v, NEW S, IsFiniteSet(S), \A t \in S : w[t] = v[t]
    PROVE  SumOn(w, S) = SumOn(v, S)
  <1> SUFFICES ASSUME SumOn(w, S) # SumOn(v, S) PROVE FALSE
    OBVIOUS
  <1> DEFINE B == {T \in SUBSET S : SumOn(w, T) # SumOn(v, T)}
  <1>1. B \in SUBSET SUBSET S /\ B # {}
    OBVIOUS
  <1>2. PICK m \in B : \A k \in B : k \subseteq m => k = m
    <2> HIDE DEF B
    <2> QED BY <1>1, Smallest
  <1>3. IsFiniteSet(m) /\ m \in SUBSET S
    BY <1>2, FS_Subset
  <1>4. m # {}
    BY <1>2, <1>3, SumStep
  <1>5. Pick(m) \in m
    BY <1>4, PickIn
  <1>6. SumOn(w, m \ {Pick(m)}) = SumOn(v, m \ {Pick(m)}) /\ w[Pick(m)] = v[Pick(m)]
    BY <1>2, <1>5
  <1>7. /\ SumOn(w, m) = w[Pick(m)] + SumOn(w, m \ {Pick(m)})
        /\ SumOn(v, m) = v[Pick(m)] + SumOn(v, m \ {Pick(m)})
    BY <1>3, <1>4, SumStep
  <1> QED BY <1>2, <1>6, <1>7

\* The sum over nothing is 0.
LEMMA SumEmpty ==
    ASSUME NEW w
    PROVE  SumOn(w, {}) = 0
  BY SumStep, FS_EmptySet

\* One member more.
LEMMA SumMore ==
    ASSUME NEW w, NEW S, IsFiniteSet(S), NEW x, x \notin S,
           \A t \in S : w[t] \in Int, w[x] \in Int
    PROVE  SumOn(w, S \cup {x}) = w[x] + SumOn(w, S)
  <1> DEFINE T == S \cup {x}
  <1>1. IsFiniteSet(T) /\ x \in T /\ T \ {x} = S /\ \A t \in T : w[t] \in Int
    BY FS_AddElement
  <1> HIDE DEF T
  <1>2. SumOn(w, T) = w[x] + SumOn(w, S)
    BY <1>1, SumAny
  <1> QED BY <1>2 DEF T

\* The sum of two parts.
LEMMA SumTwo ==
    ASSUME NEW w, NEW S, NEW T, IsFiniteSet(S), IsFiniteSet(T), S \cap T = {},
           \A t \in S \cup T : w[t] \in Int
    PROVE  SumOn(w, S \cup T) = SumOn(w, S) + SumOn(w, T)
  <1> DEFINE G == {U \in SUBSET T : SumOn(w, S \cup U) = SumOn(w, S) + SumOn(w, U)}
  <1>1. SumOn(w, S) \in Int
    BY SumInt
  <1>2. {} \in G
    <2>1. SumOn(w, {}) = 0 /\ S \cup {} = S
      BY SumEmpty
    <2> QED BY <1>1, <2>1
  <1>3. ASSUME NEW U \in SUBSET T, NEW x \in T, U \in G, x \notin U
        PROVE  U \cup {x} \in G
    <2>1. IsFiniteSet(U) /\ IsFiniteSet(S \cup U)
      BY FS_Subset, FS_Union
    <2>2. x \notin S \cup U /\ w[x] \in Int /\ \A t \in S \cup U : w[t] \in Int
      BY <1>3
    <2>3. SumOn(w, U \cup {x}) = w[x] + SumOn(w, U)
      BY <2>1, <2>2, <1>3, SumMore
    <2>4. SumOn(w, (S \cup U) \cup {x}) = w[x] + SumOn(w, S \cup U)
      BY <2>1, <2>2, SumMore
    <2>5. S \cup (U \cup {x}) = (S \cup U) \cup {x}
      OBVIOUS
    <2>6. SumOn(w, S \cup U) = SumOn(w, S) + SumOn(w, U)
      BY <1>3
    <2>7. SumOn(w, U) \in Int
      BY <2>1, <2>2, SumInt
    <2>8. SumOn(w, S \cup (U \cup {x})) = SumOn(w, S) + SumOn(w, U \cup {x})
      <3> DEFINE a == SumOn(w, S)
                 b == SumOn(w, U)
                 c == w[x]
      <3>1. SumOn(w, S \cup (U \cup {x})) = c + (a + b)
        BY <2>4, <2>5, <2>6
      <3>2. SumOn(w, U \cup {x}) = c + b
        BY <2>3
      <3>3. a \in Int /\ b \in Int /\ c \in Int
        BY <1>1, <2>2, <2>7
      <3> HIDE DEF a, b, c
      <3>4. c + (a + b) = a + (c + b)
        BY <3>3
      <3> QED BY <3>1, <3>2, <3>4 DEF a
    <2> QED BY <1>3, <2>8
  <1> HIDE DEF G
  <1>4. T \in G
    BY <1>2, <1>3, SetInduction
  <1> QED BY <1>4 DEF G

\* Of amounts that are not negative, the sum is positive when one of them is.
LEMMA SumPositive ==
    ASSUME NEW w, NEW S, IsFiniteSet(S), \A t \in S : w[t] \in Nat
    PROVE  /\ SumOn(w, S) \in Nat
           /\ SumOn(w, S) > 0 <=> \E t \in S : w[t] > 0
  <1> DEFINE G == {T \in SUBSET S : /\ SumOn(w, T) \in Nat
                                    /\ SumOn(w, T) > 0 <=> \E t \in T : w[t] > 0}
  <1>1. {} \in G
    BY SumEmpty
  <1>2. ASSUME NEW T \in SUBSET S, NEW x \in S, T \in G, x \notin T
        PROVE  T \cup {x} \in G
    <2>1. IsFiniteSet(T) /\ w[x] \in Nat /\ \A t \in T : w[t] \in Int
      BY FS_Subset
    <2>2. SumOn(w, T \cup {x}) = w[x] + SumOn(w, T)
      BY <1>2, <2>1, SumMore
    <2>3. /\ SumOn(w, T) \in Nat
          /\ SumOn(w, T) > 0 <=> \E t \in T : w[t] > 0
      BY <1>2
    <2>4. SumOn(w, T \cup {x}) \in Nat
      BY <2>1, <2>2, <2>3
    <2>5. SumOn(w, T \cup {x}) > 0 <=> \E t \in T \cup {x} : w[t] > 0
      <3>1. SumOn(w, T \cup {x}) > 0 <=> w[x] > 0 \/ SumOn(w, T) > 0
        BY <2>1, <2>2, <2>3
      <3> QED BY <2>3, <3>1
    <2> QED BY <2>4, <2>5
  <1> HIDE DEF G
  <1>3. S \in G
    BY <1>1, <1>2, SetInduction
  <1> QED BY <1>3 DEF G

\* The images of finitely many members are finitely many.
LEMMA ImageFinite ==
    ASSUME NEW S, IsFiniteSet(S), NEW f, NEW R, R = {f[t] : t \in S}
    PROVE  IsFiniteSet(R)
  <1> DEFINE g == [t \in S |-> f[t]]
  <1>1. g \in Surjection(S, R)
    BY DEF Surjection
  <1> QED BY <1>1, FS_Surjection

\* The weights w of the members of S are those v of their images f[t], in R.
OneToOne(w, v, S, f, R) ==
    /\ IsFiniteSet(S) /\ R = {f[t] : t \in S}
    /\ \A t \in S : w[t] \in Int /\ v[f[t]] = w[t]
    /\ \A t, u \in S : f[t] = f[u] => t = u

\* The sum over the images of the members, each of one member.
LEMMA SumImage ==
    ASSUME NEW w, NEW v, NEW S, NEW f, NEW R, OneToOne(w, v, S, f, R)
    PROVE  IsFiniteSet(R) /\ SumOn(v, R) = SumOn(w, S)
  <1>0. /\ IsFiniteSet(S) /\ R = {f[t] : t \in S}
        /\ \A t \in S : w[t] \in Int /\ v[f[t]] = w[t]
        /\ \A t, u \in S : f[t] = f[u] => t = u
    BY DEF OneToOne
  <1> USE <1>0
  <1> DEFINE image(T) == {f[t] : t \in T}
             G == {T \in SUBSET S : IsFiniteSet(image(T)) /\ SumOn(v, image(T)) = SumOn(w, T)}
  <1>1. {} \in G
    <2>1. image({}) = {}
      OBVIOUS
    <2> QED BY <2>1, SumEmpty, FS_EmptySet
  <1>2. ASSUME NEW T \in SUBSET S, NEW x \in S, T \in G, x \notin T
        PROVE  T \cup {x} \in G
    <2>1. IsFiniteSet(T) /\ IsFiniteSet(image(T)) /\ SumOn(v, image(T)) = SumOn(w, T)
      BY <1>2, FS_Subset
    <2>2. image(T \cup {x}) = image(T) \cup {f[x]} /\ f[x] \notin image(T)
      BY <1>2
    <2>3. SumOn(w, T \cup {x}) = w[x] + SumOn(w, T)
      BY <1>2, <2>1, SumMore
    <2>4. \A r \in image(T) : v[r] \in Int
      OBVIOUS
    <2>5. v[f[x]] = w[x] /\ v[f[x]] \in Int
      OBVIOUS
    <2> HIDE DEF image
    <2>6. SumOn(v, image(T) \cup {f[x]}) = v[f[x]] + SumOn(v, image(T))
      BY <2>1, <2>2, <2>4, <2>5, SumMore
    <2>7. IsFiniteSet(image(T \cup {x}))
      <3>1. IsFiniteSet(image(T) \cup {f[x]})
        BY <2>1, FS_AddElement
      <3> QED BY <2>2, <3>1
    <2> QED BY <2>1, <2>2, <2>3, <2>5, <2>6, <2>7
  <1> HIDE DEF G
  <1>3. S \in G
    BY <1>1, <1>2, SetInduction
  <1> QED BY <1>3 DEF G

\* The set U in parts P[h], each with the sum v[h] of its weights w.
SummedParts(w, v, H, P, U) ==
    /\ IsFiniteSet(H) /\ U = UNION {P[h] : h \in H}
    /\ \A h, k \in H : h # k => P[h] \cap P[k] = {}
    /\ \A h \in H : /\ IsFiniteSet(P[h]) /\ v[h] = SumOn(w, P[h])
                     /\ \A t \in P[h] : w[t] \in Int

\* The sum of the sums of the parts of a set.
LEMMA SumParts ==
    ASSUME NEW w, NEW v, NEW H, NEW P, NEW U, SummedParts(w, v, H, P, U)
    PROVE  IsFiniteSet(U) /\ SumOn(v, H) = SumOn(w, U)
  <1>0. /\ IsFiniteSet(H) /\ U = UNION {P[h] : h \in H}
        /\ \A h, k \in H : h # k => P[h] \cap P[k] = {}
        /\ \A h \in H : /\ IsFiniteSet(P[h]) /\ v[h] = SumOn(w, P[h])
                         /\ \A t \in P[h] : w[t] \in Int
    BY DEF SummedParts
  <1> DEFINE all(K) == UNION {P[h] : h \in K}
             G == {K \in SUBSET H : IsFiniteSet(all(K)) /\ SumOn(v, K) = SumOn(w, all(K))}
  <1>1. {} \in G
    <2>1. all({}) = {}
      OBVIOUS
    <2> QED BY <1>0, <2>1, SumEmpty, FS_EmptySet
  <1>2. ASSUME NEW K \in SUBSET H, NEW x \in H, K \in G, x \notin K
        PROVE  K \cup {x} \in G
    <2>1. IsFiniteSet(K) /\ IsFiniteSet(all(K)) /\ SumOn(v, K) = SumOn(w, all(K))
      BY <1>0, <1>2, FS_Subset
    <2>2. all(K \cup {x}) = all(K) \cup P[x] /\ all(K) \cap P[x] = {}
      BY <1>0, <1>2
    <2>3. \A h \in H : v[h] \in Int
      BY <1>0, SumInt
    <2>4. SumOn(v, K \cup {x}) = v[x] + SumOn(v, K)
      BY <1>2, <2>1, <2>3, SumMore
    <2>5. \A t \in all(K) \cup P[x] : w[t] \in Int
      BY <1>0, <1>2
    <2> HIDE DEF all
    <2>6. IsFiniteSet(P[x]) /\ IsFiniteSet(all(K) \cup P[x])
      BY <1>0, <2>1, FS_Union
    <2>7. SumOn(w, all(K) \cup P[x]) = SumOn(w, all(K)) + SumOn(w, P[x])
      BY <2>1, <2>2, <2>5, <2>6, SumTwo
    <2>8. SumOn(v, K) \in Int /\ v[x] \in Int
      BY <1>2, <2>1, <2>3, SumInt
    <2>9. v[x] = SumOn(w, P[x])
      BY <1>0
    <2>10. SumOn(v, K \cup {x}) = SumOn(w, all(K) \cup P[x])
      BY <2>1, <2>4, <2>7, <2>8, <2>9
    <2> QED BY <2>2, <2>6, <2>10
  <1> HIDE DEF G
  <1>3. H \in G
    BY <1>0, <1>1, <1>2, SetInduction
  <1> QED BY <1>0, <1>3 DEF G

\* A sum of sums.
LEMMA SumBoth ==
    ASSUME NEW u, NEW v, NEW w, NEW S, IsFiniteSet(S),
           \A t \in S : v[t] \in Int /\ w[t] \in Int /\ u[t] = v[t] + w[t]
    PROVE  SumOn(u, S) = SumOn(v, S) + SumOn(w, S)
  <1> DEFINE G == {T \in SUBSET S : SumOn(u, T) = SumOn(v, T) + SumOn(w, T)}
  <1>1. {} \in G
    BY SumEmpty
  <1>2. ASSUME NEW T \in SUBSET S, NEW x \in S, T \in G, x \notin T
        PROVE  T \cup {x} \in G
    <2>1. IsFiniteSet(T)
      BY FS_Subset
    <2>2. \A t \in S : u[t] \in Int
      OBVIOUS
    <2>3. /\ SumOn(u, T \cup {x}) = u[x] + SumOn(u, T)
          /\ SumOn(v, T \cup {x}) = v[x] + SumOn(v, T)
          /\ SumOn(w, T \cup {x}) = w[x] + SumOn(w, T)
      BY <1>2, <2>1, <2>2, SumMore
    <2>4. SumOn(v, T) \in Int /\ SumOn(w, T) \in Int
      BY <2>1, SumInt
    <2>5. SumOn(u, T) = SumOn(v, T) + SumOn(w, T) /\ u[x] = v[x] + w[x]
          /\ v[x] \in Int /\ w[x] \in Int
      BY <1>2
    <2>6. SumOn(u, T \cup {x}) = SumOn(v, T \cup {x}) + SumOn(w, T \cup {x})
      BY <2>3, <2>4, <2>5
    <2> QED BY <2>6
  <1> HIDE DEF G
  <1>3. S \in G
    BY <1>1, <1>2, SetInduction
  <1> QED BY <1>3 DEF G

\* The sum over one member.
LEMMA SumOne ==
    ASSUME NEW w, NEW x, w[x] \in Int
    PROVE  SumOn(w, {x}) = w[x]
  <1>1. IsFiniteSet({}) /\ x \notin {} /\ \A t \in {} : w[t] \in Int
    BY FS_EmptySet
  <1>2. SumOn(w, {} \cup {x}) = w[x] + SumOn(w, {})
    BY <1>1, SumMore
  <1>3. {} \cup {x} = {x}
    OBVIOUS
  <1> QED BY <1>2, <1>3, SumEmpty

\* The sum of amounts that are all 0.
LEMMA SumZero ==
    ASSUME NEW w, NEW S, IsFiniteSet(S), \A t \in S : w[t] = 0
    PROVE  SumOn(w, S) = 0
  <1>1. SumOn(w, S) \in Nat /\ ~(SumOn(w, S) > 0)
    BY SumPositive
  <1> QED BY <1>1

\* A sum of differences.
LEMMA SumLess ==
    ASSUME NEW u, NEW v, NEW w, NEW S, IsFiniteSet(S),
           \A t \in S : v[t] \in Int /\ w[t] \in Int /\ u[t] = v[t] - w[t]
    PROVE  SumOn(u, S) = SumOn(v, S) - SumOn(w, S)
  <1>1. \A t \in S : u[t] \in Int /\ w[t] \in Int /\ v[t] = u[t] + w[t]
    OBVIOUS
  <1>2. SumOn(v, S) = SumOn(u, S) + SumOn(w, S)
    BY <1>1, SumBoth
  <1>3. SumOn(u, S) \in Int /\ SumOn(w, S) \in Int
    BY <1>1, SumInt
  <1> QED BY <1>2, <1>3

\* A part of amounts that are not negative sums up to no more than all of them.
LEMMA SumPart ==
    ASSUME NEW w, NEW S, IsFiniteSet(S), \A t \in S : w[t] \in Nat, NEW T \in SUBSET S
    PROVE  SumOn(w, T) <= SumOn(w, S)
  <1>1. IsFiniteSet(T) /\ IsFiniteSet(S \ T) /\ T \cap (S \ T) = {} /\ T \cup (S \ T) = S
    BY FS_Subset
  <1>2. SumOn(w, T \cup (S \ T)) = SumOn(w, T) + SumOn(w, S \ T)
    BY <1>1, SumTwo
  <1>3. SumOn(w, T) \in Nat /\ SumOn(w, S \ T) \in Nat
    BY <1>1, SumPositive
  <1>4. SumOn(w, S) = SumOn(w, T) + SumOn(w, S \ T)
    BY <1>1, <1>2
  <1> QED BY <1>3, <1>4
=============================================================================
