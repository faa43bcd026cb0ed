-------------------------- MODULE LinkedListProofs ---------------------------
(***************************************************************************)
(* The list for every set of nodes and of values: its links tell one       *)
(* sequence in both directions, nobody loses a node or follows one that is *)
(* freed, iterations are complete, and the list implements Deque.          *)
(*                                                                         *)
(* Walk is a recursive function.  What it computes is shown with a witness *)
(* of its value and the least place at which it could differ from it.      *)
(***************************************************************************)
EXTENDS LinkedList, FiniteSetTheorems, SequenceTheorems, WellFoundedInduction, TLAPS

-----------------------------------------------------------------------------
(* Induction, by sets of natural numbers.                                   *)

Before == {p \in Nat \X Nat : p[1] < p[2]}

\* A set of natural numbers has a least element.
LEMMA Least ==
    ASSUME NEW T, T \subseteq Nat, T # {}
    PROVE  \E x \in T : \A y \in T : x <= y
<1>1. IsWellFoundedOn(Before, Nat)
    BY NatLessThanWellFounded DEF OpToRel, Before
<1>2. PICK x \in T : \A y \in T : <<y, x>> \notin Before
    BY <1>1, WFMin
<1>3. ASSUME NEW y \in T
      PROVE  x <= y
    <2>1. x \in Nat /\ y \in Nat /\ <<y, x>> \notin Before
        BY <1>2
    <2> QED
        BY <2>1 DEF Before
<1> QED
    BY <1>3

LEMMA NatSet ==
    ASSUME NEW T, 0 \in T, \A i \in Nat : i \in T => i + 1 \in T
    PROVE  Nat \subseteq T
<1> SUFFICES ASSUME Nat \ T # {} PROVE FALSE
    OBVIOUS
<1>1. PICK x \in Nat \ T : \A y \in Nat \ T : x <= y
    BY Least
<1>2. x - 1 \in Nat /\ (x - 1) + 1 = x /\ ~(x <= x - 1)
    BY <1>1
<1> QED
    BY <1>1, <1>2

-----------------------------------------------------------------------------
(* Walks.                                                                   *)

LinkOf(links, n) == IF n \in Nodes THEN links[n] ELSE Nothing

\* A walk is the function that starts where it starts and follows the links.
LEMMA WalkIs ==
    ASSUME NEW start, NEW links, NEW n \in Nat, NEW f,
           f \in [0 .. n -> Ends], f[0] = start,
           \A i \in 0 .. n - 1 : f[i + 1] = LinkOf(links, f[i])
    PROVE  Walk(start, links, n) = [i \in 1 .. n |-> f[i - 1]]
<1> DEFINE Rule(g) == [i \in 0 .. n |->
                          IF i = 0 THEN start
                          ELSE IF g[i - 1] \in Nodes THEN links[g[i - 1]] ELSE Nothing]
           at[i \in 0 .. n] ==
               IF i = 0 THEN start
               ELSE IF at[i - 1] \in Nodes THEN links[at[i - 1]] ELSE Nothing
<1>1. f = Rule(f)
    <2>1. ASSUME NEW i \in 0 .. n
          PROVE  f[i] = IF i = 0 THEN start
                        ELSE IF f[i - 1] \in Nodes THEN links[f[i - 1]] ELSE Nothing
        <3>1. CASE i = 0
            BY <3>1
        <3>2. CASE i # 0
            <4>1. i - 1 \in 0 .. n - 1 /\ (i - 1) + 1 = i
                BY <3>2
            <4>2. f[(i - 1) + 1] = LinkOf(links, f[i - 1])
                BY <4>1
            <4> QED
                BY <3>2, <4>1, <4>2 DEF LinkOf
        <3> QED
            BY <3>1, <3>2
    <2> QED
        BY <2>1
<1>2. at = CHOOSE g : g = Rule(g)
    BY DEF at
<1> HIDE DEF at
<1>3. at = Rule(at)
    <2> HIDE DEF Rule
    <2> QED
        BY <1>1, <1>2
<1>4. at[0] = start
    BY <1>3
<1>5. \A i \in 0 .. n - 1 : at[i + 1] = LinkOf(links, at[i])
    <2> TAKE i \in 0 .. n - 1
    <2>1. i + 1 \in 0 .. n /\ i + 1 # 0 /\ (i + 1) - 1 = i
        OBVIOUS
    <2> QED
        BY <1>3, <2>1 DEF LinkOf
<1> HIDE DEF Rule
<1> DEFINE T == {i \in Nat : i \in 0 .. n => at[i] = f[i]}
<1>6. 0 \in T
    BY <1>4
<1>7. \A i \in Nat : i \in T => i + 1 \in T
    <2> TAKE i \in Nat
    <2> HAVE i \in T
    <2>1. ASSUME i + 1 \in 0 .. n
          PROVE  at[i + 1] = f[i + 1]
        <3>1. i \in 0 .. n - 1 /\ i \in 0 .. n
            BY <2>1
        <3>2. at[i] = f[i]
            BY <3>1
        <3> QED
            BY <1>5, <3>1, <3>2
    <2>2. i + 1 \in Nat
        OBVIOUS
    <2> QED
        BY <2>1, <2>2
<1>8. \A i \in 0 .. n : at[i] = f[i]
    <2> HIDE DEF T
    <2>1. Nat \subseteq T
        BY <1>6, <1>7, NatSet
    <2>2. \A i \in 0 .. n : i \in T
        BY <2>1
    <2> QED
        BY <2>2 DEF T
<1>9. Walk(start, links, n) = [i \in 1 .. n |-> at[i - 1]]
    BY DEF Walk, at
<1> QED
    BY <1>8, <1>9

-----------------------------------------------------------------------------
(* Chains: m nodes, from h to t along nx and from t to h along pv.          *)

Chain(s, m, h, t, nx, pv) ==
    /\ m \in Nat /\ s \in [1 .. m -> Nodes]
    /\ \A i, j \in 1 .. m : s[i] = s[j] => i = j
    /\ h = IF m = 0 THEN Nothing ELSE s[1]
    /\ t = IF m = 0 THEN Nothing ELSE s[m]
    /\ \A i \in 1 .. m : nx[s[i]] = IF i = m THEN Nothing ELSE s[i + 1]
    /\ \A i \in 1 .. m : pv[s[i]] = IF i = 1 THEN Nothing ELSE s[i - 1]

Turned(s, m) == [i \in 1 .. m |-> s[m + 1 - i]]
Longer(s, m, n) == [i \in 1 .. m + 1 |-> IF i <= m THEN s[i] ELSE n]
Lower(s, m, n) == [i \in 1 .. m + 1 |-> IF i = 1 THEN n ELSE s[i - 1]]
RidOf(s, m, k) == [i \in 1 .. m - 1 |-> IF i < k THEN s[i] ELSE s[i + 1]]

\* The other way round, a chain is a chain.
LEMMA ChainTurned ==
    ASSUME NEW s, NEW m, NEW h, NEW t, NEW nx, NEW pv, Chain(s, m, h, t, nx, pv)
    PROVE  Chain(Turned(s, m), m, t, h, pv, nx)
<1> DEFINE r == Turned(s, m)
<1>1. m \in Nat /\ \A i \in 1 .. m : m + 1 - i \in 1 .. m /\ r[i] = s[m + 1 - i]
    BY DEF Chain, Turned
<1>2. r \in [1 .. m -> Nodes]
    BY <1>1 DEF Chain, Turned
<1>3. \A i, j \in 1 .. m : r[i] = r[j] => i = j
    <2> SUFFICES ASSUME NEW i \in 1 .. m, NEW j \in 1 .. m, r[i] = r[j]
                 PROVE  i = j
        OBVIOUS
    <2>1. m + 1 - i = m + 1 - j
        BY <1>1 DEF Chain
    <2> QED
        BY <1>1, <2>1
<1>4. /\ t = IF m = 0 THEN Nothing ELSE r[1]
      /\ h = IF m = 0 THEN Nothing ELSE r[m]
    <2>1. m # 0 => 1 \in 1 .. m /\ m \in 1 .. m /\ m + 1 - 1 = m /\ m + 1 - m = 1
        BY <1>1
    <2> QED
        BY <1>1, <2>1 DEF Chain
<1>5. \A i \in 1 .. m : pv[r[i]] = IF i = m THEN Nothing ELSE r[i + 1]
    <2> TAKE i \in 1 .. m
    <2>1. pv[r[i]] = IF m + 1 - i = 1 THEN Nothing ELSE s[(m + 1 - i) - 1]
        BY <1>1 DEF Chain
    <2>2. i # m => i + 1 \in 1 .. m /\ (m + 1 - i) - 1 = m + 1 - (i + 1)
        BY <1>1
    <2>3. m + 1 - i = 1 <=> i = m
        BY <1>1
    <2> HIDE DEF r
    <2> QED
        BY <1>1, <2>1, <2>2, <2>3
<1>6. \A i \in 1 .. m : nx[r[i]] = IF i = 1 THEN Nothing ELSE r[i - 1]
    <2> TAKE i \in 1 .. m
    <2>1. nx[r[i]] = IF m + 1 - i = m THEN Nothing ELSE s[(m + 1 - i) + 1]
        BY <1>1 DEF Chain
    <2>2. i # 1 => i - 1 \in 1 .. m /\ (m + 1 - i) + 1 = m + 1 - (i - 1)
        BY <1>1
    <2>3. m + 1 - i = m <=> i = 1
        BY <1>1
    <2> HIDE DEF r
    <2> QED
        BY <1>1, <2>1, <2>2, <2>3
<1> QED
    BY <1>1, <1>2, <1>3, <1>4, <1>5, <1>6 DEF Chain

\* From place k of a chain one meets the rest of it, and then nothing.
LEMMA ChainWalk ==
    ASSUME NEW s, NEW m, NEW h, NEW t, NEW nx, NEW pv, Chain(s, m, h, t, nx, pv),
           NEW n \in Nat, NEW k \in 1 .. m + 1, NEW start,
           start = IF k <= m THEN s[k] ELSE Nothing
    PROVE  Walk(start, nx, n)
             = [i \in 1 .. n |-> IF k + i - 1 <= m THEN s[k + i - 1] ELSE Nothing]
<1> USE ListAssumption
<1> DEFINE f == [i \in 0 .. n |-> IF k + i <= m THEN s[k + i] ELSE Nothing]
<1>1. m \in Nat /\ k \in Nat /\ k >= 1
    BY DEF Chain
<1>2. f \in [0 .. n -> Ends] /\ f[0] = start
    <2>1. \A i \in 0 .. n : k + i <= m => k + i \in 1 .. m
        BY <1>1
    <2>2. \A i \in 0 .. n : f[i] \in Ends
        BY <2>1 DEF Chain, Ends
    <2> QED
        BY <1>1, <2>2
<1>3. \A i \in 0 .. n - 1 : f[i + 1] = LinkOf(nx, f[i])
    <2> TAKE i \in 0 .. n - 1
    <2>1. /\ f[i] = IF k + i <= m THEN s[k + i] ELSE Nothing
          /\ f[i + 1] = IF k + (i + 1) <= m THEN s[k + (i + 1)] ELSE Nothing
        BY <1>1
    <2>2. CASE k + i <= m
        <3>1. k + i \in 1 .. m
            BY <1>1, <2>2
        <3>2. /\ s[k + i] \in Nodes
              /\ nx[s[k + i]] = IF k + i = m THEN Nothing ELSE s[(k + i) + 1]
            BY <3>1 DEF Chain
        <3>3. (k + i) + 1 = k + (i + 1) /\ (k + (i + 1) <= m <=> k + i # m)
            BY <1>1, <2>2
        <3> HIDE DEF f
        <3> QED
            BY <2>1, <2>2, <3>2, <3>3 DEF LinkOf
    <2>3. CASE ~(k + i <= m)
        <3>1. ~(k + (i + 1) <= m)
            BY <1>1, <2>3
        <3> HIDE DEF f
        <3> QED
            BY <2>1, <2>3, <3>1 DEF LinkOf
    <2> QED
        BY <2>2, <2>3
<1>4. \A i \in 1 .. n : f[i - 1] = IF k + i - 1 <= m THEN s[k + i - 1] ELSE Nothing
    <2> TAKE i \in 1 .. n
    <2>1. i - 1 \in 0 .. n /\ k + (i - 1) = k + i - 1
        BY <1>1
    <2> QED
        BY <2>1
<1> HIDE DEF f
<1>5. Walk(start, nx, n) = [i \in 1 .. n |-> f[i - 1]]
    BY <1>2, <1>3, WalkIs
<1> QED
    BY <1>4, <1>5

LEMMA ChainForth ==
    ASSUME NEW s, NEW m, NEW h, NEW t, NEW nx, NEW pv, Chain(s, m, h, t, nx, pv),
           NEW n \in Nat
    PROVE  Walk(h, nx, n) = [i \in 1 .. n |-> IF i <= m THEN s[i] ELSE Nothing]
<1>1. m \in Nat /\ 1 \in 1 .. m + 1 /\ h = IF 1 <= m THEN s[1] ELSE Nothing
    BY DEF Chain
<1>2. Walk(h, nx, n) = [i \in 1 .. n |-> IF 1 + i - 1 <= m THEN s[1 + i - 1] ELSE Nothing]
    BY <1>1, ChainWalk
<1>3. \A i \in 1 .. n : 1 + i - 1 = i
    OBVIOUS
<1> QED
    BY <1>2, <1>3

\* The sequence of a chain is what a walk along it meets.
LEMMA ChainIsWalk ==
    ASSUME NEW s, NEW m, NEW h, NEW t, NEW nx, NEW pv, Chain(s, m, h, t, nx, pv)
    PROVE  Walk(h, nx, m) = s
<1>1. m \in Nat /\ s \in [1 .. m -> Nodes]
    BY DEF Chain
<1>2. Walk(h, nx, m) = [i \in 1 .. m |-> IF i <= m THEN s[i] ELSE Nothing]
    BY <1>1, ChainForth
<1> QED
    BY <1>1, <1>2

\* The links of other nodes do not matter.
LEMMA ChainKept ==
    ASSUME NEW s, NEW m, NEW h, NEW t, NEW nx, NEW pv, NEW nx2, NEW pv2,
           Chain(s, m, h, t, nx, pv),
           \A i \in 1 .. m : nx2[s[i]] = nx[s[i]] /\ pv2[s[i]] = pv[s[i]]
    PROVE  Chain(s, m, h, t, nx2, pv2)
BY DEF Chain

\* list_rpush; turned, list_lpush.
LEMMA ChainLonger ==
    ASSUME NEW s, NEW m, NEW h, NEW t, NEW nx \in [Nodes -> Ends], NEW pv \in [Nodes -> Ends],
           Chain(s, m, h, t, nx, pv),
           NEW n \in Nodes, \A i \in 1 .. m : s[i] # n
    PROVE  Chain(Longer(s, m, n), m + 1, IF m > 0 THEN h ELSE n, n,
                 Set(IF m > 0 THEN Set(nx, t, n) ELSE nx, n, Nothing),
                 Set(pv, n, IF m > 0 THEN t ELSE Nothing))
<1> DEFINE r == Longer(s, m, n)
           nx2 == Set(IF m > 0 THEN Set(nx, t, n) ELSE nx, n, Nothing)
           pv2 == Set(pv, n, IF m > 0 THEN t ELSE Nothing)
<1>1. /\ m \in Nat /\ s \in [1 .. m -> Nodes]
      /\ \A i \in 1 .. m : s[i] \in Nodes /\ s[i] # n
      /\ m > 0 => t = s[m] /\ h = s[1] /\ m \in 1 .. m /\ 1 \in 1 .. m
    BY DEF Chain
<1>2. /\ \A i \in 1 .. m : i \in 1 .. m + 1 /\ r[i] = s[i]
      /\ m + 1 \in 1 .. m + 1 /\ r[m + 1] = n
      /\ \A i \in 1 .. m + 1 : i \in 1 .. m \/ i = m + 1
    BY <1>1 DEF Longer
<1>3. r \in [1 .. m + 1 -> Nodes]
    BY <1>1 DEF Longer
<1>4. /\ nx2[n] = Nothing
      /\ m > 0 => nx2[t] = n
      /\ \A e \in Nodes : e # n /\ (m > 0 => e # t) => nx2[e] = nx[e]
    BY <1>1 DEF Set
<1>5. /\ pv2[n] = IF m > 0 THEN t ELSE Nothing
      /\ \A e \in Nodes : e # n => pv2[e] = pv[e]
    BY <1>1 DEF Set
<1> HIDE DEF r, nx2, pv2
<1>6. \A i, j \in 1 .. m + 1 : r[i] = r[j] => i = j
    BY <1>1, <1>2 DEF Chain
<1>7. \A i \in 1 .. m + 1 : nx2[r[i]] = IF i = m + 1 THEN Nothing ELSE r[i + 1]
    <2> TAKE i \in 1 .. m + 1
    <2>1. CASE i = m + 1
        BY <1>2, <1>4, <2>1
    <2>2. CASE i \in 1 .. m /\ i = m
        BY <1>1, <1>2, <1>4, <2>2
    <2>3. CASE i \in 1 .. m /\ i # m
        <3>1. m > 0 /\ i + 1 \in 1 .. m /\ i # m + 1 /\ s[i] # t
            BY <1>1, <2>3 DEF Chain
        <3>2. nx2[s[i]] = nx[s[i]] /\ nx[s[i]] = s[i + 1]
            BY <1>1, <1>4, <2>3, <3>1 DEF Chain
        <3> QED
            BY <1>2, <2>3, <3>1, <3>2
    <2> QED
        BY <1>2, <2>1, <2>2, <2>3
<1>8. \A i \in 1 .. m + 1 : pv2[r[i]] = IF i = 1 THEN Nothing ELSE r[i - 1]
    <2> TAKE i \in 1 .. m + 1
    <2>1. CASE i = m + 1
        <3>1. i # 1 => m > 0 /\ i - 1 = m
            BY <1>1, <2>1
        <3>2. i = 1 => ~(m > 0)
            BY <1>1, <2>1
        <3> QED
            BY <1>1, <1>2, <1>5, <2>1, <3>1, <3>2
    <2>2. CASE i \in 1 .. m
        <3>1. i # 1 => i - 1 \in 1 .. m
            BY <1>1, <2>2
        <3>2. pv2[s[i]] = pv[s[i]] /\ pv[s[i]] = IF i = 1 THEN Nothing ELSE s[i - 1]
            BY <1>1, <1>5, <2>2 DEF Chain
        <3> QED
            BY <1>2, <2>2, <3>1, <3>2
    <2> QED
        BY <1>2, <2>1, <2>2
<1>9. (IF m > 0 THEN h ELSE n) = r[1] /\ m + 1 \in Nat /\ m + 1 # 0
    BY <1>1, <1>2
<1> QED
    BY <1>2, <1>3, <1>6, <1>7, <1>8, <1>9 DEF Chain, r, nx2, pv2

\* list_remove of the node at place k.  A pop unlinks as much, and clears the links of
\* the node besides.
LEMMA ChainRid ==
    ASSUME NEW s, NEW m, NEW h, NEW t, NEW nx \in [Nodes -> Ends], NEW pv \in [Nodes -> Ends],
           Chain(s, m, h, t, nx, pv),
           NEW k \in 1 .. m, NEW n, n = s[k]
    PROVE  Chain(RidOf(s, m, k), m - 1,
                 IF pv[n] # Nothing THEN h ELSE nx[n],
                 IF nx[n] # Nothing THEN t ELSE pv[n],
                 IF pv[n] # Nothing THEN Set(nx, pv[n], nx[n]) ELSE nx,
                 IF nx[n] # Nothing THEN Set(pv, nx[n], pv[n]) ELSE pv)
<1> USE ListAssumption
<1> DEFINE r == RidOf(s, m, k)
           nx2 == IF pv[n] # Nothing THEN Set(nx, pv[n], nx[n]) ELSE nx
           pv2 == IF nx[n] # Nothing THEN Set(pv, nx[n], pv[n]) ELSE pv
<1>1. /\ m \in Nat /\ m > 0 /\ m - 1 \in Nat /\ s \in [1 .. m -> Nodes]
      /\ \A i \in 1 .. m : s[i] \in Nodes
      /\ t = s[m] /\ h = s[1] /\ m \in 1 .. m /\ 1 \in 1 .. m
    BY DEF Chain
<1>2. /\ nx[n] = IF k = m THEN Nothing ELSE s[k + 1]
      /\ pv[n] = IF k = 1 THEN Nothing ELSE s[k - 1]
      /\ k # m => k + 1 \in 1 .. m
      /\ k # 1 => k - 1 \in 1 .. m
    BY <1>1 DEF Chain
<1>3. (nx[n] # Nothing <=> k # m) /\ (pv[n] # Nothing <=> k # 1)
    BY <1>1, <1>2
<1>4. \A i \in 1 .. m - 1 :
          /\ i \in 1 .. m /\ i + 1 \in 1 .. m
          /\ r[i] = IF i < k THEN s[i] ELSE s[i + 1]
    BY <1>1 DEF RidOf
<1>5. r \in [1 .. m - 1 -> Nodes]
    BY <1>1, <1>4 DEF RidOf
<1>6. /\ k # 1 => nx2[s[k - 1]] = IF k = m THEN Nothing ELSE s[k + 1]
      /\ \A i \in 1 .. m : i # k - 1 => nx2[s[i]] = nx[s[i]]
    <2>1. k # 1 => nx2 = Set(nx, s[k - 1], nx[n])
        BY <1>2, <1>3
    <2>2. k = 1 => nx2 = nx
        BY <1>3
    <2>3. \A i \in 1 .. m : k # 1 /\ i # k - 1 => s[i] # s[k - 1]
        BY <1>2 DEF Chain
    <2> HIDE DEF nx2
    <2> QED
        BY <1>1, <1>2, <2>1, <2>2, <2>3 DEF Set
<1>7. /\ k # m => pv2[s[k + 1]] = IF k = 1 THEN Nothing ELSE s[k - 1]
      /\ \A i \in 1 .. m : i # k + 1 => pv2[s[i]] = pv[s[i]]
    <2>1. k # m => pv2 = Set(pv, s[k + 1], pv[n])
        BY <1>2, <1>3
    <2>2. k = m => pv2 = pv
        BY <1>3
    <2>3. \A i \in 1 .. m : k # m /\ i # k + 1 => s[i] # s[k + 1]
        BY <1>2 DEF Chain
    <2> HIDE DEF pv2
    <2> QED
        BY <1>1, <1>2, <2>1, <2>2, <2>3 DEF Set
<1>8. /\ (IF pv[n] # Nothing THEN h ELSE nx[n]) = IF m - 1 = 0 THEN Nothing ELSE r[1]
      /\ (IF nx[n] # Nothing THEN t ELSE pv[n]) = IF m - 1 = 0 THEN Nothing ELSE r[m - 1]
    <2>1. m - 1 # 0 => 1 \in 1 .. m - 1 /\ m - 1 \in 1 .. m - 1
        BY <1>1
    <2>2. /\ k # 1 => 1 < k /\ m - 1 # 0
          /\ k = 1 => ~(1 < k)
          /\ k # m => ~(m - 1 < k) /\ m - 1 # 0
          /\ k = m => m - 1 < k
          /\ 1 + 1 = 2 /\ (m - 1) + 1 = m
        BY <1>1
    <2>3. m - 1 = 0 => k = 1 /\ k = m
        BY <1>1
    <2>4. /\ (IF pv[n] # Nothing THEN h ELSE nx[n]) = IF k # 1 THEN s[1] ELSE nx[n]
          /\ (IF nx[n] # Nothing THEN t ELSE pv[n]) = IF k # m THEN s[m] ELSE pv[n]
        BY <1>1, <1>3
    <2> HIDE DEF r
    <2>5. CASE m - 1 = 0
        BY <1>2, <2>3, <2>4, <2>5
    <2>6. CASE m - 1 # 0
        <3>1. /\ r[1] = IF 1 < k THEN s[1] ELSE s[1 + 1]
              /\ r[m - 1] = IF m - 1 < k THEN s[m - 1] ELSE s[(m - 1) + 1]
            BY <1>4, <2>1, <2>6
        <3>2. k = 1 => k # m /\ nx[n] = s[1 + 1]
            BY <1>1, <1>2, <2>6
        <3>3. k = m => k # 1 /\ pv[n] = s[m - 1]
            BY <1>1, <1>2, <2>6
        <3> QED
            BY <2>2, <2>4, <2>6, <3>1, <3>2, <3>3
    <2> QED
        BY <2>5, <2>6
<1> HIDE DEF r, nx2, pv2
<1>9. \A i, j \in 1 .. m - 1 : r[i] = r[j] => i = j
    <2> SUFFICES ASSUME NEW i \in 1 .. m - 1, NEW j \in 1 .. m - 1, r[i] = r[j]
                 PROVE  i = j
        OBVIOUS
    <2>1. \A a, b \in 1 .. m : s[a] = s[b] => a = b
        BY DEF Chain
    <2>2. /\ i < k /\ j < k => i = j
          /\ ~(i < k) /\ ~(j < k) => i + 1 = j + 1
          /\ i < k /\ ~(j < k) => i = j + 1
          /\ ~(i < k) /\ j < k => i + 1 = j
        BY <1>4, <2>1
    <2> QED
        BY <1>1, <2>2
<1>10. \A i \in 1 .. m - 1 : nx2[r[i]] = IF i = m - 1 THEN Nothing ELSE r[i + 1]
    <2> TAKE i \in 1 .. m - 1
    <2>1. i # m - 1 => /\ i + 1 \in 1 .. m - 1
                       /\ r[i + 1] = IF i + 1 < k THEN s[i + 1] ELSE s[(i + 1) + 1]
        BY <1>1, <1>4
    <2>2. CASE i < k /\ i # k - 1
        <3>1. i + 1 < k /\ i # m - 1 /\ i # m
            BY <1>1, <2>2
        <3>2. nx2[s[i]] = nx[s[i]] /\ nx[s[i]] = s[i + 1]
            BY <1>4, <1>6, <2>2, <3>1 DEF Chain
        <3> QED
            BY <1>4, <2>1, <2>2, <3>1, <3>2
    <2>3. CASE i = k - 1
        <3>1. i < k /\ ~(i + 1 < k) /\ k # 1 /\ i + 1 = k /\ (i + 1) + 1 = k + 1
              /\ (i = m - 1 <=> k = m)
            BY <1>1, <2>3
        <3>2. r[i] = s[k - 1]
            BY <1>4, <2>3, <3>1
        <3>3. nx2[s[k - 1]] = IF k = m THEN Nothing ELSE s[k + 1]
            BY <1>6, <3>1
        <3> QED
            BY <2>1, <3>1, <3>2, <3>3
    <2>4. CASE ~(i < k)
        <3>1. ~(i + 1 < k) /\ i + 1 # k - 1 /\ (i + 1 = m <=> i = m - 1)
            BY <1>1, <2>4
        <3>2. /\ nx2[s[i + 1]] = nx[s[i + 1]]
              /\ nx[s[i + 1]] = IF i + 1 = m THEN Nothing ELSE s[(i + 1) + 1]
            BY <1>4, <1>6, <3>1 DEF Chain
        <3> QED
            BY <1>4, <2>1, <2>4, <3>1, <3>2
    <2> QED
        BY <2>2, <2>3, <2>4
<1>11. \A i \in 1 .. m - 1 : pv2[r[i]] = IF i = 1 THEN Nothing ELSE r[i - 1]
    <2> TAKE i \in 1 .. m - 1
    <2>1. i # 1 => /\ i - 1 \in 1 .. m - 1 /\ (i - 1) + 1 = i
                   /\ r[i - 1] = IF i - 1 < k THEN s[i - 1] ELSE s[(i - 1) + 1]
        BY <1>1, <1>4
    <2>2. CASE i < k
        <3>1. i - 1 < k /\ i # k + 1
            BY <1>1, <2>2
        <3>2. /\ pv2[s[i]] = pv[s[i]]
              /\ pv[s[i]] = IF i = 1 THEN Nothing ELSE s[i - 1]
            BY <1>4, <1>7, <3>1 DEF Chain
        <3> QED
            BY <1>4, <2>1, <2>2, <3>1, <3>2
    <2>3. CASE i = k
        <3>1. ~(i < k) /\ i - 1 < k /\ i + 1 = k + 1 /\ k # m /\ i - 1 = k - 1
            BY <1>1, <2>3
        <3>2. pv2[s[k + 1]] = IF k = 1 THEN Nothing ELSE s[k - 1]
            BY <1>7, <3>1
        <3>3. r[i] = s[k + 1]
            BY <1>4, <3>1
        <3> QED
            BY <2>1, <2>3, <3>1, <3>2, <3>3
    <2>4. CASE i > k
        <3>1. ~(i < k) /\ ~(i - 1 < k) /\ i + 1 # k + 1 /\ i # 1 /\ i + 1 # 1 /\ (i + 1) - 1 = i
            BY <1>1, <2>4
        <3>2. pv2[s[i + 1]] = pv[s[i + 1]] /\ pv[s[i + 1]] = s[(i + 1) - 1]
            BY <1>4, <1>7, <3>1 DEF Chain
        <3> QED
            BY <1>4, <2>1, <2>4, <3>1, <3>2
    <2> QED
        BY <1>1, <2>2, <2>3, <2>4
<1> QED
    BY <1>1, <1>5, <1>8, <1>9, <1>10, <1>11 DEF Chain, r, nx2, pv2

\* The node taken out is not in what is left.
LEMMA RidApart ==
    ASSUME NEW s, NEW m, NEW h, NEW t, NEW nx, NEW pv, Chain(s, m, h, t, nx, pv),
           NEW k \in 1 .. m
    PROVE  /\ \A i \in 1 .. m - 1 : RidOf(s, m, k)[i] # s[k]
           /\ {RidOf(s, m, k)[i] : i \in 1 .. m - 1} = {s[i] : i \in 1 .. m} \ {s[k]}
<1> DEFINE r == RidOf(s, m, k)
<1>1. m \in Nat /\ \A i, j \in 1 .. m : s[i] = s[j] => i = j
    BY DEF Chain
<1>2. \A i \in 1 .. m - 1 :
          /\ i \in 1 .. m /\ i + 1 \in 1 .. m
          /\ r[i] = IF i < k THEN s[i] ELSE s[i + 1]
    BY <1>1 DEF RidOf
<1> HIDE DEF r
<1>3. \A i \in 1 .. m - 1 : r[i] # s[k]
    BY <1>1, <1>2
<1>4. \A i \in 1 .. m : i # k => \E j \in 1 .. m - 1 : r[j] = s[i]
    <2> SUFFICES ASSUME NEW i \in 1 .. m, i # k
                 PROVE  \E j \in 1 .. m - 1 : r[j] = s[i]
        OBVIOUS
    <2>1. CASE i < k
        <3>1. i \in 1 .. m - 1
            BY <1>1, <2>1
        <3> QED
            BY <1>2, <2>1, <3>1
    <2>2. CASE i > k
        <3>1. i - 1 \in 1 .. m - 1 /\ ~(i - 1 < k) /\ (i - 1) + 1 = i
            BY <1>1, <2>2
        <3> QED
            BY <1>2, <3>1
    <2> QED
        BY <1>1, <2>1, <2>2
<1>5. \A i \in 1 .. m - 1 : r[i] \in {s[j] : j \in 1 .. m}
    BY <1>2
<1>6. {r[i] : i \in 1 .. m - 1} \subseteq {s[i] : i \in 1 .. m} \ {s[k]}
    BY <1>3, <1>5
<1>7. {s[i] : i \in 1 .. m} \ {s[k]} \subseteq {r[i] : i \in 1 .. m - 1}
    BY <1>4
<1> QED
    BY <1>3, <1>6, <1>7 DEF r

\* list_rpop: the node unlinked is the last one; its links are cleared.
LEMMA ChainRpop ==
    ASSUME NEW s, NEW m, NEW h, NEW t, NEW nx \in [Nodes -> Ends], NEW pv \in [Nodes -> Ends],
           Chain(s, m, h, t, nx, pv), m > 0
    PROVE  Chain(RidOf(s, m, m), m - 1, IF m > 1 THEN h ELSE Nothing,
                 IF m > 1 THEN pv[t] ELSE Nothing,
                 Set(IF m > 1 THEN Set(nx, pv[t], Nothing) ELSE nx, t, Nothing),
                 Set(pv, t, Nothing))
<1> USE ListAssumption
<1> DEFINE r == RidOf(s, m, m)
           nx1 == IF m > 1 THEN Set(nx, pv[t], Nothing) ELSE nx
<1>1. /\ m \in Nat /\ m \in 1 .. m /\ t = s[m] /\ h = s[1] /\ s \in [1 .. m -> Nodes]
      /\ nx[t] = Nothing /\ pv[t] = IF m = 1 THEN Nothing ELSE s[m - 1]
      /\ m # 1 => m - 1 \in 1 .. m
    BY DEF Chain
<1>2. (pv[t] # Nothing <=> m > 1) /\ (m > 1 <=> m # 1)
    BY <1>1
<1>3. Chain(r, m - 1, IF pv[t] # Nothing THEN h ELSE nx[t],
            IF nx[t] # Nothing THEN t ELSE pv[t],
            IF pv[t] # Nothing THEN Set(nx, pv[t], nx[t]) ELSE nx,
            IF nx[t] # Nothing THEN Set(pv, nx[t], pv[t]) ELSE pv)
    BY <1>1, ChainRid
<1>4. Chain(r, m - 1, IF m > 1 THEN h ELSE Nothing, IF m > 1 THEN pv[t] ELSE Nothing, nx1, pv)
    <2>1. /\ (IF pv[t] # Nothing THEN h ELSE nx[t]) = IF m > 1 THEN h ELSE Nothing
          /\ (IF nx[t] # Nothing THEN t ELSE pv[t]) = IF m > 1 THEN pv[t] ELSE Nothing
          /\ (IF pv[t] # Nothing THEN Set(nx, pv[t], nx[t]) ELSE nx) = nx1
          /\ (IF nx[t] # Nothing THEN Set(pv, nx[t], pv[t]) ELSE pv) = pv
        BY <1>1, <1>2
    <2> HIDE DEF r, nx1
    <2> QED
        BY <1>3, <2>1
<1>5. \A i \in 1 .. m - 1 : r[i] # t
    BY <1>1, RidApart
<1>6. nx1 \in [Nodes -> Ends]
    BY <1>1, <1>2 DEF Set, Ends
<1>7. \A i \in 1 .. m - 1 : r[i] \in Nodes
    BY <1>4 DEF Chain
<1> HIDE DEF r, nx1
<1>8. \A i \in 1 .. m - 1 :
          Set(nx1, t, Nothing)[r[i]] = nx1[r[i]] /\ Set(pv, t, Nothing)[r[i]] = pv[r[i]]
    BY <1>5, <1>6, <1>7 DEF Set
<1>9. Chain(r, m - 1, IF m > 1 THEN h ELSE Nothing, IF m > 1 THEN pv[t] ELSE Nothing,
            Set(nx1, t, Nothing), Set(pv, t, Nothing))
    BY <1>4, <1>8, ChainKept
<1> QED
    BY <1>9 DEF r, nx1

-----------------------------------------------------------------------------
(* The same sequences turned.                                               *)

LEMMA TurnedTurned ==
    ASSUME NEW m \in Nat, NEW s \in [1 .. m -> Nodes]
    PROVE  Turned(Turned(s, m), m) = s
<1>1. \A i \in 1 .. m : m + 1 - i \in 1 .. m /\ m + 1 - (m + 1 - i) = i
    OBVIOUS
<1> QED
    BY <1>1 DEF Turned

LEMMA TurnedLonger ==
    ASSUME NEW m \in Nat, NEW s \in [1 .. m -> Nodes], NEW n \in Nodes
    PROVE  /\ Turned(Longer(s, m, n), m + 1) = Lower(Turned(s, m), m, n)
           /\ Turned(Lower(s, m, n), m + 1) = Longer(Turned(s, m), m, n)
<1>1. \A i \in 1 .. m + 1 : /\ (m + 1) + 1 - i \in 1 .. m + 1
                            /\ (m + 1) + 1 - i <= m <=> i # 1
                            /\ (m + 1) + 1 - i = 1 <=> ~(i <= m)
                            /\ i # 1 => i - 1 \in 1 .. m
                            /\ m + 1 - (i - 1) = (m + 1) + 1 - i
                            /\ ((m + 1) + 1 - i) - 1 = m + 1 - i
    OBVIOUS
<1>2. \A i \in 1 .. m + 1 : Turned(Longer(s, m, n), m + 1)[i] = Lower(Turned(s, m), m, n)[i]
    BY <1>1 DEF Turned, Longer, Lower
<1>3. \A i \in 1 .. m + 1 : Turned(Lower(s, m, n), m + 1)[i] = Longer(Turned(s, m), m, n)[i]
    BY <1>1 DEF Turned, Longer, Lower
<1> QED
    BY <1>2, <1>3 DEF Turned, Longer, Lower

LEMMA TurnedRidOf ==
    ASSUME NEW m \in Nat, NEW s \in [1 .. m -> Nodes], NEW k \in 1 .. m
    PROVE  Turned(RidOf(s, m, k), m - 1) = RidOf(Turned(s, m), m, m + 1 - k)
<1>1. \A i \in 1 .. m - 1 : /\ (m - 1) + 1 - i \in 1 .. m - 1
                            /\ (m - 1) + 1 - i < k <=> ~(i < m + 1 - k)
                            /\ i \in 1 .. m /\ i + 1 \in 1 .. m
                            /\ m + 1 - (i + 1) = (m - 1) + 1 - i
                            /\ m + 1 - i = ((m - 1) + 1 - i) + 1
    OBVIOUS
<1>2. \A i \in 1 .. m - 1 :
          Turned(RidOf(s, m, k), m - 1)[i] = RidOf(Turned(s, m), m, m + 1 - k)[i]
    BY <1>1 DEF Turned, RidOf
<1> QED
    BY <1>2 DEF Turned, RidOf

\* list_lpush
LEMMA ChainLower ==
    ASSUME NEW s, NEW m, NEW h, NEW t, NEW nx \in [Nodes -> Ends], NEW pv \in [Nodes -> Ends],
           Chain(s, m, h, t, nx, pv),
           NEW n \in Nodes, \A i \in 1 .. m : s[i] # n
    PROVE  Chain(Lower(s, m, n), m + 1, n, IF m > 0 THEN t ELSE n,
                 Set(nx, n, IF m > 0 THEN h ELSE Nothing),
                 Set(IF m > 0 THEN Set(pv, h, n) ELSE pv, n, Nothing))
<1> DEFINE r == Turned(s, m)
           l == Longer(r, m, n)
<1>1. m \in Nat /\ s \in [1 .. m -> Nodes]
    BY DEF Chain
<1>2. Chain(r, m, t, h, pv, nx)
    BY ChainTurned
<1>3. \A i \in 1 .. m : r[i] # n
    BY <1>1 DEF Turned
<1>4. Turned(r, m) = s /\ r \in [1 .. m -> Nodes]
    BY <1>1, <1>2, TurnedTurned DEF Chain
<1> HIDE DEF r
<1>5. Chain(l, m + 1, IF m > 0 THEN t ELSE n, n,
            Set(IF m > 0 THEN Set(pv, h, n) ELSE pv, n, Nothing),
            Set(nx, n, IF m > 0 THEN h ELSE Nothing))
    BY <1>2, <1>3, ChainLonger
<1>6. Turned(l, m + 1) = Lower(s, m, n)
    BY <1>1, <1>4, TurnedLonger
<1> HIDE DEF l
<1> QED
    BY <1>5, <1>6, ChainTurned

\* list_lpop
LEMMA ChainLpop ==
    ASSUME NEW s, NEW m, NEW h, NEW t, NEW nx \in [Nodes -> Ends], NEW pv \in [Nodes -> Ends],
           Chain(s, m, h, t, nx, pv), m > 0
    PROVE  Chain(RidOf(s, m, 1), m - 1, IF m > 1 THEN nx[h] ELSE Nothing,
                 IF m > 1 THEN t ELSE Nothing,
                 Set(nx, h, Nothing),
                 Set(IF m > 1 THEN Set(pv, nx[h], Nothing) ELSE pv, h, Nothing))
<1> DEFINE r == Turned(s, m)
           l == RidOf(r, m, m)
<1>1. m \in Nat /\ s \in [1 .. m -> Nodes] /\ m \in 1 .. m /\ m + 1 - m = 1
    BY DEF Chain
<1>2. Chain(r, m, t, h, pv, nx)
    BY ChainTurned
<1>3. Turned(r, m) = s /\ r \in [1 .. m -> Nodes]
    BY <1>1, <1>2, TurnedTurned DEF Chain
<1> HIDE DEF r
<1>4. Chain(l, m - 1, IF m > 1 THEN t ELSE Nothing, IF m > 1 THEN nx[h] ELSE Nothing,
            Set(IF m > 1 THEN Set(pv, nx[h], Nothing) ELSE pv, h, Nothing),
            Set(nx, h, Nothing))
    BY <1>2, ChainRpop
<1>5. Turned(l, m - 1) = RidOf(s, m, 1)
    BY <1>1, <1>3, TurnedRidOf
<1> HIDE DEF l
<1> QED
    BY <1>4, <1>5, ChainTurned

-----------------------------------------------------------------------------
(* Iterations.                                                              *)

\* An iteration over o, of length m: it returned sn, is at nxt, and was to return pl.
\* What it has not returned of that lies ahead without a gap.
Course(o, m, nxt, sn, pl) ==
    /\ \A i, j \in 1 .. Len(pl) : pl[i] = pl[j] => i = j
    /\ \A i \in 1 .. Len(sn) : i <= Len(pl) => sn[i] = pl[i]
    /\ nxt = Nothing => Len(pl) <= Len(sn)
    /\ nxt # Nothing =>
           /\ sn # <<>> => nxt # sn[Len(sn)]
           /\ \E k \in 1 .. m :
                 /\ o[k] = nxt
                 /\ \A j \in 1 .. Len(pl) - Len(sn) :
                       k + j - 1 <= m /\ o[k + j - 1] = pl[Len(sn) + j]

LEMMA CourseLonger ==
    ASSUME NEW m \in Nat, NEW o \in [1 .. m -> Nodes], NEW n \in Nodes, NEW nxt,
           NEW sn \in Seq(Nodes), NEW pl \in Seq(Nodes), Course(o, m, nxt, sn, pl)
    PROVE  Course(Longer(o, m, n), m + 1, nxt, sn, pl)
<1> DEFINE r == Longer(o, m, n)
<1>1. \A i \in 1 .. m : i \in 1 .. m + 1 /\ i <= m + 1 /\ r[i] = o[i]
    BY DEF Longer
<1>2. Len(pl) \in Nat /\ Len(sn) \in Nat
    BY LenProperties
<1> HIDE DEF r
<1>3. ASSUME nxt # Nothing
      PROVE  \E k \in 1 .. m + 1 :
                 /\ r[k] = nxt
                 /\ \A j \in 1 .. Len(pl) - Len(sn) :
                       k + j - 1 <= m + 1 /\ r[k + j - 1] = pl[Len(sn) + j]
    <2>1. PICK k \in 1 .. m :
              /\ o[k] = nxt
              /\ \A j \in 1 .. Len(pl) - Len(sn) :
                    k + j - 1 <= m /\ o[k + j - 1] = pl[Len(sn) + j]
        BY <1>3 DEF Course
    <2>2. \A j \in 1 .. Len(pl) - Len(sn) :
              k + j - 1 \in 1 .. m /\ o[k + j - 1] = pl[Len(sn) + j]
        BY <1>2, <2>1
    <2> QED
        BY <1>1, <2>1, <2>2
<1> QED
    BY <1>3 DEF Course, r

LEMMA CourseLower ==
    ASSUME NEW m \in Nat, NEW o \in [1 .. m -> Nodes], NEW n \in Nodes, NEW nxt,
           NEW sn \in Seq(Nodes), NEW pl \in Seq(Nodes), Course(o, m, nxt, sn, pl)
    PROVE  Course(Lower(o, m, n), m + 1, nxt, sn, pl)
<1> DEFINE r == Lower(o, m, n)
<1>1. \A i \in 1 .. m : i + 1 \in 1 .. m + 1 /\ r[i + 1] = o[i]
    BY DEF Lower
<1>2. Len(pl) \in Nat /\ Len(sn) \in Nat
    BY LenProperties
<1> HIDE DEF r
<1>3. ASSUME nxt # Nothing
      PROVE  \E k \in 1 .. m + 1 :
                 /\ r[k] = nxt
                 /\ \A j \in 1 .. Len(pl) - Len(sn) :
                       k + j - 1 <= m + 1 /\ r[k + j - 1] = pl[Len(sn) + j]
    <2>1. PICK k \in 1 .. m :
              /\ o[k] = nxt
              /\ \A j \in 1 .. Len(pl) - Len(sn) :
                    k + j - 1 <= m /\ o[k + j - 1] = pl[Len(sn) + j]
        BY <1>3 DEF Course
    <2>2. \A j \in 1 .. Len(pl) - Len(sn) :
              /\ k + j - 1 \in 1 .. m /\ o[k + j - 1] = pl[Len(sn) + j]
              /\ (k + j - 1) + 1 = (k + 1) + j - 1 /\ (k + 1) + j - 1 <= m + 1
        BY <1>2, <2>1
    <2>3. \A j \in 1 .. Len(pl) - Len(sn) :
              (k + 1) + j - 1 <= m + 1 /\ r[(k + 1) + j - 1] = pl[Len(sn) + j]
        <3> TAKE j \in 1 .. Len(pl) - Len(sn)
        <3>1. r[(k + j - 1) + 1] = o[k + j - 1]
            BY <1>1, <2>2
        <3> QED
            BY <2>2, <3>1
    <2> QED
        BY <1>1, <2>1, <2>3
<1> QED
    BY <1>3 DEF Course, r

\* While the iteration has nodes to come, only the one it returned last may go.
LEMMA CourseRid ==
    ASSUME NEW m \in Nat, NEW o \in [1 .. m -> Nodes], NEW e \in 1 .. m, NEW nxt,
           NEW sn \in Seq(Nodes), NEW pl \in Seq(Nodes), Course(o, m, nxt, sn, pl),
           \A i, j \in 1 .. m : o[i] = o[j] => i = j,
           nxt # Nothing => sn # <<>> /\ o[e] = sn[Len(sn)]
    PROVE  Course(RidOf(o, m, e), m - 1, nxt, sn, pl)
<1> DEFINE r == RidOf(o, m, e)
<1>1. \A i \in 1 .. m - 1 : r[i] = IF i < e THEN o[i] ELSE o[i + 1]
    BY DEF RidOf
<1>2. Len(pl) \in Nat /\ Len(sn) \in Nat /\ (sn # <<>> => Len(sn) > 0)
    BY EmptySeq, LenProperties
<1> HIDE DEF r
<1>3. ASSUME nxt # Nothing
      PROVE  \E k \in 1 .. m - 1 :
                 /\ r[k] = nxt
                 /\ \A j \in 1 .. Len(pl) - Len(sn) :
                       k + j - 1 <= m - 1 /\ r[k + j - 1] = pl[Len(sn) + j]
    <2>1. PICK k \in 1 .. m :
              /\ o[k] = nxt
              /\ \A j \in 1 .. Len(pl) - Len(sn) :
                    k + j - 1 <= m /\ o[k + j - 1] = pl[Len(sn) + j]
        BY <1>3 DEF Course
    <2>2. nxt # sn[Len(sn)] /\ o[e] = sn[Len(sn)] /\ Len(sn) > 0
        BY <1>2, <1>3 DEF Course
    <2>3. k # e
        BY <2>1, <2>2
    <2>4. CASE e < k
        <3>1. k - 1 \in 1 .. m - 1 /\ ~(k - 1 < e) /\ (k - 1) + 1 = k
            BY <2>4
        <3>2. r[k - 1] = nxt
            BY <1>1, <2>1, <3>1
        <3>3. ASSUME NEW j \in 1 .. Len(pl) - Len(sn)
              PROVE  (k - 1) + j - 1 <= m - 1 /\ r[(k - 1) + j - 1] = pl[Len(sn) + j]
            <4>1. k + j - 1 <= m /\ o[k + j - 1] = pl[Len(sn) + j]
                BY <2>1
            <4>2. /\ (k - 1) + j - 1 \in 1 .. m - 1 /\ ~((k - 1) + j - 1 < e)
                  /\ ((k - 1) + j - 1) + 1 = k + j - 1
                BY <1>2, <2>4, <4>1
            <4>3. r[(k - 1) + j - 1] = o[((k - 1) + j - 1) + 1]
                BY <1>1, <4>2
            <4> QED
                BY <4>1, <4>2, <4>3
        <3> QED
            BY <3>1, <3>2, <3>3
    <2>5. CASE k < e
        <3>1. k \in 1 .. m - 1
            BY <2>5
        <3>2. r[k] = nxt
            BY <1>1, <2>1, <2>5, <3>1
        <3>3. \A j \in 1 .. Len(pl) - Len(sn) : k + j - 1 # e
            <4> SUFFICES ASSUME NEW j \in 1 .. Len(pl) - Len(sn), k + j - 1 = e
                         PROVE  FALSE
                OBVIOUS
            <4>1. o[e] = pl[Len(sn) + j]
                BY <2>1
            <4>2. /\ Len(sn) \in 1 .. Len(sn) /\ Len(sn) <= Len(pl) /\ Len(sn) \in 1 .. Len(pl)
                  /\ Len(sn) + j \in 1 .. Len(pl) /\ Len(sn) + j # Len(sn)
                BY <1>2, <2>2
            <4>3. sn[Len(sn)] = pl[Len(sn)]
                BY <4>2 DEF Course
            <4>4. \A a, b \in 1 .. Len(pl) : pl[a] = pl[b] => a = b
                BY DEF Course
            <4>5. pl[Len(sn) + j] = pl[Len(sn)]
                BY <2>2, <4>1, <4>3
            <4> QED
                BY <4>2, <4>4, <4>5
        <3>4. ASSUME NEW j \in 1 .. Len(pl) - Len(sn)
              PROVE  k + j - 1 < e
            <4> SUFFICES ASSUME ~(k + j - 1 < e) PROVE FALSE
                OBVIOUS
            <4>1. e - k + 1 \in 1 .. Len(pl) - Len(sn) /\ k + (e - k + 1) - 1 = e
                BY <1>2, <2>5
            <4> QED
                BY <3>3, <4>1
        <3>5. ASSUME NEW j \in 1 .. Len(pl) - Len(sn)
              PROVE  k + j - 1 <= m - 1 /\ r[k + j - 1] = pl[Len(sn) + j]
            <4>1. k + j - 1 < e
                BY <3>4
            <4>2. k + j - 1 \in 1 .. m - 1 /\ k + j - 1 <= m - 1
                BY <1>2, <4>1
            <4>3. r[k + j - 1] = o[k + j - 1]
                BY <1>1, <4>1, <4>2
            <4> QED
                BY <2>1, <4>2, <4>3
        <3> QED
            BY <3>1, <3>2, <3>5
    <2> QED
        BY <2>3, <2>4, <2>5
<1> QED
    BY <1>3 DEF Course, r

\* list_iterator_new
LEMMA CourseNew ==
    ASSUME NEW m \in Nat, NEW o \in [1 .. m -> Nodes],
           \A i, j \in 1 .. m : o[i] = o[j] => i = j,
           NEW nxt, nxt = IF m = 0 THEN Nothing ELSE o[1]
    PROVE  o \in Seq(Nodes) /\ Len(o) = m /\ Course(o, m, nxt, <<>>, o)
<1>1. o \in Seq(Nodes) /\ Len(o) = m
    <2>1. o \in Seq(Nodes)
        BY SeqDef
    <2>2. DOMAIN o = 1 .. Len(o) /\ Len(o) \in Nat
        BY <2>1, LenProperties
    <2> QED
        BY <2>1, <2>2
<1>2. Len(<<>>) = 0
    OBVIOUS
<1>3. nxt = Nothing => m = 0
    BY ListAssumption
<1>4. ASSUME m # 0
      PROVE  /\ 1 \in 1 .. m /\ o[1] = nxt
             /\ \A j \in 1 .. m - 0 : 1 + j - 1 <= m /\ o[1 + j - 1] = o[0 + j]
    <2>1. \A j \in 1 .. m - 0 : 1 + j - 1 = j /\ 0 + j = j
        OBVIOUS
    <2> QED
        BY <1>4, <2>1
<1>5. nxt # Nothing => m # 0
    OBVIOUS
<1> QED
    BY <1>1, <1>2, <1>3, <1>4, <1>5 DEF Course

-----------------------------------------------------------------------------
(* The inductive invariant.                                                 *)

Typed ==
    /\ head \in Ends /\ tail \in Ends /\ result \in Ends /\ len \in Nat
    /\ prev \in [Nodes -> Ends] /\ next \in [Nodes -> Ends] /\ val \in [Nodes -> Values]
    /\ loose \subseteq alloc /\ alloc \subseteq Nodes
    /\ made \in BOOLEAN
    /\ it \in [on : BOOLEAN, next : Ends, forward : BOOLEAN]
    /\ plan \in Seq(Nodes) /\ seen \in Seq(Nodes)

Linked == made => Chain(Stored, len, head, tail, next, prev)

Order(forward, s, m) == IF forward THEN s ELSE Turned(s, m)

Iterates ==
    it.on => made /\ Course(Order(it.forward, Stored, len), len, it.next, seen, plan)

IInv == Typed /\ Linked /\ Ownership /\ Iterates

\* What a list that exists consists of.
LEMMA Listed ==
    ASSUME IInv, made
    PROVE  /\ Chain(Stored, len, head, tail, next, prev)
           /\ len \in Nat /\ Stored \in [1 .. len -> Nodes]
           /\ \A i, j \in 1 .. len : Stored[i] = Stored[j] => i = j
           /\ \A i \in 1 .. len : Stored[i] \in alloc /\ Stored[i] \notin loose
           /\ alloc = Inside \cup loose /\ Inside \cap loose = {}
           /\ len > 0 => head = Stored[1] /\ tail = Stored[len]
           /\ len = 0 => head = Nothing /\ tail = Nothing
<1>1. Chain(Stored, len, head, tail, next, prev)
    BY DEF IInv, Linked
<1>2. alloc = Inside \cup loose /\ Inside \cap loose = {}
    BY DEF IInv, Ownership
<1>3. \A i \in 1 .. len : Stored[i] \in Inside
    BY DEF Inside
<1> HIDE DEF Stored
<1>4. len \in Nat /\ (len > 0 => len # 0)
    BY <1>1 DEF Chain
<1> QED
    BY <1>1, <1>2, <1>3, <1>4 DEF Chain

LEMMA InitIInv == Init => IInv
<1> SUFFICES ASSUME Init PROVE IInv
    OBVIOUS
<1>1. Stored = <<>> /\ len = 0 /\ 1 .. len = {}
    BY DEF Init, Stored, Walk
<1>2. Typed
    BY EmptySeq DEF Init, Typed, Ends, NoIterator
<1>3. Linked
    BY <1>1 DEF Init, Linked, Chain
<1>4. Ownership
    BY <1>1 DEF Init, Ownership, Inside
<1>5. Iterates
    BY DEF Init, Iterates, NoIterator
<1> QED
    BY <1>2, <1>3, <1>4, <1>5 DEF IInv

-----------------------------------------------------------------------------
(* What each call does to the sequence.                                     *)

\* The sequence after a step, from the chain after it.
LEMMA StoredAfter ==
    ASSUME NEW s, NEW m, len' = m, Chain(s, m, head', tail', next', prev')
    PROVE  Stored' = s
BY ChainIsWalk DEF Stored

LEMMA RpushDoes ==
    ASSUME IInv, NEW n \in Nodes, Rpush(n)
    PROVE  /\ Stored' = Longer(Stored, len, n) /\ len' = len + 1
           /\ Chain(Stored', len', head', tail', next', prev')
<1>1. /\ made /\ n \in loose /\ len' = len + 1
      /\ prev' = Set(prev, n, IF len > 0 THEN tail ELSE Nothing)
      /\ next' = Set(IF len > 0 THEN Set(next, tail, n) ELSE next, n, Nothing)
      /\ head' = (IF len > 0 THEN head ELSE n) /\ tail' = n
    BY DEF Rpush, Pushed, Back
<1>2. /\ Chain(Stored, len, head, tail, next, prev)
      /\ \A i \in 1 .. len : Stored[i] # n
    BY <1>1, Listed
<1>3. next \in [Nodes -> Ends] /\ prev \in [Nodes -> Ends]
    BY DEF IInv, Typed
<1>4. Chain(Longer(Stored, len, n), len + 1, head', tail', next', prev')
    BY <1>1, <1>2, <1>3, ChainLonger
<1> QED
    BY <1>1, <1>4, StoredAfter

LEMMA LpushDoes ==
    ASSUME IInv, NEW n \in Nodes, Lpush(n)
    PROVE  /\ Stored' = Lower(Stored, len, n) /\ len' = len + 1
           /\ Chain(Stored', len', head', tail', next', prev')
<1>1. /\ made /\ n \in loose /\ len' = len + 1
      /\ next' = Set(next, n, IF len > 0 THEN head ELSE Nothing)
      /\ prev' = Set(IF len > 0 THEN Set(prev, head, n) ELSE prev, n, Nothing)
      /\ tail' = (IF len > 0 THEN tail ELSE n) /\ head' = n
    BY DEF Lpush, Pushed
<1>2. /\ Chain(Stored, len, head, tail, next, prev)
      /\ \A i \in 1 .. len : Stored[i] # n
    BY <1>1, Listed
<1>3. next \in [Nodes -> Ends] /\ prev \in [Nodes -> Ends]
    BY DEF IInv, Typed
<1>4. Chain(Lower(Stored, len, n), len + 1, head', tail', next', prev')
    BY <1>1, <1>2, <1>3, ChainLower
<1> QED
    BY <1>1, <1>4, StoredAfter

LEMMA RpopDoes ==
    ASSUME IInv, Rpop
    PROVE  /\ Stored' = RidOf(Stored, len, len) /\ len' = len - 1
           /\ len \in 1 .. len /\ tail = Stored[len]
           /\ Chain(Stored', len', head', tail', next', prev')
<1>1. /\ made /\ len > 0 /\ len' = len - 1
      /\ next' = Set(IF len > 1 THEN Set(next, prev[tail], Nothing) ELSE next, tail, Nothing)
      /\ prev' = Set(prev, tail, Nothing)
      /\ tail' = (IF len > 1 THEN prev[tail] ELSE Nothing)
      /\ head' = (IF len > 1 THEN head ELSE Nothing)
    BY DEF Rpop, Popped
<1>2. /\ Chain(Stored, len, head, tail, next, prev)
      /\ len \in Nat /\ tail = Stored[len]
    BY <1>1, Listed
<1>3. next \in [Nodes -> Ends] /\ prev \in [Nodes -> Ends]
    BY DEF IInv, Typed
<1>4. Chain(RidOf(Stored, len, len), len - 1, head', tail', next', prev')
    BY <1>1, <1>2, <1>3, ChainRpop
<1> QED
    BY <1>1, <1>2, <1>4, StoredAfter

LEMMA LpopDoes ==
    ASSUME IInv, Lpop
    PROVE  /\ Stored' = RidOf(Stored, len, 1) /\ len' = len - 1
           /\ 1 \in 1 .. len /\ head = Stored[1]
           /\ Chain(Stored', len', head', tail', next', prev')
<1>1. /\ made /\ len > 0 /\ len' = len - 1
      /\ prev' = Set(IF len > 1 THEN Set(prev, next[head], Nothing) ELSE prev, head, Nothing)
      /\ next' = Set(next, head, Nothing)
      /\ head' = (IF len > 1 THEN next[head] ELSE Nothing)
      /\ tail' = (IF len > 1 THEN tail ELSE Nothing)
    BY DEF Lpop, Popped
<1>2. /\ Chain(Stored, len, head, tail, next, prev)
      /\ len \in Nat /\ head = Stored[1]
    BY <1>1, Listed
<1>3. next \in [Nodes -> Ends] /\ prev \in [Nodes -> Ends]
    BY DEF IInv, Typed
<1>4. Chain(RidOf(Stored, len, 1), len - 1, head', tail', next', prev')
    BY <1>1, <1>2, <1>3, ChainLpop
<1> QED
    BY <1>1, <1>2, <1>4, StoredAfter

LEMMA RemoveDoes ==
    ASSUME IInv, NEW n \in Nodes, Remove(n)
    PROVE  /\ len' = len - 1
           /\ \E k \in 1 .. len : Stored[k] = n /\ Stored' = RidOf(Stored, len, k)
           /\ Chain(Stored', len', head', tail', next', prev')
<1>1. /\ made /\ n \in Inside
      /\ next' = (IF prev[n] # Nothing THEN Set(next, prev[n], next[n]) ELSE next)
      /\ head' = (IF prev[n] # Nothing THEN head ELSE next[n])
      /\ prev' = (IF next[n] # Nothing THEN Set(prev, next[n], prev[n]) ELSE prev)
      /\ tail' = (IF next[n] # Nothing THEN tail ELSE prev[n])
      /\ len' = (IF len > 0 THEN len - 1 ELSE len)
    BY DEF Remove, TailWithout
<1>2. Chain(Stored, len, head, tail, next, prev) /\ len \in Nat
    BY <1>1, Listed
<1>3. next \in [Nodes -> Ends] /\ prev \in [Nodes -> Ends]
    BY DEF IInv, Typed
<1>4. PICK k \in 1 .. len : n = Stored[k]
    BY <1>1 DEF Inside
<1>5. len' = len - 1
    BY <1>1, <1>2, <1>4
<1>6. Chain(RidOf(Stored, len, k), len - 1, head', tail', next', prev')
    BY <1>1, <1>2, <1>3, <1>4, ChainRid
<1> QED
    BY <1>4, <1>5, <1>6, StoredAfter

\* Every other step leaves the list alone; list_node_new touches a node outside it.
LEMMA NodeNewDoes ==
    ASSUME IInv, made, NEW n \in Nodes, NEW v \in Values, NodeNew(n, v)
    PROVE  /\ Stored' = Stored /\ len' = len
           /\ Chain(Stored', len', head', tail', next', prev')
<1>1. /\ n \notin alloc /\ UNCHANGED listVars
      /\ prev' = Set(prev, n, Nothing) /\ next' = Set(next, n, Nothing)
    BY DEF NodeNew
<1>2. /\ Chain(Stored, len, head, tail, next, prev)
      /\ Stored \in [1 .. len -> Nodes] /\ \A i \in 1 .. len : Stored[i] # n
    BY <1>1, Listed
<1>3. next \in [Nodes -> Ends] /\ prev \in [Nodes -> Ends]
    BY DEF IInv, Typed
<1>4. \A i \in 1 .. len : next'[Stored[i]] = next[Stored[i]] /\ prev'[Stored[i]] = prev[Stored[i]]
    BY <1>1, <1>2, <1>3 DEF Set
<1>5. Chain(Stored, len, head, tail, next', prev')
    BY <1>2, <1>4, ChainKept
<1>6. head' = head /\ tail' = tail /\ len' = len
    BY <1>1 DEF listVars
<1> QED
    BY <1>5, <1>6, StoredAfter

LEMMA SameLinks ==
    ASSUME UNCHANGED <<head, tail, len, next, prev>>
    PROVE  Stored' = Stored
BY DEF Stored

-----------------------------------------------------------------------------
(* What the calls do to an iteration under way.                             *)

LEMMA OrderTyped ==
    ASSUME IInv, it.on
    PROVE  /\ len \in Nat /\ Stored \in [1 .. len -> Nodes] /\ made
           /\ Order(it.forward, Stored, len) \in [1 .. len -> Nodes]
           /\ Course(Order(it.forward, Stored, len), len, it.next, seen, plan)
           /\ \A i, j \in 1 .. len : Order(it.forward, Stored, len)[i]
                                       = Order(it.forward, Stored, len)[j] => i = j
           /\ seen \in Seq(Nodes) /\ plan \in Seq(Nodes)
<1>1. made /\ Course(Order(it.forward, Stored, len), len, it.next, seen, plan)
    BY DEF IInv, Iterates
<1>2. Chain(Stored, len, head, tail, next, prev)
    BY <1>1, Listed
<1>3. Chain(Turned(Stored, len), len, tail, head, prev, next)
    BY <1>2, ChainTurned
<1>4. seen \in Seq(Nodes) /\ plan \in Seq(Nodes)
    BY DEF IInv, Typed
<1> HIDE DEF Stored
<1>5. CASE it.forward
    <2>1. Order(it.forward, Stored, len) = Stored
        BY <1>5 DEF Order
    <2> QED
        BY <1>1, <1>2, <1>4, <2>1 DEF Chain
<1>6. CASE ~it.forward
    <2>1. Order(it.forward, Stored, len) = Turned(Stored, len)
        BY <1>6 DEF Order
    <2> QED
        BY <1>1, <1>2, <1>3, <1>4, <2>1 DEF Chain
<1> QED
    BY <1>5, <1>6

LEMMA PushIterates ==
    ASSUME IInv, NEW n \in Nodes, UNCHANGED <<made, iterVars>>, len' = len + 1,
           Stored' = Longer(Stored, len, n) \/ Stored' = Lower(Stored, len, n)
    PROVE  Iterates'
<1> SUFFICES ASSUME it'.on
             PROVE  made' /\ Course(Order(it'.forward, Stored', len'), len', it'.next, seen', plan')
    BY DEF Iterates
<1>1. it' = it /\ seen' = seen /\ plan' = plan /\ made' = made /\ it.on
    BY DEF iterVars
<1> DEFINE o == Order(it.forward, Stored, len)
<1>2. /\ len \in Nat /\ Stored \in [1 .. len -> Nodes] /\ made
      /\ o \in [1 .. len -> Nodes] /\ Course(o, len, it.next, seen, plan)
      /\ seen \in Seq(Nodes) /\ plan \in Seq(Nodes)
    BY <1>1, OrderTyped
<1>3. /\ Course(Longer(o, len, n), len + 1, it.next, seen, plan)
      /\ Course(Lower(o, len, n), len + 1, it.next, seen, plan)
    BY <1>2, CourseLonger, CourseLower
<1>4. Order(it.forward, Stored', len + 1) \in {Longer(o, len, n), Lower(o, len, n)}
    <2>1. CASE it.forward
        BY <2>1 DEF Order
    <2>2. CASE ~it.forward
        <3>1. Turned(Stored', len + 1) \in {Longer(Turned(Stored, len), len, n),
                                            Lower(Turned(Stored, len), len, n)}
            BY <1>2, TurnedLonger
        <3> QED
            BY <2>2, <3>1 DEF Order
    <2> QED
        BY <2>1, <2>2
<1> HIDE DEF o
<1> QED
    BY <1>1, <1>2, <1>3, <1>4

LEMMA RidIterates ==
    ASSUME IInv, NEW k \in 1 .. len, MayLeave(Stored[k]), UNCHANGED <<made, iterVars>>,
           len' = len - 1, Stored' = RidOf(Stored, len, k)
    PROVE  Iterates'
<1> SUFFICES ASSUME it'.on
             PROVE  made' /\ Course(Order(it'.forward, Stored', len'), len', it'.next, seen', plan')
    BY DEF Iterates
<1>1. it' = it /\ seen' = seen /\ plan' = plan /\ made' = made /\ it.on
    BY DEF iterVars
<1> DEFINE o == Order(it.forward, Stored, len)
           e == IF it.forward THEN k ELSE len + 1 - k
<1>2. /\ len \in Nat /\ Stored \in [1 .. len -> Nodes] /\ made
      /\ o \in [1 .. len -> Nodes] /\ Course(o, len, it.next, seen, plan)
      /\ \A i, j \in 1 .. len : o[i] = o[j] => i = j
      /\ seen \in Seq(Nodes) /\ plan \in Seq(Nodes)
    BY <1>1, OrderTyped
<1>3. e \in 1 .. len /\ o[e] = Stored[k]
    <2>1. len + 1 - k \in 1 .. len /\ len + 1 - (len + 1 - k) = k
        BY <1>2
    <2> QED
        BY <1>2, <2>1 DEF Order, Turned
<1>4. it.next # Nothing => seen # <<>> /\ o[e] = seen[Len(seen)]
    BY <1>1, <1>3 DEF MayLeave, Iterating
<1>5. Order(it.forward, Stored', len - 1) = RidOf(o, len, e)
    <2>1. CASE it.forward
        BY <2>1 DEF Order
    <2>2. CASE ~it.forward
        <3>1. Turned(Stored', len - 1) = RidOf(Turned(Stored, len), len, len + 1 - k)
            BY <1>2, TurnedRidOf
        <3> QED
            BY <2>2, <3>1 DEF Order
    <2> QED
        BY <2>1, <2>2
<1> HIDE DEF o, e
<1>6. Course(RidOf(o, len, e), len - 1, it.next, seen, plan)
    BY <1>2, <1>3, <1>4, CourseRid
<1> QED
    BY <1>1, <1>2, <1>5, <1>6

LEMMA SameIterates ==
    ASSUME IInv, UNCHANGED <<made, iterVars>>, made => Stored' = Stored /\ len' = len
    PROVE  Iterates'
<1>1. it' = it /\ seen' = seen /\ plan' = plan /\ made' = made
    BY DEF iterVars
<1>2. Iterates
    BY DEF IInv
<1> HIDE DEF Stored
<1> QED
    BY <1>1, <1>2 DEF Iterates

LEMMA NewIterates ==
    ASSUME IInv, NEW forward \in BOOLEAN, IteratorNew(forward)
    PROVE  Typed' /\ Iterates'
<1> USE ListAssumption
<1> DEFINE o == Order(forward, Stored, len)
           nxt == IF forward THEN head ELSE tail
<1>1. /\ made /\ it' = [on |-> TRUE, next |-> nxt, forward |-> forward]
      /\ plan' = o /\ seen' = <<>>
      /\ UNCHANGED <<listVars, heapVars, made, result, loose>>
    BY DEF IteratorNew, Order, Turned
<1>2. Stored' = Stored /\ len' = len /\ made'
    BY <1>1, SameLinks DEF listVars, heapVars
<1>3. Chain(Stored, len, head, tail, next, prev)
    BY <1>1, Listed
<1>4. Chain(o, len, nxt, IF forward THEN tail ELSE head, IF forward THEN next ELSE prev,
            IF forward THEN prev ELSE next)
    BY <1>3, ChainTurned DEF Order
<1> HIDE DEF o
<1>5. /\ len \in Nat /\ o \in [1 .. len -> Nodes]
      /\ \A i, j \in 1 .. len : o[i] = o[j] => i = j
      /\ nxt = IF len = 0 THEN Nothing ELSE o[1]
    BY <1>4 DEF Chain
<1>6. nxt \in Ends
    BY DEF IInv, Typed
<1> HIDE DEF nxt
<1>7. o \in Seq(Nodes) /\ Course(o, len, nxt, <<>>, o)
    BY <1>5, CourseNew
<1>8. Typed'
    <2>1. it' \in [on : BOOLEAN, next : Ends, forward : BOOLEAN]
        BY <1>1, <1>6
    <2>2. plan' \in Seq(Nodes) /\ seen' \in Seq(Nodes)
        BY <1>1, <1>7, EmptySeq
    <2> QED
        BY <1>1, <2>1, <2>2 DEF IInv, Typed, listVars, heapVars
<1>9. Iterates'
    <2>1. /\ it'.on /\ it'.forward = forward /\ it'.next = nxt
          /\ Order(forward, Stored', len') = o
        BY <1>1, <1>2 DEF o
    <2> QED
        BY <1>1, <1>2, <1>7, <2>1 DEF Iterates
<1> QED
    BY <1>8, <1>9

\* A step of an iteration moves the border between what it returned and what lies ahead.
LEMMA CourseNext ==
    ASSUME NEW m \in Nat, NEW o \in [1 .. m -> Nodes], NEW nxt,
           \A i, j \in 1 .. m : o[i] = o[j] => i = j,
           NEW sn \in Seq(Nodes), NEW pl \in Seq(Nodes), Course(o, m, nxt, sn, pl),
           NEW k \in 1 .. m, o[k] = nxt, nxt # Nothing,
           NEW nxt2, nxt2 = IF k = m THEN Nothing ELSE o[k + 1]
    PROVE  Append(sn, nxt) \in Seq(Nodes) /\ Course(o, m, nxt2, Append(sn, nxt), pl)
<1> USE ListAssumption
<1> DEFINE sn2 == Append(sn, nxt)
<1>1. /\ nxt \in Nodes /\ Len(sn) \in Nat /\ Len(pl) \in Nat
    BY LenProperties
<1>2. /\ sn2 \in Seq(Nodes) /\ Len(sn2) = Len(sn) + 1
      /\ \A i \in 1 .. Len(sn) : sn2[i] = sn[i]
      /\ sn2[Len(sn) + 1] = nxt
    BY <1>1, AppendProperties
<1> HIDE DEF sn2
<1>3. \A j \in 1 .. Len(pl) - Len(sn) : k + j - 1 <= m /\ o[k + j - 1] = pl[Len(sn) + j]
    <2>1. PICK q \in 1 .. m :
              /\ o[q] = nxt
              /\ \A j \in 1 .. Len(pl) - Len(sn) :
                    q + j - 1 <= m /\ o[q + j - 1] = pl[Len(sn) + j]
        BY DEF Course
    <2>2. q = k
        BY <2>1
    <2> QED
        BY <2>1, <2>2
<1>4. \A i \in 1 .. Len(sn2) : i <= Len(pl) => sn2[i] = pl[i]
    <2> SUFFICES ASSUME NEW i \in 1 .. Len(sn) + 1, i <= Len(pl)
                 PROVE  sn2[i] = pl[i]
        BY <1>2
    <2>1. CASE i \in 1 .. Len(sn)
        BY <1>2, <2>1 DEF Course
    <2>2. CASE i = Len(sn) + 1
        <3>1. 1 \in 1 .. Len(pl) - Len(sn) /\ k + 1 - 1 = k
            BY <1>1, <2>2
        <3>2. o[k + 1 - 1] = pl[Len(sn) + 1]
            BY <1>3, <3>1
        <3> QED
            BY <1>2, <2>2, <3>1, <3>2
    <2> QED
        BY <1>1, <2>1, <2>2
<1>5. nxt2 = Nothing => Len(pl) <= Len(sn2)
    <2> SUFFICES ASSUME nxt2 = Nothing, ~(Len(pl) <= Len(sn) + 1)
                 PROVE  FALSE
        BY <1>2
    <2>1. 2 \in 1 .. Len(pl) - Len(sn)
        BY <1>1
    <2>2. k + 2 - 1 <= m
        BY <1>3, <2>1
    <2>3. k # m /\ k + 1 \in 1 .. m
        BY <2>2
    <2> QED
        BY <2>3
<1>6. ASSUME nxt2 # Nothing
      PROVE  /\ nxt2 # sn2[Len(sn2)]
             /\ k + 1 \in 1 .. m /\ o[k + 1] = nxt2
             /\ \A j \in 1 .. Len(pl) - Len(sn2) :
                   (k + 1) + j - 1 <= m /\ o[(k + 1) + j - 1] = pl[Len(sn2) + j]
    <2>1. k + 1 \in 1 .. m /\ o[k + 1] = nxt2 /\ k + 1 # k
        BY <1>6
    <2>2. nxt2 # nxt
        BY <2>1
    <2>3. ASSUME NEW j \in 1 .. Len(pl) - Len(sn2)
          PROVE  (k + 1) + j - 1 <= m /\ o[(k + 1) + j - 1] = pl[Len(sn2) + j]
        <3>1. /\ j + 1 \in 1 .. Len(pl) - Len(sn)
              /\ k + (j + 1) - 1 = (k + 1) + j - 1 /\ Len(sn) + (j + 1) = Len(sn2) + j
            BY <1>1, <1>2
        <3>2. k + (j + 1) - 1 <= m /\ o[k + (j + 1) - 1] = pl[Len(sn) + (j + 1)]
            BY <1>3, <3>1
        <3> QED
            BY <3>1, <3>2
    <2> QED
        BY <1>2, <2>1, <2>2, <2>3
<1>7. \A i, j \in 1 .. Len(pl) : pl[i] = pl[j] => i = j
    BY DEF Course
<1> QED
    BY <1>2, <1>4, <1>5, <1>6, <1>7 DEF Course, sn2

LEMMA NextIterates ==
    ASSUME IInv, IteratorNext
    PROVE  Typed' /\ Iterates'
<1>1. it.on /\ UNCHANGED <<listVars, heapVars, made, result, loose, plan>>
    BY DEF IteratorNext
<1>2. Stored' = Stored /\ len' = len /\ made' = made
    BY <1>1, SameLinks DEF listVars, heapVars
<1>3. CASE it.next = Nothing
    <2>1. it' = it /\ seen' = seen
        BY <1>3 DEF IteratorNext
    <2> QED
        BY <1>1, <1>2, <2>1 DEF IInv, Typed, Iterates, listVars, heapVars
<1>4. CASE it.next # Nothing
    <2> DEFINE o == Order(it.forward, Stored, len)
               links == IF it.forward THEN next ELSE prev
    <2>1. it' = [it EXCEPT !.next = Step(it.next)] /\ seen' = Append(seen, it.next)
        BY <1>4 DEF IteratorNext
    <2>2. /\ len \in Nat /\ o \in [1 .. len -> Nodes] /\ made
          /\ Course(o, len, it.next, seen, plan)
          /\ \A i, j \in 1 .. len : o[i] = o[j] => i = j
          /\ seen \in Seq(Nodes) /\ plan \in Seq(Nodes)
        BY <1>1, OrderTyped
    <2>3. Chain(Stored, len, head, tail, next, prev)
        BY <2>2, Listed
    <2>4. Chain(o, len, IF it.forward THEN head ELSE tail, IF it.forward THEN tail ELSE head,
                links, IF it.forward THEN prev ELSE next)
        BY <2>3, ChainTurned DEF Order
    <2>5. Step(it.next) = links[it.next]
        BY DEF Step
    <2> HIDE DEF o
    <2>6. PICK k \in 1 .. len : o[k] = it.next
        BY <1>4, <2>2 DEF Course
    <2>7. links[it.next] = IF k = len THEN Nothing ELSE o[k + 1]
        BY <2>4, <2>6 DEF Chain
    <2>8. links[it.next] \in Ends
        <3>1. k # len => k + 1 \in 1 .. len
            BY <2>2
        <3> QED
            BY <2>2, <2>7, <3>1 DEF Ends
    <2> HIDE DEF links
    <2>9. seen' \in Seq(Nodes) /\ Course(o, len, links[it.next], seen', plan)
        BY <1>4, <2>1, <2>2, <2>6, <2>7, CourseNext
    <2>10. it \in [on : BOOLEAN, next : Ends, forward : BOOLEAN]
        BY DEF IInv, Typed
    <2>11. /\ it' \in [on : BOOLEAN, next : Ends, forward : BOOLEAN]
           /\ it'.on /\ it'.forward = it.forward /\ it'.next = links[it.next]
        BY <1>1, <2>1, <2>5, <2>8, <2>10
    <2>12. Typed'
        BY <1>1, <2>9, <2>11 DEF IInv, Typed, listVars, heapVars
    <2>13. Order(it'.forward, Stored', len') = o
        BY <1>2, <2>11 DEF o
    <2>14. Iterates'
        BY <1>1, <1>2, <2>2, <2>9, <2>11, <2>13 DEF Iterates
    <2> QED
        BY <2>12, <2>14
<1> QED
    BY <1>3, <1>4

-----------------------------------------------------------------------------
(* Every step preserves the invariant.                                      *)

LEMMA SetTyped ==
    ASSUME NEW field \in [Nodes -> Ends], NEW n, NEW value \in Ends
    PROVE  Set(field, n, value) \in [Nodes -> Ends]
BY DEF Set

LEMMA LinksTyped ==
    ASSUME IInv
    PROVE  /\ Nothing \in Ends /\ Nodes \subseteq Ends /\ head \in Ends /\ tail \in Ends
           /\ \A n \in Nodes : prev[n] \in Ends /\ next[n] \in Ends
           /\ next \in [Nodes -> Ends] /\ prev \in [Nodes -> Ends]
           /\ loose \subseteq Nodes
BY DEF IInv, Typed, Ends

LEMMA PushIInv ==
    ASSUME IInv, NEW n \in Nodes, Rpush(n) \/ Lpush(n)
    PROVE  IInv'
<1>1. /\ made /\ n \in loose /\ loose' = loose \ {n} /\ len' = len + 1 /\ result' = n
      /\ UNCHANGED <<val, alloc, made, iterVars>>
    BY DEF Rpush, Lpush, Pushed
<1>2. /\ Stored' = Longer(Stored, len, n) \/ Stored' = Lower(Stored, len, n)
      /\ Chain(Stored', len', head', tail', next', prev')
    BY RpushDoes, LpushDoes
<1>3. /\ len \in Nat /\ Stored \in [1 .. len -> Nodes]
      /\ alloc = Inside \cup loose /\ Inside \cap loose = {}
    BY <1>1, Listed
<1>4. Inside' = Inside \cup {n}
    <2>1. \A i \in 1 .. len : i \in 1 .. len + 1 /\ i + 1 \in 1 .. len + 1
                              /\ i <= len /\ i + 1 # 1 /\ (i + 1) - 1 = i
        BY <1>3
    <2>2. \A i \in 1 .. len + 1 : /\ i <= len => i \in 1 .. len
                                  /\ i # 1 => i - 1 \in 1 .. len
        BY <1>3
    <2>3. 1 \in 1 .. len + 1 /\ len + 1 \in 1 .. len + 1 /\ ~(len + 1 <= len)
        BY <1>3
    <2> DEFINE s == Stored
    <2>4. Inside = {s[i] : i \in 1 .. len} /\ Inside' = {Stored'[i] : i \in 1 .. len + 1}
        BY <1>1 DEF Inside
    <2> HIDE DEF s
    <2>5. CASE Stored' = Longer(s, len, n)
        <3>1. /\ \A i \in 1 .. len + 1 : Stored'[i] = IF i <= len THEN s[i] ELSE n
            BY <2>5 DEF Longer
        <3>2. Inside \cup {n} \subseteq Inside'
            BY <2>1, <2>3, <2>4, <3>1
        <3>3. Inside' \subseteq Inside \cup {n}
            BY <2>2, <2>4, <3>1
        <3> QED
            BY <3>2, <3>3
    <2>6. CASE Stored' = Lower(s, len, n)
        <3>1. /\ \A i \in 1 .. len + 1 : Stored'[i] = IF i = 1 THEN n ELSE s[i - 1]
            BY <2>6 DEF Lower
        <3>2. \A i \in 1 .. len : Stored'[i + 1] = s[i]
            BY <2>1, <3>1
        <3>3. Inside \cup {n} \subseteq Inside'
            BY <2>1, <2>3, <2>4, <3>1, <3>2
        <3>4. Inside' \subseteq Inside \cup {n}
            BY <2>2, <2>4, <3>1
        <3> QED
            BY <3>3, <3>4
    <2> QED
        BY <1>2, <2>5, <2>6 DEF s
<1>5. Typed'
    <2>1. /\ prev' \in [Nodes -> Ends] /\ next' \in [Nodes -> Ends]
          /\ head' \in Ends /\ tail' \in Ends
        <3>1. CASE Rpush(n)
            <4>1. /\ prev' = Set(prev, n, IF len > 0 THEN tail ELSE Nothing)
                  /\ next' = Set(IF len > 0 THEN Set(next, tail, n) ELSE next, n, Nothing)
                  /\ head' = (IF len > 0 THEN head ELSE n) /\ tail' = n
                BY <3>1 DEF Rpush, Back
            <4> QED
                BY <4>1, LinksTyped, SetTyped
        <3>2. CASE Lpush(n)
            <4>1. /\ next' = Set(next, n, IF len > 0 THEN head ELSE Nothing)
                  /\ prev' = Set(IF len > 0 THEN Set(prev, head, n) ELSE prev, n, Nothing)
                  /\ tail' = (IF len > 0 THEN tail ELSE n) /\ head' = n
                BY <3>2 DEF Lpush
            <4> QED
                BY <4>1, LinksTyped, SetTyped
        <3> QED
            BY <3>1, <3>2
    <2>2. len' \in Nat /\ result' \in Ends
        BY <1>1, <1>3, LinksTyped
    <2> QED
        BY <1>1, <2>1, <2>2 DEF IInv, Typed, iterVars
<1>6. Linked'
    BY <1>1, <1>2 DEF Linked
<1>7. Ownership'
    BY <1>1, <1>3, <1>4 DEF Ownership
<1>8. Iterates'
    BY <1>1, <1>2, PushIterates
<1> QED
    BY <1>5, <1>6, <1>7, <1>8 DEF IInv

\* The nodes left when the one at place k has gone.
LEMMA InsideRid ==
    ASSUME IInv, made, NEW k \in 1 .. len, len' = len - 1, Stored' = RidOf(Stored, len, k)
    PROVE  Inside' = Inside \ {Stored[k]}
<1> DEFINE s == Stored
<1>1. Chain(s, len, head, tail, next, prev)
    BY Listed
<1>2. Inside = {s[i] : i \in 1 .. len} /\ Inside' = {Stored'[i] : i \in 1 .. len - 1}
    BY DEF Inside
<1> HIDE DEF s
<1>3. {RidOf(s, len, k)[i] : i \in 1 .. len - 1} = {s[i] : i \in 1 .. len} \ {s[k]}
    BY <1>1, RidApart
<1>4. Stored' = RidOf(s, len, k) /\ Stored[k] = s[k]
    BY DEF s
<1> QED
    BY <1>2, <1>3, <1>4

LEMMA PopIInv ==
    ASSUME IInv, Rpop \/ Lpop
    PROVE  IInv'
<1>1. PICK k \in 1 .. len :
          /\ Stored' = RidOf(Stored, len, k) /\ len' = len - 1
          /\ Chain(Stored', len', head', tail', next', prev')
          /\ Popped(Stored[k])
    BY RpopDoes, LpopDoes DEF Rpop, Lpop
<1> DEFINE n == Stored[k]
<1>2. /\ made /\ MayLeave(n) /\ loose' = loose \cup {n} /\ result' = n
      /\ UNCHANGED <<val, alloc, made, iterVars>>
    BY <1>1 DEF Popped
<1>3. /\ len \in Nat /\ n \in Nodes /\ n \in Inside
      /\ alloc = Inside \cup loose /\ Inside \cap loose = {}
    BY <1>2, Listed DEF Inside
<1>4. Inside' = Inside \ {n}
    BY <1>1, <1>2, InsideRid
<1>5. Iterates'
    BY <1>1, <1>2, RidIterates
<1> HIDE DEF n
<1>6. Typed'
    <2>1. /\ prev' \in [Nodes -> Ends] /\ next' \in [Nodes -> Ends]
          /\ head' \in Ends /\ tail' \in Ends
        <3>1. CASE Rpop
            <4>1. /\ next' = Set(IF len > 1 THEN Set(next, prev[tail], Nothing) ELSE next, tail, Nothing)
                  /\ prev' = Set(prev, tail, Nothing)
                  /\ tail' = (IF len > 1 THEN prev[tail] ELSE Nothing)
                  /\ head' = (IF len > 1 THEN head ELSE Nothing)
                BY <3>1 DEF Rpop
            <4>2. tail \in Nodes
                BY <1>2, <1>3, <3>1, RpopDoes, Listed
            <4> QED
                BY <4>1, <4>2, LinksTyped, SetTyped
        <3>2. CASE Lpop
            <4>1. /\ prev' = Set(IF len > 1 THEN Set(prev, next[head], Nothing) ELSE prev, head, Nothing)
                  /\ next' = Set(next, head, Nothing)
                  /\ head' = (IF len > 1 THEN next[head] ELSE Nothing)
                  /\ tail' = (IF len > 1 THEN tail ELSE Nothing)
                BY <3>2 DEF Lpop
            <4>2. head \in Nodes
                BY <1>2, <1>3, <3>2, LpopDoes, Listed
            <4> QED
                BY <4>1, <4>2, LinksTyped, SetTyped
        <3> QED
            BY <3>1, <3>2
    <2>2. len' \in Nat /\ result' \in Ends
        BY <1>1, <1>2, <1>3, LinksTyped
    <2>3. loose' \subseteq alloc'
        BY <1>2, <1>3
    <2> QED
        BY <1>2, <2>1, <2>2, <2>3 DEF IInv, Typed, iterVars
<1>7. Linked'
    BY <1>1 DEF Linked
<1>8. Ownership'
    BY <1>2, <1>3, <1>4 DEF Ownership
<1> QED
    BY <1>5, <1>6, <1>7, <1>8 DEF IInv

LEMMA RemoveIInv ==
    ASSUME IInv, NEW n \in Nodes, Remove(n)
    PROVE  IInv'
<1>1. /\ made /\ MayLeave(n) /\ alloc' = alloc \ {n}
      /\ UNCHANGED <<val, made, result, loose, iterVars>>
    BY DEF Remove
<1>2. PICK k \in 1 .. len : Stored[k] = n /\ Stored' = RidOf(Stored, len, k)
    BY RemoveDoes
<1>3. len' = len - 1 /\ Chain(Stored', len', head', tail', next', prev')
    BY RemoveDoes
<1>4. /\ len \in Nat /\ n \in Inside
      /\ alloc = Inside \cup loose /\ Inside \cap loose = {}
    BY <1>1, <1>2, Listed DEF Inside
<1>5. Inside' = Inside \ {n}
    BY <1>1, <1>2, <1>3, InsideRid
<1>6. Iterates'
    BY <1>1, <1>2, <1>3, RidIterates
<1>7. Typed'
    <2>1. /\ next' = (IF prev[n] # Nothing THEN Set(next, prev[n], next[n]) ELSE next)
          /\ head' = (IF prev[n] # Nothing THEN head ELSE next[n])
          /\ prev' = (IF next[n] # Nothing THEN Set(prev, next[n], prev[n]) ELSE prev)
          /\ tail' = (IF next[n] # Nothing THEN tail ELSE prev[n])
        BY DEF Remove, TailWithout
    <2>2. /\ prev' \in [Nodes -> Ends] /\ next' \in [Nodes -> Ends]
          /\ head' \in Ends /\ tail' \in Ends
        BY <2>1, LinksTyped, SetTyped
    <2>3. len' \in Nat /\ loose' \subseteq alloc' /\ alloc' \subseteq Nodes
        BY <1>1, <1>2, <1>3, <1>4 DEF IInv, Typed
    <2> QED
        BY <1>1, <2>2, <2>3 DEF IInv, Typed, iterVars
<1>8. Linked'
    BY <1>3 DEF Linked
<1>9. Ownership'
    BY <1>1, <1>4, <1>5 DEF Ownership
<1> QED
    BY <1>6, <1>7, <1>8, <1>9 DEF IInv

-----------------------------------------------------------------------------
(* What the lookups return.                                                 *)

\* list_at, for any index.
LEMMA PlaceIs ==
    ASSUME IInv, made, NEW i \in Int, NEW place, place = IF i < 0 THEN len + i + 1 ELSE i + 1
    PROVE  NodeAt(i) = IF place \in 1 .. len THEN Stored[place] ELSE Nothing
<1>1. /\ Chain(Stored, len, head, tail, next, prev)
      /\ Chain(Turned(Stored, len), len, tail, head, prev, next)
      /\ len \in Nat
    BY Listed, ChainTurned
<1>2. CASE i >= 0
    <2> DEFINE n == i + 1
    <2>1. /\ n \in Nat /\ n \in 1 .. n /\ ~(i < 0) /\ place = n
          /\ i < len <=> n \in 1 .. len
          /\ i < len <=> n <= len
        BY <1>1, <1>2
    <2>2. NodeAt(i) = IF i < len THEN Walk(head, next, n)[n] ELSE Nothing
        BY <2>1 DEF NodeAt
    <2> HIDE DEF n
    <2>3. Walk(head, next, n) = [j \in 1 .. n |-> IF j <= len THEN Stored[j] ELSE Nothing]
        BY <1>1, <2>1, ChainForth
    <2>4. Walk(head, next, n)[n] = IF n <= len THEN Stored[n] ELSE Nothing
        BY <2>1, <2>3
    <2> QED
        BY <2>1, <2>2, <2>4
<1>3. CASE i < 0
    <2> DEFINE n == (-i - 1) + 1
    <2>1. /\ n \in Nat /\ n \in 1 .. n /\ place = len + i + 1
          /\ -i - 1 < len <=> len + i + 1 \in 1 .. len
          /\ -i - 1 < len <=> n <= len
          /\ -i - 1 < len => n \in 1 .. len /\ len + 1 - n = len + i + 1
        BY <1>1, <1>3
    <2> HIDE DEF n
    <2>2. Walk(tail, prev, n)
            = [j \in 1 .. n |-> IF j <= len THEN Turned(Stored, len)[j] ELSE Nothing]
        BY <1>1, <2>1, ChainForth
    <2>3. Walk(tail, prev, n)[n] = IF n <= len THEN Turned(Stored, len)[n] ELSE Nothing
        BY <2>1, <2>2
    <2>4. n \in 1 .. len => Turned(Stored, len)[n] = Stored[len + 1 - n]
        BY DEF Turned
    <2>5. NodeAt(i) = IF -i - 1 < len THEN Walk(tail, prev, n)[n] ELSE Nothing
        BY <1>3 DEF NodeAt, FromBack, n
    <2> QED
        BY <2>1, <2>3, <2>4, <2>5
<1> QED
    BY <1>2, <1>3

\* The place list_find stops at is one of those it looks for.
LEMMA FirstIs ==
    ASSUME NEW hits, hits \subseteq Nat, hits # {}
    PROVE  (CHOOSE i \in hits : \A j \in hits : i <= j) \in hits
BY Least

\* What a call that only returns can return.
LEMMA ReturnsIInv ==
    ASSUME IInv, NEW node \in Ends, Returns(node)
    PROVE  IInv'
<1>1. made /\ result' = node /\ UNCHANGED <<listVars, heapVars, made, loose, iterVars>>
    BY DEF Returns
<1>2. UNCHANGED <<head, tail, len, next, prev>>
    BY <1>1 DEF listVars, heapVars
<1>3. Stored' = Stored /\ Inside' = Inside
    BY <1>2, SameLinks DEF Inside
<1>4. Typed'
    BY <1>1 DEF IInv, Typed, listVars, heapVars, iterVars
<1>5. Linked'
    BY <1>1, <1>2, <1>3 DEF IInv, Linked
<1>6. Ownership'
    BY <1>1, <1>3 DEF IInv, Ownership, heapVars
<1>7. Iterates'
    BY <1>1, <1>2, <1>3, SameIterates
<1> QED
    BY <1>4, <1>5, <1>6, <1>7 DEF IInv

LEMMA LookupIInv ==
    ASSUME IInv, PopEmpty \/ (\E i \in Places : At(i)) \/ (\E v \in Values : Find(v)) \/ LookupFails
    PROVE  IInv'
<1>1. Nothing \in Ends /\ Nodes \subseteq Ends
    BY DEF Ends
<1>2. ASSUME NEW i \in Places, At(i)
      PROVE  IInv'
    <2>1. made /\ Returns(NodeAt(i))
        BY <1>2 DEF At, Returns
    <2>2. i \in Int
        BY FS_CardinalityType, ListAssumption DEF Places
    <2> DEFINE place == IF i < 0 THEN len + i + 1 ELSE i + 1
    <2>3. NodeAt(i) = IF place \in 1 .. len THEN Stored[place] ELSE Nothing
        BY <2>1, <2>2, PlaceIs
    <2> HIDE DEF place
    <2>4. NodeAt(i) \in Ends
        BY <1>1, <2>1, <2>3, Listed
    <2> QED
        BY <2>1, <2>4, ReturnsIInv
<1>3. ASSUME NEW v \in Values, Find(v)
      PROVE  IInv'
    <2> DEFINE hits == {i \in 1 .. len : val[Stored[i]] = v}
               node == IF hits = {} THEN Nothing
                       ELSE Stored[CHOOSE i \in hits : \A j \in hits : i <= j]
    <2>1. Returns(node) /\ made
        BY <1>3 DEF Find, Returns
    <2>2. hits \subseteq 1 .. len /\ hits \subseteq Nat
        BY <2>1, Listed
    <2> HIDE DEF hits
    <2>3. hits # {} => (CHOOSE i \in hits : \A j \in hits : i <= j) \in 1 .. len
        BY <2>2, FirstIs
    <2>4. node \in Ends
        BY <1>1, <2>1, <2>3, Listed
    <2> QED
        BY <2>1, <2>4, ReturnsIInv
<1>4. CASE PopEmpty \/ LookupFails
    BY <1>1, <1>4, ReturnsIInv DEF PopEmpty, LookupFails
<1> QED
    BY <1>2, <1>3, <1>4

-----------------------------------------------------------------------------
(* The other calls.                                                         *)

LEMMA NodeNewIInv ==
    ASSUME IInv, NEW n \in Nodes, NEW v \in Values, NodeNew(n, v)
    PROVE  IInv'
<1>1. /\ n \notin alloc /\ alloc' = alloc \cup {n} /\ loose' = loose \cup {n}
      /\ prev' = Set(prev, n, Nothing) /\ next' = Set(next, n, Nothing)
      /\ val' = Set(val, n, v)
      /\ UNCHANGED <<listVars, made, result, iterVars>>
    BY DEF NodeNew
<1>2. made => /\ Stored' = Stored /\ len' = len /\ Inside' = Inside
              /\ Chain(Stored', len', head', tail', next', prev')
    BY NodeNewDoes DEF Inside
<1>3. Typed'
    <2>1. prev' \in [Nodes -> Ends] /\ next' \in [Nodes -> Ends]
        BY <1>1, LinksTyped, SetTyped
    <2>2. val' \in [Nodes -> Values]
        BY <1>1 DEF Set, IInv, Typed
    <2> QED
        BY <1>1, <2>1, <2>2 DEF IInv, Typed, listVars, iterVars
<1>4. Linked'
    BY <1>1, <1>2 DEF Linked
<1>5. Ownership'
    BY <1>1, <1>2 DEF IInv, Ownership
<1>6. Iterates'
    BY <1>1, <1>2, SameIterates
<1> QED
    BY <1>3, <1>4, <1>5, <1>6 DEF IInv

LEMMA NodeFreeIInv ==
    ASSUME IInv, NEW n \in Nodes, NodeFree(n)
    PROVE  IInv'
<1>1. /\ n \in loose /\ alloc' = alloc \ {n} /\ loose' = loose \ {n}
      /\ UNCHANGED <<listVars, prev, next, val, made, result, iterVars>>
    BY DEF NodeFree
<1>2. Stored' = Stored /\ Inside' = Inside /\ len' = len
    BY <1>1, SameLinks DEF listVars, Inside
<1>3. Typed'
    BY <1>1 DEF IInv, Typed, listVars, iterVars
<1>4. Linked'
    BY <1>1, <1>2 DEF IInv, Linked, listVars
<1>5. Ownership'
    BY <1>1, <1>2 DEF IInv, Ownership
<1>6. Iterates'
    BY <1>1, <1>2, SameIterates
<1> QED
    BY <1>3, <1>4, <1>5, <1>6 DEF IInv

LEMMA DestroyIInv ==
    ASSUME IInv, Destroy
    PROVE  IInv'
<1>1. /\ made /\ ~it.on /\ alloc' = alloc \ Freed /\ made' = FALSE
      /\ UNCHANGED <<listVars, prev, next, val, result, loose, iterVars>>
    BY DEF Destroy
<1>2. Freed = Inside /\ alloc = Inside \cup loose /\ Inside \cap loose = {}
    BY <1>1 DEF Freed, Inside, IInv, Ownership
<1>3. alloc' = loose /\ loose' = loose
    BY <1>1, <1>2
<1>4. Typed'
    BY <1>1, <1>3 DEF IInv, Typed, listVars, iterVars
<1>5. Linked' /\ Ownership'
    BY <1>1, <1>3 DEF Linked, Ownership
<1>6. Iterates'
    BY <1>1 DEF Iterates, iterVars
<1> QED
    BY <1>4, <1>5, <1>6 DEF IInv

\* Steps that touch only the iterator.
LEMMA IteratorIInv ==
    ASSUME IInv, (\E forward \in BOOLEAN : IteratorNew(forward)) \/ IteratorNext \/ IteratorDestroy
    PROVE  IInv'
<1>1. UNCHANGED <<listVars, heapVars, made, result, loose>>
    BY DEF IteratorNew, IteratorNext, IteratorDestroy
<1>2. Stored' = Stored /\ Inside' = Inside
    BY <1>1, SameLinks DEF listVars, heapVars, Inside
<1>3. Linked'
    BY <1>1, <1>2 DEF IInv, Linked, listVars, heapVars
<1>4. Ownership'
    BY <1>1, <1>2 DEF IInv, Ownership, heapVars
<1>5. Typed' /\ Iterates'
    <2>1. CASE IteratorDestroy
        <3>1. it' = NoIterator /\ plan' = <<>> /\ seen' = <<>>
            BY <2>1 DEF IteratorDestroy
        <3>2. it' \in [on : BOOLEAN, next : Ends, forward : BOOLEAN] /\ ~it'.on
            BY <3>1 DEF NoIterator, Ends
        <3> QED
            BY <1>1, <3>1, <3>2, EmptySeq DEF IInv, Typed, Iterates, listVars, heapVars
    <2> QED
        BY <2>1, NewIterates, NextIterates
<1> QED
    BY <1>3, <1>4, <1>5 DEF IInv

LEMMA NextIInv ==
    ASSUME IInv, [Next]_vars
    PROVE  IInv'
<1>1. CASE UNCHANGED vars
    <2>1. UNCHANGED <<listVars, heapVars, made, result, loose, iterVars>>
        BY <1>1 DEF vars
    <2>2. Stored' = Stored /\ Inside' = Inside
        BY <2>1, SameLinks DEF listVars, heapVars, Inside
    <2>3. Typed'
        BY <2>1 DEF IInv, Typed, listVars, heapVars, iterVars
    <2>4. Linked' /\ Ownership'
        BY <2>1, <2>2 DEF IInv, Linked, Ownership, listVars, heapVars
    <2>5. Iterates'
        BY <2>1, <2>2, SameIterates DEF listVars
    <2> QED
        BY <2>3, <2>4, <2>5 DEF IInv
<1>2. CASE Next
    BY <1>2, NodeNewIInv, NodeFreeIInv, PushIInv, RemoveIInv, PopIInv, LookupIInv,
       DestroyIInv, IteratorIInv DEF Next
<1> QED
    BY <1>1, <1>2

\* The invariant that the properties of the list follow from holds always.
THEOREM Inductive == Spec => []IInv
<1>1. IInv /\ [Next]_vars => IInv'
    BY NextIInv
<1> QED
    BY <1>1, InitIInv, PTL DEF Spec

-----------------------------------------------------------------------------
(* What follows from it.                                                    *)

\* A list has a node for each place, and no more than there is memory for.
LEMMA Counts ==
    ASSUME IInv, made
    PROVE  /\ IsFiniteSet(Inside) /\ Cardinality(Inside) = len
           /\ Inside \subseteq Nodes
           /\ Cardinality(Nodes) \in Nat /\ len <= Cardinality(Nodes)
<1>1. /\ len \in Nat /\ Stored \in [1 .. len -> Nodes]
      /\ \A i, j \in 1 .. len : Stored[i] = Stored[j] => i = j
    BY Listed
<1>2. Inside \subseteq Nodes
    BY <1>1 DEF Inside
<1>3. IsFiniteSet(1 .. len) /\ Cardinality(1 .. len) = len
    BY <1>1, FS_Interval
<1>4. Stored \in Bijection(1 .. len, Inside)
    <2>1. Stored \in [1 .. len -> Inside]
        BY <1>1 DEF Inside
    <2>2. \A n \in Inside : \E i \in 1 .. len : Stored[i] = n
        BY DEF Inside
    <2> QED
        BY <1>1, <2>1, <2>2 DEF Bijection, Injection, Surjection, IsInjective
<1>5. IsFiniteSet(Inside) /\ Cardinality(Inside) = len
    BY <1>3, <1>4, FS_Bijection DEF ExistsBijection
<1>6. Cardinality(Nodes) \in Nat /\ Cardinality(Inside) <= Cardinality(Nodes)
    BY <1>2, FS_Subset, FS_CardinalityType, ListAssumption
<1> QED
    BY <1>2, <1>5, <1>6

Short == len <= Cardinality(Nodes)

LEMMA ShortIs == IInv /\ made => Short
BY Counts DEF Short

\* A list that is destroyed keeps its length; no other step but a call on a list that
\* exists changes it.
LEMMA LenKept ==
    ASSUME IInv, IInv', [Next]_vars, Short
    PROVE  Short'
<1>1. CASE made'
    <2>1. (IInv /\ made => Short)'
        BY ShortIs, PTL
    <2> QED
        BY <1>1, <2>1
<1>2. CASE ~made'
    <2>1. UNCHANGED len
        BY <1>2 DEF Next, vars, listVars, NodeNew, NodeFree, Rpush, Lpush, Pushed, Remove,
           PopEmpty, Rpop, Lpop, Popped, Returns, At, Find, LookupFails, Destroy, IteratorNew,
           IteratorNext, IteratorDestroy
    <2> QED
        BY <2>1 DEF Short
<1> QED
    BY <1>1, <1>2

\* The types of the list, of its nodes and of the iterator, for every set of nodes: the
\* length, which C adds to and subtracts from, stays within the number of nodes.
THEOREM TypeCorrect == Spec => []TypeOK
<1>1. Init => Short
    BY FS_CardinalityType, ListAssumption DEF Init, Short
<1>2. IInv /\ IInv' /\ [Next]_vars /\ Short => Short'
    BY LenKept
<1>3. Spec => []Short
    BY <1>1, <1>2, Inductive, PTL DEF Spec
<1>4. IInv /\ Short => TypeOK
    BY FS_CardinalityType, ListAssumption DEF IInv, Typed, TypeOK, Short
<1> QED
    BY <1>3, <1>4, Inductive, PTL

\* Both directions tell the same list: list_rpush, list_lpush, list_rpop, list_lpop and
\* list_remove keep next and prev each other's inverse, with len nodes and none twice.
THEOREM LinksTellOneList == Spec => []WellLinked
<1>1. IInv => WellLinked
    <2> SUFFICES ASSUME IInv, made
                 PROVE  /\ Cardinality(Inside) = len
                        /\ Inside \subseteq Nodes
                        /\ \A i \in 1 .. len : Walk(tail, prev, len)[i] = Stored[len + 1 - i]
                        /\ Walk(head, next, len + 1)[len + 1] = Nothing
                        /\ Walk(tail, prev, len + 1)[len + 1] = Nothing
        BY DEF WellLinked
    <2>1. /\ Chain(Stored, len, head, tail, next, prev)
          /\ Chain(Turned(Stored, len), len, tail, head, prev, next)
          /\ len \in Nat
        BY Listed, ChainTurned
    <2>2. Walk(tail, prev, len) = Turned(Stored, len)
        BY <2>1, ChainIsWalk
    <2>3. \A i \in 1 .. len : Walk(tail, prev, len)[i] = Stored[len + 1 - i]
        BY <2>2 DEF Turned
    <2> DEFINE n == len + 1
    <2>4. n \in Nat /\ n \in 1 .. n /\ ~(n <= len)
        BY <2>1
    <2> HIDE DEF n
    <2>5. Walk(head, next, n) = [i \in 1 .. n |-> IF i <= len THEN Stored[i] ELSE Nothing]
        BY <2>1, <2>4, ChainForth
    <2>6. Walk(tail, prev, n)
            = [i \in 1 .. n |-> IF i <= len THEN Turned(Stored, len)[i] ELSE Nothing]
        BY <2>1, <2>4, ChainForth
    <2>7. Walk(head, next, n)[n] = Nothing /\ Walk(tail, prev, n)[n] = Nothing
        BY <2>4, <2>5, <2>6
    <2> QED
        BY <2>3, <2>7, Counts DEF n
<1> QED
    BY <1>1, Inductive, PTL

\* No call loses a node or keeps one that is freed: what is allocated is in the list or
\* in a caller's hands, until list_destroy frees all that the list held.
THEOREM NodesOwned == Spec => []Ownership
<1>1. IInv => Ownership
    BY DEF IInv
<1> QED
    BY <1>1, Inductive, PTL

\* list_at returns the node of the place its index names, from either end, and NULL for
\* a place that is not there.
THEOREM PlacesAreExact == Spec => []PlacesExact
<1>1. IInv => PlacesExact
    <2> SUFFICES ASSUME IInv, made, NEW i \in Places
                 PROVE  LET place == IF i < 0 THEN len + i + 1 ELSE i + 1
                        IN NodeAt(i) = IF place \in 1 .. len THEN Stored[place] ELSE Nothing
        BY DEF PlacesExact
    <2>1. i \in Int
        BY FS_CardinalityType, ListAssumption DEF Places
    <2> QED
        BY <2>1, PlaceIs
<1> QED
    BY <1>1, Inductive, PTL

\* What a walk from place k meets before nothing is the rest of the chain.
LEMMA ChainRest ==
    ASSUME NEW s, NEW m, NEW h, NEW t, NEW nx, NEW pv, Chain(s, m, h, t, nx, pv),
           NEW k \in 1 .. m + 1, NEW start, start = IF k <= m THEN s[k] ELSE Nothing,
           NEW c \in Nat, m <= c, NEW met, met = Walk(start, nx, c)
    PROVE  [i \in 1 .. Cardinality({j \in DOMAIN met : met[j] # Nothing}) |-> met[i]]
             = [i \in 1 .. m - k + 1 |-> s[k + i - 1]]
<1> DEFINE some == {j \in DOMAIN met : met[j] # Nothing}
           n == m - k + 1
<1>1. met = [i \in 1 .. c |-> IF k + i - 1 <= m THEN s[k + i - 1] ELSE Nothing]
    BY ChainWalk, SMTT(30)
<1>2. m \in Nat /\ s \in [1 .. m -> Nodes]
    BY DEF Chain
<1>3. \A j \in 1 .. c : met[j] # Nothing <=> j <= n
    <2> TAKE j \in 1 .. c
    <2>1. k + j - 1 <= m => k + j - 1 \in 1 .. m
        BY <1>2
    <2>2. k + j - 1 <= m <=> j <= n
        BY <1>2
    <2> QED
        BY <1>1, <1>2, <2>1, <2>2, ListAssumption
<1>4. some = 1 .. n
    <2>1. DOMAIN met = 1 .. c
        BY <1>1
    <2>2. \A j : j \in 1 .. c /\ j <= n <=> j \in 1 .. n
        BY <1>2
    <2>3. some = {j \in 1 .. c : j <= n}
        BY <1>3, <2>1
    <2> QED
        BY <2>2, <2>3
<1>5. Cardinality(some) = n
    <2>1. n \in Int /\ n >= 0 /\ n - 1 + 1 = n
        BY <1>2
    <2> HIDE DEF n
    <2>2. Cardinality(1 .. n) = n
        BY <2>1, FS_Interval
    <2> QED
        BY <1>4, <2>2
<1>6. \A i \in 1 .. n : met[i] = s[k + i - 1]
    BY <1>1, <1>2
<1> QED
    BY <1>5, <1>6

\* What an iterator would still return is the rest of the list in its direction.
LEMMA AheadIs ==
    ASSUME IInv, it.on, NEW o, o = Order(it.forward, Stored, len),
           NEW k \in 1 .. len + 1, it.next = IF k <= len THEN o[k] ELSE Nothing
    PROVE  Ahead = [i \in 1 .. len - k + 1 |-> o[k + i - 1]]
<1> DEFINE c == Cardinality(Nodes)
<1>1. made /\ c \in Nat /\ len <= c
    BY OrderTyped, Counts
<1>2. /\ it.forward => Chain(o, len, head, tail, next, prev)
      /\ ~it.forward => Chain(o, len, tail, head, prev, next)
    BY <1>1, Listed, ChainTurned DEF Order
<1> HIDE DEF c
<1>3. PICK start, met :
          /\ start = it.next
          /\ met = Walk(it.next, IF it.forward THEN next ELSE prev, c)
    OBVIOUS
<1>4. start = IF k <= len THEN o[k] ELSE Nothing
    BY <1>3
<1>5. Ahead = [i \in 1 .. Cardinality({j \in DOMAIN met : met[j] # Nothing}) |-> met[i]]
    BY <1>3 DEF Ahead, c
<1>6. CASE it.forward
    <2>1. met = Walk(start, next, c) /\ Chain(o, len, head, tail, next, prev)
        BY <1>2, <1>3, <1>6
    <2> QED
        BY <1>1, <1>4, <1>5, <2>1, ChainRest
<1>7. CASE ~it.forward
    <2>1. met = Walk(start, prev, c) /\ Chain(o, len, tail, head, prev, next)
        BY <1>2, <1>3, <1>7
    <2> QED
        BY <1>1, <1>4, <1>5, <2>1, ChainRest
<1> QED
    BY <1>6, <1>7

\* An iterator returns every node of the list it was made for, in its order, and never
\* points at a freed one, though nodes are pushed at both ends meanwhile and the one
\* returned last is popped or removed.
THEOREM IterationsComplete == Spec => []IterationComplete
<1>1. IInv => IterationComplete
    <2> SUFFICES ASSUME IInv, it.on
                 PROVE  LET all == seen \o Ahead
                        IN /\ \A i \in 1 .. Len(Ahead) : Ahead[i] \in Inside
                           /\ Len(plan) <= Len(all)
                           /\ \A i \in 1 .. Len(plan) : all[i] = plan[i]
        BY DEF IterationComplete
    <2> DEFINE o == Order(it.forward, Stored, len)
    <2>1. /\ len \in Nat /\ o \in [1 .. len -> Nodes] /\ made
          /\ Course(o, len, it.next, seen, plan)
          /\ seen \in Seq(Nodes) /\ plan \in Seq(Nodes)
        BY OrderTyped
    <2>2. \A i \in 1 .. len : o[i] \in Inside
        <3>1. \A i \in 1 .. len : Stored[i] \in Inside /\ len + 1 - i \in 1 .. len
            BY <2>1 DEF Inside
        <3> QED
            BY <3>1 DEF Order, Turned
    <2> HIDE DEF o
    <2>3. /\ Len(seen) \in Nat /\ Len(plan) \in Nat
          /\ \A i \in 1 .. Len(plan) : i <= Len(seen) => seen[i] = plan[i]
        <3>1. \A i \in 1 .. Len(seen) : i <= Len(plan) => seen[i] = plan[i]
            BY <2>1 DEF Course
        <3>2. Len(seen) \in Nat /\ Len(plan) \in Nat
            BY <2>1, LenProperties
        <3> QED
            BY <3>1, <3>2
    <2>4. PICK k \in 1 .. len + 1 :
              /\ it.next = IF k <= len THEN o[k] ELSE Nothing
              /\ \A j \in 1 .. Len(plan) - Len(seen) :
                    k + j - 1 <= len /\ o[k + j - 1] = plan[Len(seen) + j]
        <3>1. CASE it.next = Nothing
            <4>1. len + 1 \in 1 .. len + 1 /\ ~(len + 1 <= len) /\ Len(plan) <= Len(seen)
                BY <2>1, <3>1 DEF Course
            <4> QED
                BY <2>3, <3>1, <4>1
        <3>2. CASE it.next # Nothing
            <4>1. PICK k \in 1 .. len :
                      /\ o[k] = it.next
                      /\ \A j \in 1 .. Len(plan) - Len(seen) :
                            k + j - 1 <= len /\ o[k + j - 1] = plan[Len(seen) + j]
                BY <2>1, <3>2 DEF Course
            <4>2. k \in 1 .. len + 1 /\ k <= len
                BY <2>1
            <4> QED
                BY <4>1, <4>2
        <3> QED
            BY <3>1, <3>2
    <2>5. Ahead = [i \in 1 .. len - k + 1 |-> o[k + i - 1]]
        BY <2>4, AheadIs DEF o
    <2> DEFINE n == len - k + 1
    <2>6. n \in Nat /\ \A i \in 1 .. n : k + i - 1 \in 1 .. len
        BY <2>1
    <2>7. /\ Ahead \in Seq(Nodes) /\ Len(Ahead) = n
          /\ \A i \in 1 .. n : Ahead[i] = o[k + i - 1]
        BY <2>1, <2>5, <2>6
    <2>8. Len(plan) <= Len(seen) + n
        <3>1. CASE Len(plan) - Len(seen) >= 1
            <4> DEFINE j == Len(plan) - Len(seen)
            <4>1. j \in 1 .. j
                BY <2>3, <3>1
            <4>2. k + j - 1 <= len
                BY <2>4, <4>1
            <4> QED
                BY <2>1, <2>3, <4>2
        <3> QED
            BY <2>3, <2>6, <3>1
    <2> HIDE DEF n
    <2>9. /\ Len(seen \o Ahead) = Len(seen) + n
          /\ \A i \in 1 .. Len(seen) + n :
                (seen \o Ahead)[i] = IF i <= Len(seen) THEN seen[i] ELSE Ahead[i - Len(seen)]
        BY <2>1, <2>7, ConcatProperties
    <2>10. ASSUME NEW i \in 1 .. Len(plan)
           PROVE  (seen \o Ahead)[i] = plan[i]
        <3>1. i \in 1 .. Len(seen) + n
            BY <2>3, <2>6, <2>8
        <3>2. CASE i <= Len(seen)
            BY <2>3, <2>9, <3>1, <3>2
        <3>3. CASE ~(i <= Len(seen))
            <4> DEFINE j == i - Len(seen)
            <4>1. /\ j \in 1 .. Len(plan) - Len(seen) /\ j \in 1 .. n
                  /\ Len(seen) + j = i
                BY <2>3, <2>6, <3>1, <3>3
            <4> HIDE DEF j
            <4>2. Ahead[j] = plan[i]
                BY <2>4, <2>7, <4>1
            <4> QED
                BY <2>9, <3>1, <3>3, <4>2 DEF j
        <3> QED
            BY <3>2, <3>3
    <2>11. \A i \in 1 .. Len(Ahead) : Ahead[i] \in Inside
        BY <2>2, <2>6, <2>7 DEF n
    <2> QED
        BY <2>7, <2>8, <2>9, <2>10, <2>11
<1> QED
    BY <1>1, Inductive, PTL

-----------------------------------------------------------------------------
(* The refinement.                                                          *)

LEMMA ListSeq ==
    ASSUME NEW m \in Nat, NEW s \in [1 .. m -> Nodes]
    PROVE  s \in Seq(Nodes) /\ Len(s) = m
<1>1. s \in Seq(Nodes)
    BY SeqDef
<1>2. DOMAIN s = 1 .. m /\ DOMAIN s = 1 .. Len(s) /\ Len(s) \in Nat
    BY <1>1, LenProperties
<1> QED
    BY <1>1, <1>2

\* Pushes and pops, as sequences.
LEMMA LongerSeq ==
    ASSUME NEW m \in Nat, NEW s \in [1 .. m -> Nodes], NEW n \in Nodes
    PROVE  Longer(s, m, n) = Append(s, n) /\ Lower(s, m, n) = <<n>> \o s
<1>1. s \in Seq(Nodes) /\ Len(s) = m
    BY ListSeq
<1>2. Longer(s, m, n) = Append(s, n)
    <2>1. /\ Append(s, n) \in Seq(Nodes) /\ Len(Append(s, n)) = m + 1
          /\ \A i \in 1 .. m : Append(s, n)[i] = s[i]
          /\ Append(s, n)[m + 1] = n
        BY <1>1, AppendProperties
    <2>2. \A i \in 1 .. m + 1 : Append(s, n)[i] = Longer(s, m, n)[i]
        <3> TAKE i \in 1 .. m + 1
        <3>1. CASE i \in 1 .. m
            BY <2>1, <3>1 DEF Longer
        <3>2. CASE i = m + 1
            BY <2>1, <3>2 DEF Longer
        <3> QED
            BY <3>1, <3>2
    <2>3. DOMAIN Append(s, n) = 1 .. m + 1
        BY <2>1, LenProperties
    <2>4. Append(s, n) = [i \in 1 .. m + 1 |-> Append(s, n)[i]]
        BY <2>1, <2>3, LenProperties
    <2> QED
        BY <2>2, <2>4 DEF Longer
<1>3. Lower(s, m, n) = <<n>> \o s
    <2> DEFINE one == <<n>>
    <2>1. one \in Seq(Nodes) /\ Len(one) = 1 /\ one[1] = n
        OBVIOUS
    <2> HIDE DEF one
    <2> DEFINE both == one \o s
    <2>2. /\ both \in Seq(Nodes) /\ Len(both) = 1 + m
          /\ \A i \in 1 .. 1 + m : both[i] = IF i <= 1 THEN one[i] ELSE s[i - 1]
        <3>1. /\ both \in Seq(Nodes) /\ Len(both) = Len(one) + Len(s)
              /\ \A i \in 1 .. Len(one) + Len(s) :
                    both[i] = IF i <= Len(one) THEN one[i] ELSE s[i - Len(one)]
            BY <1>1, <2>1, ConcatProperties, Zenon
        <3> HIDE DEF both
        <3> QED
            BY <1>1, <2>1, <3>1
    <2> HIDE DEF both
    <2>3. Lower(s, m, n) \in [1 .. m + 1 -> Nodes]
        BY DEF Lower
    <2>4. m + 1 \in Nat /\ 1 + m = m + 1
        OBVIOUS
    <2>5. Lower(s, m, n) \in Seq(Nodes) /\ Len(Lower(s, m, n)) = m + 1
        BY <2>3, <2>4, ListSeq
    <2>6. \A i \in 1 .. m + 1 : Lower(s, m, n)[i] = both[i]
        BY <2>1, <2>2 DEF Lower
    <2> QED
        BY <2>2, <2>4, <2>5, <2>6, SeqEqual DEF both, one
<1> QED
    BY <1>2, <1>3

LEMMA RidSeq ==
    ASSUME NEW m \in Nat, m > 0, NEW s \in [1 .. m -> Nodes]
    PROVE  RidOf(s, m, m) = SubSeq(s, 1, m - 1) /\ RidOf(s, m, 1) = Tail(s)
<1>1. /\ s \in Seq(Nodes) /\ Len(s) = m /\ m - 1 \in Nat /\ s # <<>>
      /\ \A i \in 1 .. m - 1 : i \in 1 .. m /\ i + 1 \in 1 .. m
    BY ListSeq
<1>2. RidOf(s, m, m) \in [1 .. m - 1 -> Nodes] /\ RidOf(s, m, 1) \in [1 .. m - 1 -> Nodes]
    BY <1>1 DEF RidOf
<1>3. /\ RidOf(s, m, m) \in Seq(Nodes) /\ Len(RidOf(s, m, m)) = m - 1
      /\ RidOf(s, m, 1) \in Seq(Nodes) /\ Len(RidOf(s, m, 1)) = m - 1
    BY <1>1, <1>2, ListSeq
<1>4. RidOf(s, m, m) = SubSeq(s, 1, m - 1)
    <2> DEFINE rest == SubSeq(s, 1, m - 1)
    <2>1. /\ rest \in Seq(Nodes)
          /\ Len(rest) = IF 1 <= m - 1 THEN m - 1 - 1 + 1 ELSE 0
          /\ \A i \in 1 .. m - 1 - 1 + 1 : rest[i] = s[1 + i - 1]
        BY <1>1, SubSeqProperties
    <2> HIDE DEF rest
    <2>2. Len(rest) = m - 1
        BY <2>1
    <2>3. \A i \in 1 .. m - 1 : RidOf(s, m, m)[i] = rest[i]
        BY <1>1, <2>1 DEF RidOf
    <2> QED
        BY <1>3, <2>1, <2>2, <2>3, SeqEqual DEF rest
<1>5. RidOf(s, m, 1) = Tail(s)
    <2>1. /\ Tail(s) \in Seq(Nodes) /\ Len(Tail(s)) = m - 1
          /\ \A i \in 1 .. m - 1 : Tail(s)[i] = s[i + 1]
        BY <1>1, HeadTailProperties
    <2>2. \A i \in 1 .. m - 1 : RidOf(s, m, 1)[i] = Tail(s)[i]
        BY <1>1, <2>1 DEF RidOf
    <2> QED
        BY <1>3, <2>1, <2>2, SeqEqual
<1> QED
    BY <1>4, <1>5

LEMMA InitDeque == Init => D!DequeInit
<1> SUFFICES ASSUME Init PROVE D!DequeInit
    OBVIOUS
<1>1. Stored = <<>>
    BY DEF Init, Stored, Walk
<1> QED
    BY <1>1 DEF Init, D!DequeInit

\* Every step is what the deque does, or is nothing to it.
LEMMA NextDeque ==
    ASSUME IInv, [Next]_vars
    PROVE  [DequeNext]_(D!dequeVars)
<1> DEFINE m == len
<1>1. made => /\ len \in Nat /\ Stored \in [1 .. len -> Nodes]
              /\ Stored \in Seq(Nodes) /\ Len(Stored) = len
              /\ len > 0 => head = Stored[1] /\ tail = Stored[len]
    BY Listed, ListSeq
<1>2. ASSUME NEW n \in Nodes, Rpush(n)
      PROVE  DequeNext
    <2>1. made /\ made' /\ result' = n /\ Stored' = Append(Stored, n)
        BY <1>1, <1>2, RpushDoes, LongerSeq DEF Rpush, Pushed
    <2>2. D!PushBack(n)
        BY <2>1 DEF D!PushBack
    <2> QED
        BY <1>2, <2>2 DEF DequeNext
<1>3. ASSUME NEW n \in Nodes, Lpush(n)
      PROVE  DequeNext
    <2>1. made /\ made' /\ result' = n /\ Stored' = <<n>> \o Stored
        BY <1>1, <1>3, LpushDoes, LongerSeq DEF Lpush, Pushed
    <2>2. D!PushFront(n)
        BY <2>1 DEF D!PushFront
    <2> QED
        BY <1>3, <2>2 DEF DequeNext
<1>4. ASSUME NEW n \in Nodes, Remove(n)
      PROVE  DequeNext
    <2>1. made /\ made' /\ result' = result
        BY <1>4 DEF Remove
    <2>2. PICK k \in 1 .. len : Stored[k] = n /\ Stored' = RidOf(Stored, len, k)
        BY <1>4, RemoveDoes
    <2>3. D!Delete(n)
        BY <1>1, <2>1, <2>2 DEF D!Delete, D!Without, RidOf
    <2> QED
        BY <1>4, <2>3 DEF DequeNext
<1>5. ASSUME Rpop
      PROVE  DequeNext
    <2>1. made /\ made' /\ result' = tail /\ len > 0
        BY <1>5 DEF Rpop, Popped
    <2>2. Stored' = SubSeq(Stored, 1, len - 1) /\ Stored # <<>>
        BY <1>1, <1>5, <2>1, RpopDoes, RidSeq
    <2>3. D!PopBack
        BY <1>1, <2>1, <2>2 DEF D!PopBack
    <2> QED
        BY <1>5, <2>3 DEF DequeNext
<1>6. ASSUME Lpop
      PROVE  DequeNext
    <2>1. made /\ made' /\ result' = head /\ len > 0
        BY <1>6 DEF Lpop, Popped
    <2>2. Stored' = Tail(Stored) /\ Stored # <<>>
        BY <1>1, <1>6, <2>1, LpopDoes, RidSeq
    <2>3. Head(Stored) = Stored[1]
        BY <1>1, <2>1, <2>2
    <2>4. D!PopFront
        BY <1>1, <2>1, <2>2, <2>3 DEF D!PopFront
    <2> QED
        BY <1>6, <2>4 DEF DequeNext
<1>7. ASSUME NEW node, Returns(node)
      PROVE  made /\ made' /\ result' = node /\ Stored' = Stored
    BY <1>7, SameLinks DEF Returns, listVars, heapVars
<1>8. ASSUME PopEmpty
      PROVE  DequeNext
    <2>1. len = 0 /\ made /\ made' /\ result' = Nothing /\ Stored' = Stored
        BY <1>7, <1>8 DEF PopEmpty
    <2>2. Stored = <<>>
        BY <1>1, <2>1
    <2>3. D!PopBack
        BY <2>1, <2>2 DEF D!PopBack
    <2> QED
        BY <1>8, <2>3 DEF DequeNext
<1>9. ASSUME NEW i \in Places, At(i)
      PROVE  DequeNext
    <2>1. made /\ made' /\ result' = NodeAt(i) /\ Stored' = Stored
        BY <1>7, <1>9 DEF At
    <2>2. i \in Int
        BY FS_CardinalityType, ListAssumption DEF Places
    <2> DEFINE place == IF i < 0 THEN len + i + 1 ELSE i + 1
    <2>3. NodeAt(i) = IF place \in 1 .. len THEN Stored[place] ELSE Nothing
        BY <2>1, <2>2, PlaceIs
    <2>4. D!Look(i)
        BY <1>1, <2>1, <2>3 DEF D!Look
    <2> QED
        BY <1>9, <2>4 DEF DequeNext
<1>10. ASSUME NEW v \in Values, Find(v)
       PROVE  DequeNext
    <2> DEFINE hits == {i \in 1 .. len : val[Stored[i]] = v}
    <2>1. /\ made /\ made' /\ Stored' = Stored
          /\ result' = IF hits = {} THEN Nothing
                       ELSE Stored[CHOOSE i \in hits : \A j \in hits : i <= j]
        BY <1>7, <1>10 DEF Find
    <2>2. CASE hits = {}
        <3>1. \A i \in 1 .. len : val[Stored[i]] # v
            BY <2>2
        <3>2. D!Search(v, val)
            BY <1>1, <2>1, <2>2, <3>1 DEF D!Search
        <3> QED
            BY <1>10, <3>2 DEF DequeNext
    <2>3. CASE hits # {}
        <3> DEFINE first == CHOOSE i \in hits : \A j \in hits : i <= j
        <3>1. first \in hits /\ \A j \in hits : first <= j
            <4>1. hits \subseteq Nat
                BY <1>1, <2>1
            <4> HIDE DEF hits
            <4> QED
                BY <2>3, <4>1, Least
        <3>2. result' = Stored[first]
            BY <2>1, <2>3
        <3> HIDE DEF first
        <3>3. /\ first \in 1 .. len /\ val[Stored[first]] = v
              /\ \A j \in 1 .. first - 1 : val[Stored[j]] # v
            BY <1>1, <2>1, <3>1
        <3>4. D!Search(v, val)
            BY <1>1, <2>1, <3>2, <3>3 DEF D!Search
        <3> QED
            BY <1>10, <3>4 DEF DequeNext
    <2> QED
        BY <2>2, <2>3
<1>11. ASSUME LookupFails
       PROVE  DequeNext
    <2>1. D!Fail
        BY <1>7, <1>11 DEF LookupFails, D!Fail
    <2> QED
        BY <1>11, <2>1 DEF DequeNext
<1>12. ASSUME Destroy
       PROVE  DequeNext
    <2>1. ~made' /\ result' = result
        BY <1>12 DEF Destroy
    <2>2. D!Discard
        BY <2>1 DEF D!Discard
    <2> QED
        BY <1>12, <2>2 DEF DequeNext
<1>13. ASSUME NEW n \in Nodes, NEW v \in Values, NodeNew(n, v)
       PROVE  UNCHANGED D!dequeVars
    <2>1. made' = made /\ result' = result
        BY <1>13 DEF NodeNew
    <2>2. made => Stored' = Stored
        BY <1>13, NodeNewDoes
    <2> QED
        BY <2>1, <2>2 DEF D!dequeVars
<1>14. ASSUME UNCHANGED <<listVars, prev, next, made, result>>
       PROVE  UNCHANGED D!dequeVars
    <2>1. Stored' = Stored
        BY <1>14, SameLinks DEF listVars
    <2> QED
        BY <1>14, <2>1 DEF D!dequeVars
<1>15. ASSUME \/ \E n \in Nodes : NodeFree(n)
              \/ \E forward \in BOOLEAN : IteratorNew(forward)
              \/ IteratorNext \/ IteratorDestroy
              \/ UNCHANGED vars
       PROVE  UNCHANGED <<listVars, prev, next, made, result>>
    BY <1>15 DEF NodeFree, IteratorNew, IteratorNext, IteratorDestroy, vars, heapVars
<1> QED
    BY <1>2, <1>3, <1>4, <1>5, <1>6, <1>8, <1>9, <1>10, <1>11, <1>12, <1>13, <1>14, <1>15
    DEF Next

\* Every behaviour of the list is one of a deque, whatever the nodes and what they
\* carry: pushes, pops, removals and lookups do to the sequence of nodes, and return,
\* what the deque's do.
THEOREM ListIsDeque == Spec => ImplementsDeque
<1>1. IInv /\ [Next]_vars => [DequeNext]_(D!dequeVars)
    BY NextDeque
<1> QED
    BY <1>1, InitDeque, Inductive, PTL DEF Spec, ImplementsDeque
=============================================================================
