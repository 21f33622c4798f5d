----------------------------- MODULE FeedProofs -----------------------------
(***************************************************************************)
(* The feeds, for any posts, histories, sizes of a page and moves, any     *)
(* table of logarithms that grows and any decay that leaves something.     *)
(*                                                                         *)
(* RowsAreSums keeps the row of a post the sum of the burns for it: a vote *)
(* that is undone leaves no less than the others gave.  ReaderInv keeps    *)
(* what a client that pages knows: of the last list, all that was there    *)
(* from the start and stands before the end of the last page was seen, or  *)
(* was pulled before it; all that was seen and not pushed stands there     *)
(* still.  What a page shows twice and a client misses follows from it.    *)
(* TrendInv keeps that the groups of a request for trending posts have     *)
(* rows while its awaits are under way.                                    *)
(***************************************************************************)
EXTENDS Feed, SequenceTheorems, FiniteSetTheorems, WellFoundedInduction, TLAPS

-----------------------------------------------------------------------------
(* The invariant *)

Burns == [post : PostKeys, sats : Nat, positive : BOOLEAN, time : -1..MaxTime, comment : BOOLEAN]

\* The rows there may be by now.
RowsBy(time) ==
  {r \in [pos : Nat, neg : Nat, first : 0..time, last : 0..time] : r.pos + r.neg < Len(Log)}

\* The rows of posts are the sums of the burns for them.
RowsAreSums ==
  /\ now \in 0..MaxTime /\ moves \in 0..MaxMoves
  /\ burns \in Seq(Burns)
  /\ rows \in [PostKeys -> RowsBy(now) \cup {NoRow}]
  /\ \A i \in DOMAIN burns : rows[burns[i].post] # NoRow
  /\ \A p \in PostKeys : rows[p] # NoRow =>
       rows[p].pos = TotalOf(burns, p, TRUE) /\ rows[p].neg = TotalOf(burns, p, FALSE)

FoundRows == [post : PostKeys, row : RowsBy(now)]

Readers ==
  [sort : FeedSorts \cup {"posts"}, span : Spans \cup {"week", "all"}, size : Nat \ {0},
   page : Nat, total : Nat \cup {-1}, matched : Nat, found : Seq(FoundRows), more : BOOLEAN,
   list : Seq(PostKeys), seen : SUBSET PostKeys, repeated : SUBSET PostKeys,
   kept : SUBSET PostKeys, pulled : SUBSET PostKeys, pushed : SUBSET PostKeys, grew : BOOLEAN]

Distinct(list) == \A i, j \in DOMAIN list : list[i] = list[j] => i = j

\* What was seen of the last list, up to the place where the last page ended.
SeenSoFar(r) ==
  /\ Distinct(r.list)
  /\ \A i \in DOMAIN r.list : i <= r.page * r.size =>
       r.list[i] \in (r.seen \cup r.pulled) \/ r.list[i] \notin r.kept
  /\ \A i \in DOMAIN r.list : r.list[i] \in r.seen \ r.pushed => i <= r.page * r.size
  /\ r.page = 0 => r.seen = {}
  /\ r.repeated \subseteq r.pushed
  /\ r.page > 0 => r.kept \subseteq ToSet(r.list)
  /\ ~r.more => r.page > 0 /\ (r.grew \/ Len(r.list) <= r.page * r.size)

\* The candidates are in the order of their rankings, and as many as there are.
FoundInOrder(r) ==
  r.found # <<>> =>
    /\ r.sort = "curated" /\ r.total >= 0
    /\ Len(r.found) = Smaller(CandidatePages * r.size, r.matched)
    /\ \A i, j \in DOMAIN r.found : i < j =>
         /\ r.found[i].post # r.found[j].post
         /\ r.found[j].row.pos - r.found[j].row.neg <= r.found[i].row.pos - r.found[i].row.neg

ReaderInv ==
  reader # NoReader => reader \in Readers /\ SeenSoFar(reader) /\ FoundInOrder(reader)

TrendInv ==
  /\ trend.at \in {"none", "velocity", "posts", "shown"}
  /\ trend.at \in {"velocity", "posts"} =>
       /\ trend.groups \in Seq(PostKeys) /\ trend.limit \in Nat
       /\ \A i \in DOMAIN trend.groups : rows[trend.groups[i]] # NoRow

FeedInv == RowsAreSums /\ ReaderInv /\ TrendInv

-----------------------------------------------------------------------------
(* Sums over finite sets.  The recursive function behind a sum exists, and *)
(* sums are taken apart, by induction over subsets: of a set of subsets    *)
(* that is not empty, some member has no other one below it.               *)

LEMMA SmallestSubset ==
  ASSUME NEW U, IsFiniteSet(U), NEW F \in SUBSET SUBSET U, F # {}
  PROVE  \E s \in F : \A x \in s : s \ {x} \notin F
<1>1. IsWellFoundedOn(StrictSubsetOrdering(U), SUBSET U)
  BY FS_StrictSubsetOrderingWellFounded, FS_FiniteSubsetsOfFinite
<1>2. PICK s \in F : \A u \in F : <<u, s>> \notin StrictSubsetOrdering(U)
  BY <1>1, WFMin
<1>3. ASSUME NEW x \in s PROVE s \ {x} \notin F
  <2>1. s \in SUBSET U /\ s \ {x} \in SUBSET U /\ s \ {x} # s
    OBVIOUS
  <2>2. <<s \ {x}, s>> \in StrictSubsetOrdering(U)
    BY <2>1 DEF StrictSubsetOrdering
  <2> QED
    BY <1>2, <2>2
<1> QED
  BY <1>3

\* The element a fold takes out of a set, the function it computes, and the sum
\* of the values that v has on S.
Taken(s) == CHOOSE x \in s : TRUE
SumsOf(v, S, sums) ==
  sums = [s \in SUBSET S |-> IF s = {} THEN 0 ELSE v[Taken(s)] + sums[s \ {Taken(s)}]]
Sums(v, S) == CHOOSE sums : SumsOf(v, S, sums)
SumOver(v, S) == Sums(v, S)[S]

LEMMA TakenLemma ==
  ASSUME NEW s, s # {}
  PROVE  Taken(s) \in s
  BY DEF Taken

\* What such a function is, without the function itself.
LEMMA SumsOfApplied ==
  ASSUME NEW v, NEW S, NEW sums, SumsOf(v, S, sums), NEW s \in SUBSET S
  PROVE  sums[s] = IF s = {} THEN 0 ELSE v[Taken(s)] + sums[s \ {Taken(s)}]
  BY DEF SumsOf

\* There is at most one ...
LEMMA SumsOfUnique ==
  ASSUME NEW v, NEW U, IsFiniteSet(U), NEW S \in SUBSET U, NEW T \in SUBSET U,
         NEW f, SumsOf(v, S, f), NEW g, SumsOf(v, T, g)
  PROVE  \A s \in SUBSET (S \cap T) : f[s] = g[s]
<1> DEFINE F == {s \in SUBSET (S \cap T) : f[s] # g[s]}
<1> SUFFICES ASSUME F # {} PROVE FALSE
  OBVIOUS
<1>1. F \in SUBSET SUBSET U
  OBVIOUS
<1>2. PICK s \in F : \A x \in s : s \ {x} \notin F
  <2> HIDE DEF F
  <2> QED
    BY <1>1, SmallestSubset
<1>3. s \in SUBSET S /\ s \in SUBSET T /\ f[s] # g[s]
  BY <1>2
<1>4. f[s] = IF s = {} THEN 0 ELSE v[Taken(s)] + f[s \ {Taken(s)}]
  <2>1. SumsOf(v, S, f) /\ s \in SUBSET S
    BY <1>3
  <2> QED
    BY ONLY <2>1, SumsOfApplied
<1>5. g[s] = IF s = {} THEN 0 ELSE v[Taken(s)] + g[s \ {Taken(s)}]
  <2>1. SumsOf(v, T, g) /\ s \in SUBSET T
    BY <1>3
  <2> QED
    BY ONLY <2>1, SumsOfApplied
<1>6. s # {}
  BY <1>3, <1>4, <1>5
<1>7. Taken(s) \in s
  BY <1>6, TakenLemma
<1>8. f[s \ {Taken(s)}] = g[s \ {Taken(s)}]
  BY <1>2, <1>3, <1>7
<1> QED
  BY <1>3, <1>4, <1>5, <1>6, <1>8

\* ... and there is one: its value on a set is that of a function on the
\* subsets of that set.
LEMMA SumsExist ==
  ASSUME NEW v, NEW U, IsFiniteSet(U)
  PROVE  \A S \in SUBSET U : SumsOf(v, S, Sums(v, S))
<1> DEFINE F == {S \in SUBSET U : ~ \E sums : SumsOf(v, S, sums)}
<1>1. F = {}
  <2> SUFFICES ASSUME F # {} PROVE FALSE
    OBVIOUS
  <2>1. F \in SUBSET SUBSET U
    OBVIOUS
  <2>2. PICK S \in F : \A x \in S : S \ {x} \notin F
    <3> HIDE DEF F
    <3> QED
      BY <2>1, SmallestSubset
  <2>3. S \in SUBSET U /\ ~ \E sums : SumsOf(v, S, sums)
    BY <2>2
  <2>4. \A x \in S : SumsOf(v, S \ {x}, Sums(v, S \ {x}))
    BY <2>2 DEF Sums
  <2> HIDE DEF F
  <2> DEFINE below(s) == Sums(v, S \ {CHOOSE x \in S : x \notin s})[s]
             top == IF S = {} THEN 0 ELSE v[Taken(S)] + below(S \ {Taken(S)})
             sums == [s \in SUBSET S |-> IF s = S THEN top ELSE below(s)]
  <2>5. ASSUME NEW s \in SUBSET S, s # S
        PROVE  sums[s] = IF s = {} THEN 0 ELSE v[Taken(s)] + sums[s \ {Taken(s)}]
    <3> DEFINE x == CHOOSE z \in S : z \notin s
               B == S \ {x}
    <3>1. x \in S /\ x \notin s /\ s \in SUBSET B /\ sums[s] = Sums(v, B)[s]
      BY <2>5
    <3>2. SumsOf(v, B, Sums(v, B))
      BY <2>4, <3>1
    <3>3. CASE s = {}
      BY <3>1, <3>2, <3>3, SumsOfApplied
    <3>4. CASE s # {}
      <4> DEFINE u == s \ {Taken(s)}
                 y == CHOOSE z \in S : z \notin u
                 C == S \ {y}
      <4>1. Taken(s) \in s /\ u \in SUBSET B /\ u \in SUBSET S /\ u # S
        BY <3>1, <3>4, TakenLemma
      <4>2. y \in S /\ y \notin u /\ u \in SUBSET C /\ sums[u] = Sums(v, C)[u]
        BY <4>1
      <4>3. SumsOf(v, C, Sums(v, C))
        BY <2>4, <4>2
      <4>4. B \in SUBSET U /\ C \in SUBSET U /\ u \in SUBSET (B \cap C)
        BY <2>3, <4>1, <4>2
      <4> HIDE DEF B, C, sums
      <4>5. Sums(v, B)[u] = Sums(v, C)[u]
        BY <3>2, <4>3, <4>4, SumsOfUnique
      <4>6. Sums(v, B)[s] = v[Taken(s)] + Sums(v, B)[u]
        BY <3>1, <3>2, <3>4, SumsOfApplied
      <4> QED
        BY <3>1, <3>4, <4>2, <4>5, <4>6
    <3> QED
      BY <3>3, <3>4
  <2>6. sums[S] = IF S = {} THEN 0 ELSE v[Taken(S)] + sums[S \ {Taken(S)}]
    <3>1. CASE S = {}
      BY <3>1
    <3>2. CASE S # {}
      <4>1. Taken(S) \in S
        BY <3>2, TakenLemma
      <4>2. S \ {Taken(S)} \in SUBSET S /\ S \ {Taken(S)} # S
        BY <4>1
      <4>3. sums[S \ {Taken(S)}] = below(S \ {Taken(S)})
        BY <4>2
      <4>4. sums[S] = top
        OBVIOUS
      <4> HIDE DEF sums, below
      <4> QED
        BY <3>2, <4>3, <4>4
    <3> QED
      BY <3>1, <3>2
  <2>7. DOMAIN sums = SUBSET S /\ sums = [s \in SUBSET S |-> sums[s]]
    OBVIOUS
  <2> HIDE DEF sums
  <2>8. SumsOf(v, S, sums)
    BY <2>5, <2>6, <2>7 DEF SumsOf
  <2> QED
    BY <2>3, <2>8
<1> QED
  BY <1>1 DEF Sums

\* The sum of a set by the element that the fold takes.
LEMMA SumTaken ==
  ASSUME NEW v, NEW S, IsFiniteSet(S)
  PROVE  /\ S = {} => SumOver(v, S) = 0
         /\ S # {} => /\ Taken(S) \in S
                      /\ SumOver(v, S) = v[Taken(S)] + SumOver(v, S \ {Taken(S)})
<1>1. SumsOf(v, S, Sums(v, S))
  BY SumsExist
<1>2. SumOver(v, S) = IF S = {} THEN 0 ELSE v[Taken(S)] + Sums(v, S)[S \ {Taken(S)}]
  BY <1>1, SumsOfApplied DEF SumOver
<1>3. CASE S # {}
  <2> DEFINE T == S \ {Taken(S)}
  <2>1. T \in SUBSET S /\ T \in SUBSET (S \cap T) /\ Taken(S) \in S
    BY <1>3, TakenLemma
  <2>2. SumsOf(v, T, Sums(v, T))
    BY <2>1, SumsExist
  <2> HIDE DEF T
  <2>3. Sums(v, S)[T] = Sums(v, T)[T]
    BY <1>1, <2>1, <2>2, SumsOfUnique
  <2> QED
    BY <1>2, <1>3, <2>1, <2>3 DEF T, SumOver
<1> QED
  BY <1>2, <1>3

\* A sum of integers is one.
LEMMA SumType ==
  ASSUME NEW v, NEW U, IsFiniteSet(U), \A x \in U : v[x] \in Int
  PROVE  \A S \in SUBSET U : SumOver(v, S) \in Int
<1> DEFINE F == {S \in SUBSET U : SumOver(v, S) \notin Int}
<1> SUFFICES ASSUME F # {} PROVE FALSE
  OBVIOUS
<1>1. F \in SUBSET SUBSET U
  OBVIOUS
<1>2. PICK S \in F : \A x \in S : S \ {x} \notin F
  <2> HIDE DEF F
  <2> QED
    BY <1>1, SmallestSubset
<1>3. S \in SUBSET U /\ SumOver(v, S) \notin Int /\ IsFiniteSet(S)
  BY <1>2, FS_Subset
<1>4. /\ S = {} => SumOver(v, S) = 0
      /\ S # {} => Taken(S) \in S /\ SumOver(v, S) = v[Taken(S)] + SumOver(v, S \ {Taken(S)})
  BY <1>3, SumTaken
<1>5. S # {} => SumOver(v, S \ {Taken(S)}) \in Int
  BY <1>2, <1>3, <1>4
<1> QED
  BY <1>3, <1>4, <1>5

\* The sum of a set by any of its elements.
LEMMA SumStep ==
  ASSUME NEW v, NEW U, IsFiniteSet(U), \A x \in U : v[x] \in Int
  PROVE  \A x \in U : SumOver(v, U) = v[x] + SumOver(v, U \ {x})
<1> DEFINE F == {S \in SUBSET U : \E x \in S : SumOver(v, S) # v[x] + SumOver(v, S \ {x})}
<1>1. F = {}
  <2> SUFFICES ASSUME F # {} PROVE FALSE
    OBVIOUS
  <2>1. F \in SUBSET SUBSET U
    OBVIOUS
  <2>2. PICK S \in F : \A y \in S : S \ {y} \notin F
    <3> HIDE DEF F
    <3> QED
      BY <2>1, SmallestSubset
  <2>3. S \in SUBSET U /\ IsFiniteSet(S)
    BY <2>2, FS_Subset
  <2>4. PICK x \in S : SumOver(v, S) # v[x] + SumOver(v, S \ {x})
    BY <2>2
  <2>5. \A y \in S : \A z \in S \ {y} : SumOver(v, S \ {y}) = v[z] + SumOver(v, (S \ {y}) \ {z})
    BY <2>2, <2>3
  <2> HIDE DEF F
  <2>6. PICK t : t = Taken(S)
    OBVIOUS
  <2>7. t \in S /\ SumOver(v, S) = v[t] + SumOver(v, S \ {t})
    BY <2>3, <2>4, <2>6, SumTaken
  <2>8. t # x
    BY <2>4, <2>7
  <2>9. SumOver(v, S \ {t}) = v[x] + SumOver(v, (S \ {t}) \ {x})
    BY <2>5, <2>7, <2>8, <2>4
  <2>10. SumOver(v, S \ {x}) = v[t] + SumOver(v, (S \ {x}) \ {t})
    BY <2>5, <2>7, <2>8, <2>4
  <2>11. (S \ {x}) \ {t} = (S \ {t}) \ {x}
    OBVIOUS
  <2>12. SumOver(v, (S \ {t}) \ {x}) \in Int /\ v[t] \in Int /\ v[x] \in Int
    <3>1. (S \ {t}) \ {x} \in SUBSET U /\ t \in U /\ x \in U
      BY <2>3, <2>4, <2>7
    <3> QED
      BY <3>1, SumType
  <2>13. PICK n : n = SumOver(v, (S \ {t}) \ {x})
    OBVIOUS
  <2>14. /\ SumOver(v, S) = v[t] + (v[x] + n) /\ SumOver(v, S \ {x}) = v[t] + n
         /\ n \in Int
    BY <2>7, <2>9, <2>10, <2>11, <2>12, <2>13
  <2> QED
    BY ONLY <2>4, <2>12, <2>14
<1> QED
  BY <1>1

\* Sums of disjoint sets add up.
LEMMA SumUnion ==
  ASSUME NEW v, NEW A, NEW B, IsFiniteSet(A), IsFiniteSet(B), A \cap B = {},
         \A x \in A \cup B : v[x] \in Int
  PROVE  SumOver(v, A \cup B) = SumOver(v, A) + SumOver(v, B)
<1> DEFINE F == {S \in SUBSET B : SumOver(v, A \cup S) # SumOver(v, A) + SumOver(v, S)}
<1>1. F = {}
  <2> SUFFICES ASSUME F # {} PROVE FALSE
    OBVIOUS
  <2>1. F \in SUBSET SUBSET B
    OBVIOUS
  <2>2. PICK S \in F : \A y \in S : S \ {y} \notin F
    <3> HIDE DEF F
    <3> QED
      BY <2>1, SmallestSubset
  <2>3. /\ S \in SUBSET B /\ IsFiniteSet(S) /\ IsFiniteSet(A \cup S)
        /\ SumOver(v, A \cup S) # SumOver(v, A) + SumOver(v, S)
    BY <2>2, FS_Subset, FS_Union
  <2>4. \A y \in S : SumOver(v, A \cup (S \ {y})) = SumOver(v, A) + SumOver(v, S \ {y})
    BY <2>2, <2>3
  <2> HIDE DEF F
  <2>5. SumOver(v, A) \in Int /\ SumOver(v, {}) = 0 /\ \A y \in S : SumOver(v, S \ {y}) \in Int
    <3>1. SumOver(v, A) \in Int
      BY SumType
    <3>2. SumOver(v, {}) = 0
      BY SumTaken, FS_EmptySet
    <3>3. ASSUME NEW y \in S PROVE SumOver(v, S \ {y}) \in Int
      <4>1. S \ {y} \in SUBSET S /\ \A x \in S : v[x] \in Int
        BY <2>3
      <4> QED
        BY <2>3, <4>1, SumType
    <3> QED
      BY <3>1, <3>2, <3>3
  <2>6. PICK y : y \in S
    <3>1. CASE S = {}
      <4>1. A \cup S = A
        BY <3>1
      <4> QED
        BY <2>3, <2>5, <3>1, <4>1
    <3> QED
      BY <3>1
  <2>7. SumOver(v, S) = v[y] + SumOver(v, S \ {y}) /\ v[y] \in Int
    BY <2>3, <2>6, SumStep
  <2>8. SumOver(v, A \cup S) = v[y] + SumOver(v, A \cup (S \ {y}))
    <3>1. y \in A \cup S /\ \A x \in A \cup S : v[x] \in Int
      BY <2>3, <2>6
    <3>2. SumOver(v, A \cup S) = v[y] + SumOver(v, (A \cup S) \ {y})
      BY <2>3, <3>1, SumStep
    <3>3. (A \cup S) \ {y} = A \cup (S \ {y})
      BY <2>3, <2>6
    <3> QED
      BY <3>2, <3>3
  <2>9. SumOver(v, A \cup (S \ {y})) = SumOver(v, A) + SumOver(v, S \ {y}) /\ SumOver(v, S \ {y}) \in Int
    BY <2>4, <2>5, <2>6
  <2> QED
    BY ONLY <2>3, <2>5, <2>7, <2>8, <2>9
<1>2. B \notin F
  BY <1>1
<1> QED
  BY <1>2

\* The sums of the parts of a set add up to its own.
LEMMA SumOfSums ==
  ASSUME NEW v, NEW U, IsFiniteSet(U), \A x \in U : v[x] \in Int,
         NEW W, IsFiniteSet(W), NEW part, \A w \in W : part[w] \in SUBSET U,
         \A w, z \in W : w # z => part[w] \cap part[z] = {},
         NEW sums, \A w \in W : sums[w] = SumOver(v, part[w])
  PROVE  SumOver(sums, W) = SumOver(v, UNION {part[w] : w \in W})
<1> DEFINE all(S) == UNION {part[w] : w \in S}
           F == {S \in SUBSET W : SumOver(sums, S) # SumOver(v, all(S))}
<1>1. F = {}
  <2> SUFFICES ASSUME F # {} PROVE FALSE
    OBVIOUS
  <2>1. F \in SUBSET SUBSET W
    OBVIOUS
  <2>2. PICK S \in F : \A y \in S : S \ {y} \notin F
    <3> HIDE DEF F
    <3> QED
      BY <2>1, SmallestSubset
  <2>3. S \in SUBSET W /\ IsFiniteSet(S) /\ SumOver(sums, S) # SumOver(v, all(S))
    BY <2>2, FS_Subset
  <2>4. \A y \in S : SumOver(sums, S \ {y}) = SumOver(v, all(S \ {y}))
    BY <2>2, <2>3
  <2> HIDE DEF F
  <2>5. PICK w : w \in S
    <3>1. CASE S = {}
      <4>1. all(S) = {}
        BY <3>1
      <4>2. SumOver(sums, {}) = 0 /\ SumOver(v, {}) = 0
        BY SumTaken, FS_EmptySet
      <4> QED
        BY <2>3, <3>1, <4>1, <4>2
    <3> QED
      BY <3>1
  <2>6. w \in W /\ part[w] \in SUBSET U /\ all(S \ {w}) \in SUBSET U
    BY <2>3, <2>5
  <2>7. all(S) = part[w] \cup all(S \ {w}) /\ part[w] \cap all(S \ {w}) = {}
    BY <2>3, <2>5
  <2> HIDE DEF all
  <2>8. \A x \in W : sums[x] \in Int
    <3> TAKE x \in W
    <3>1. part[x] \in SUBSET U /\ sums[x] = SumOver(v, part[x])
      OBVIOUS
    <3> QED
      BY <3>1, SumType
  <2>9. SumOver(sums, S) = sums[w] + SumOver(sums, S \ {w})
    BY <2>3, <2>5, <2>8, SumStep
  <2>10. SumOver(v, all(S)) = SumOver(v, part[w]) + SumOver(v, all(S \ {w}))
    <3>1. IsFiniteSet(part[w]) /\ IsFiniteSet(all(S \ {w}))
      BY <2>6, FS_Subset
    <3>2. \A x \in part[w] \cup all(S \ {w}) : v[x] \in Int
      BY <2>6
    <3>3. PICK A, B : A = part[w] /\ B = all(S \ {w})
      OBVIOUS
    <3>4. SumOver(v, A \cup B) = SumOver(v, A) + SumOver(v, B)
      <4>1. /\ IsFiniteSet(A) /\ IsFiniteSet(B) /\ A \cap B = {}
            /\ \A x \in A \cup B : v[x] \in Int
        BY <2>7, <3>1, <3>2, <3>3
      <4> QED
        BY ONLY <4>1, SumUnion
    <3>5. all(S) = A \cup B
      BY <2>7, <3>3
    <3> QED
      BY <3>3, <3>4, <3>5
  <2> QED
    BY <2>3, <2>4, <2>5, <2>6, <2>9, <2>10
<1>2. W \notin F
  BY <1>1
<1> QED
  BY <1>2

\* A sum of natural numbers is one.
LEMMA SumNat ==
  ASSUME NEW v, NEW U, IsFiniteSet(U), \A x \in U : v[x] \in Nat
  PROVE  \A S \in SUBSET U : SumOver(v, S) \in Nat
<1> DEFINE F == {S \in SUBSET U : SumOver(v, S) \notin Nat}
<1> SUFFICES ASSUME F # {} PROVE FALSE
  OBVIOUS
<1>1. F \in SUBSET SUBSET U
  OBVIOUS
<1>2. PICK S \in F : \A x \in S : S \ {x} \notin F
  <2> HIDE DEF F
  <2> QED
    BY <1>1, SmallestSubset
<1>3. S \in SUBSET U /\ SumOver(v, S) \notin Nat /\ IsFiniteSet(S)
  BY <1>2, FS_Subset
<1>4. /\ S = {} => SumOver(v, S) = 0
      /\ S # {} => Taken(S) \in S /\ SumOver(v, S) = v[Taken(S)] + SumOver(v, S \ {Taken(S)})
  BY <1>3, SumTaken
<1>5. S # {} => SumOver(v, S \ {Taken(S)}) \in Nat
  BY <1>2, <1>3, <1>4
<1> QED
  BY <1>3, <1>4, <1>5

\* A sum does not change when its places are renamed.
LEMMA SumMoved ==
  ASSUME NEW v, NEW w, NEW U, IsFiniteSet(U), NEW f,
         \A x, y \in U : f[x] = f[y] => x = y,
         \A x \in U : v[x] \in Int /\ w[f[x]] = v[x]
  PROVE  SumOver(w, {f[x] : x \in U}) = SumOver(v, U)
<1> DEFINE image(S) == {f[x] : x \in S}
           F == {S \in SUBSET U : SumOver(w, image(S)) # SumOver(v, S)}
<1>1. F = {}
  <2> SUFFICES ASSUME F # {} PROVE FALSE
    OBVIOUS
  <2>1. F \in SUBSET SUBSET U
    OBVIOUS
  <2>2. PICK S \in F : \A y \in S : S \ {y} \notin F
    <3> HIDE DEF F
    <3> QED
      BY <2>1, SmallestSubset
  <2>3. S \in SUBSET U /\ IsFiniteSet(S) /\ SumOver(w, image(S)) # SumOver(v, S)
    BY <2>2, FS_Subset
  <2>4. \A y \in S : SumOver(w, image(S \ {y})) = SumOver(v, S \ {y})
    BY <2>2, <2>3
  <2> HIDE DEF F
  <2>5. PICK y : y \in S
    <3>1. CASE S = {}
      <4>1. image(S) = {}
        BY <3>1
      <4>2. SumOver(v, {}) = 0 /\ SumOver(w, {}) = 0
        BY SumTaken, FS_EmptySet
      <4> QED
        BY <2>3, <3>1, <4>1, <4>2
    <3> QED
      BY <3>1
  <2>6. image(S) = {f[y]} \cup image(S \ {y}) /\ f[y] \notin image(S \ {y})
    BY <2>3, <2>5
  <2>7. IsFiniteSet(image(S)) /\ \A z \in image(S) : w[z] \in Int
    <3> DEFINE g == [x \in S |-> f[x]]
    <3>1. g \in Surjection(S, image(S))
      BY DEF Surjection
    <3>2. \A z \in image(S) : w[z] \in Int
      BY <2>3
    <3> HIDE DEF g
    <3> QED
      BY <2>3, <3>1, <3>2, FS_Surjection
  <2>8. PICK A : A = image(S)
    OBVIOUS
  <2>9. A \ {f[y]} = image(S \ {y}) /\ f[y] \in A
    BY <2>6, <2>8
  <2>10. SumOver(w, A) = w[f[y]] + SumOver(w, A \ {f[y]})
    BY <2>7, <2>8, <2>9, SumStep
  <2>11. SumOver(v, S) = v[y] + SumOver(v, S \ {y})
    BY <2>3, <2>5, SumStep
  <2>12. w[f[y]] = v[y]
    BY <2>3, <2>5
  <2> QED
    BY <2>3, <2>4, <2>5, <2>8, <2>9, <2>10, <2>11, <2>12
<1>2. U \notin F
  BY <1>1
<1> QED
  BY <1>2

\* Values that agree on a set have one sum there.
LEMMA SumAgrees ==
  ASSUME NEW v, NEW w, NEW U, IsFiniteSet(U), \A x \in U : v[x] \in Int /\ w[x] = v[x]
  PROVE  SumOver(w, U) = SumOver(v, U)
<1> DEFINE f == [x \in U |-> x]
<1>1. {f[x] : x \in U} = U
  OBVIOUS
<1>2. \A x, y \in U : f[x] = f[y] => x = y
  OBVIOUS
<1>3. \A x \in U : v[x] \in Int /\ w[f[x]] = v[x]
  OBVIOUS
<1> HIDE DEF f
<1>4. SumOver(w, {f[x] : x \in U}) = SumOver(v, U)
  BY <1>2, <1>3, SumMoved
<1> QED
  BY <1>1, <1>4

-----------------------------------------------------------------------------
(* The totals of a post *)

Places(h, p, positive) == {i \in DOMAIN h : h[i].post = p /\ h[i].positive = positive}
Sats(h) == [i \in DOMAIN h |-> h[i].sats]

TotalsOf(h, S, sums) ==
  sums = [s \in SUBSET S |-> IF s = {} THEN 0 ELSE h[Taken(s)].sats + sums[s \ {Taken(s)}]]

LEMMA PlacesFinite ==
  ASSUME NEW h \in Seq(Burns), NEW p, NEW positive
  PROVE  /\ IsFiniteSet(DOMAIN h) /\ IsFiniteSet(Places(h, p, positive))
         /\ Places(h, p, positive) \in SUBSET DOMAIN h
         /\ \A i \in DOMAIN h : Sats(h)[i] \in Nat
<1>1. DOMAIN h = 1..Len(h) /\ Len(h) \in Nat
  OBVIOUS
<1>2. IsFiniteSet(DOMAIN h)
  BY <1>1, FS_Interval
<1>3. Places(h, p, positive) \in SUBSET DOMAIN h
  BY DEF Places
<1>4. \A i \in DOMAIN h : Sats(h)[i] \in Nat
  <2>1. \A i \in DOMAIN h : h[i] \in Burns
    BY <1>1
  <2>2. \A i \in DOMAIN h : h[i].sats \in Nat
    BY <2>1 DEF Burns
  <2> QED
    BY <2>2 DEF Sats
<1> QED
  BY <1>2, <1>3, <1>4, FS_Subset

LEMMA TotalIsSum ==
  ASSUME NEW h \in Seq(Burns), NEW p, NEW positive
  PROVE  /\ TotalOf(h, p, positive) = SumOver(Sats(h), Places(h, p, positive))
         /\ TotalOf(h, p, positive) \in Nat
<1>1. PICK S, v : S = Places(h, p, positive) /\ v = Sats(h)
  OBVIOUS
<1>2. IsFiniteSet(S) /\ S \in SUBSET DOMAIN h /\ \A i \in DOMAIN h : v[i] \in Nat
  BY <1>1, PlacesFinite
<1>3. TotalOf(h, p, positive) = (CHOOSE sums : TotalsOf(h, S, sums))[S]
  BY <1>1, SMT DEF TotalOf, Places, MapThenSumSet, MapThenFoldSet, TotalsOf, Taken
<1>4. \A s \in SUBSET S : s # {} => h[Taken(s)].sats = v[Taken(s)]
  BY <1>1, <1>2, TakenLemma DEF Sats
<1>5. \A sums : TotalsOf(h, S, sums) <=> SumsOf(v, S, sums)
  <2> TAKE sums
  <2>1. [s \in SUBSET S |-> IF s = {} THEN 0 ELSE h[Taken(s)].sats + sums[s \ {Taken(s)}]]
        = [s \in SUBSET S |-> IF s = {} THEN 0 ELSE v[Taken(s)] + sums[s \ {Taken(s)}]]
    BY <1>4
  <2> QED
    BY <2>1 DEF TotalsOf, SumsOf
<1>6. SumsOf(v, S, Sums(v, S))
  BY <1>2, SumsExist
<1>7. SumsOf(v, S, CHOOSE sums : TotalsOf(h, S, sums))
  BY <1>5, <1>6
<1>8. (CHOOSE sums : TotalsOf(h, S, sums))[S] = Sums(v, S)[S]
  BY <1>2, <1>6, <1>7, SumsOfUnique
<1>9. SumOver(v, S) \in Nat
  <2>1. \A i \in S : v[i] \in Nat
    BY <1>2
  <2> QED
    BY <1>2, <2>1, SumNat
<1> QED
  BY <1>1, <1>3, <1>8, <1>9 DEF SumOver

\* What a burn adds to the total of a post.
Share(b, p, positive) == IF b.post = p /\ b.positive = positive THEN b.sats ELSE 0

LEMMA TotalAppend ==
  ASSUME NEW h \in Seq(Burns), NEW b \in Burns, NEW p, NEW positive
  PROVE  TotalOf(Append(h, b), p, positive) = TotalOf(h, p, positive) + Share(b, p, positive)
<1>1. PICK n, new : n = Len(h) /\ new = Append(h, b)
  OBVIOUS
<1>2. /\ n \in Nat /\ DOMAIN h = 1..n /\ new \in Seq(Burns) /\ DOMAIN new = 1..(n + 1)
      /\ new[n + 1] = b /\ \A i \in 1..n : new[i] = h[i]
  BY <1>1
<1>3. PICK S, T : S = Places(h, p, positive) /\ T = Places(new, p, positive)
  OBVIOUS
<1>4. /\ IsFiniteSet(S) /\ S \in SUBSET (1..n) /\ \A i \in 1..n : Sats(h)[i] \in Nat
      /\ IsFiniteSet(T) /\ T \in SUBSET (1..(n + 1)) /\ \A i \in 1..(n + 1) : Sats(new)[i] \in Nat
  BY <1>2, <1>3, PlacesFinite
<1>5. SumOver(Sats(new), S) = SumOver(Sats(h), S)
  <2>1. \A i \in S : Sats(h)[i] \in Int /\ Sats(new)[i] = Sats(h)[i]
    BY <1>2, <1>4 DEF Sats
  <2> QED
    BY <1>4, <2>1, SumAgrees
<1>6. TotalOf(h, p, positive) = SumOver(Sats(h), S) /\ TotalOf(h, p, positive) \in Nat
  BY <1>3, TotalIsSum
<1>7. TotalOf(new, p, positive) = SumOver(Sats(new), T)
  BY <1>2, <1>3, TotalIsSum
<1>8. CASE b.post = p /\ b.positive = positive
  <2>1. T = S \cup {n + 1} /\ n + 1 \notin S /\ T \ {n + 1} = S
    BY <1>2, <1>3, <1>8 DEF Places
  <2>2. \A i \in T : Sats(new)[i] \in Int
    BY <1>4
  <2>3. SumOver(Sats(new), T) = Sats(new)[n + 1] + SumOver(Sats(new), T \ {n + 1})
    BY <1>4, <2>1, <2>2, SumStep
  <2>4. Sats(new)[n + 1] = b.sats /\ b.sats \in Nat
    BY <1>2 DEF Sats, Burns
  <2> QED
    <3>1. TotalOf(new, p, positive) = b.sats + TotalOf(h, p, positive)
      BY <1>5, <1>6, <1>7, <2>1, <2>3, <2>4
    <3>2. Share(b, p, positive) = b.sats
      BY <1>8 DEF Share
    <3> QED
      BY <1>1, <1>6, <2>4, <3>1, <3>2
<1>9. CASE ~(b.post = p /\ b.positive = positive)
  <2>1. T = S
    BY <1>2, <1>3, <1>9 DEF Places
  <2> QED
    BY <1>1, <1>5, <1>6, <1>7, <1>9, <2>1 DEF Share
<1> QED
  BY <1>8, <1>9

\* The places after the one that is removed move up.
LEMMA RemovedPlaces ==
  ASSUME NEW h \in Seq(Burns), NEW k \in DOMAIN h
  PROVE  /\ RemoveAt(h, k) \in Seq(Burns) /\ Len(RemoveAt(h, k)) = Len(h) - 1
         /\ \A i \in 1..(Len(h) - 1) :
              RemoveAt(h, k)[i] = IF i < k THEN h[i] ELSE h[i + 1]
<1>1. PICK n, a, c : n = Len(h) /\ a = SubSeq(h, 1, k - 1) /\ c = SubSeq(h, k + 1, n)
  OBVIOUS
<1>2. n \in Nat /\ k \in 1..n /\ \A i \in 1..n : h[i] \in Burns
  BY <1>1
<1>3. a \in Seq(Burns) /\ Len(a) = k - 1 /\ \A i \in 1..(k - 1) : a[i] = h[i]
  BY <1>1, <1>2
<1>4. c \in Seq(Burns) /\ Len(c) = n - k /\ \A i \in 1..(n - k) : c[i] = h[k + i]
  <2>1. c = [i \in 1..(n - k) |-> h[k + i]]
    BY <1>1, <1>2
  <2>2. \A i \in 1..(n - k) : k + i \in 1..n /\ h[k + i] \in Burns
    BY <1>2
  <2>3. c \in [1..(n - k) -> Burns] /\ \A i \in 1..(n - k) : c[i] = h[k + i]
    BY <2>1, <2>2
  <2>4. n - k \in Nat
    BY <1>2
  <2> QED
    BY <2>3, <2>4
<1>5. RemoveAt(h, k) = a \o c
  BY <1>1 DEF RemoveAt
<1>6. /\ a \o c \in Seq(Burns) /\ Len(a \o c) = n - 1
      /\ \A i \in 1..(n - 1) : (a \o c)[i] = IF i <= k - 1 THEN a[i] ELSE c[i - (k - 1)]
  <2>1. a \in Seq(Burns) /\ c \in Seq(Burns) /\ Len(a) + Len(c) = n - 1 /\ Len(a) = k - 1
    BY <1>2, <1>3, <1>4
  <2>2. /\ a \o c \in Seq(Burns) /\ Len(a \o c) = Len(a) + Len(c)
        /\ \A i \in 1..(Len(a) + Len(c)) :
             (a \o c)[i] = IF i <= Len(a) THEN a[i] ELSE c[i - Len(a)]
    BY ONLY <2>1, ConcatProperties
  <2> QED
    BY ONLY <2>1, <2>2
<1>7. \A i \in 1..(n - 1) : (a \o c)[i] = IF i < k THEN h[i] ELSE h[i + 1]
  <2> TAKE i \in 1..(n - 1)
  <2>1. CASE i < k
    BY <1>2, <1>3, <1>6, <2>1
  <2>2. CASE ~(i < k)
    <3>1. i - (k - 1) \in 1..(n - k) /\ k + (i - (k - 1)) = i + 1
      BY <1>2, <2>2
    <3>2. c[i - (k - 1)] = h[i + 1]
      BY <1>4, <3>1
    <3>3. ~(i <= k - 1)
      BY <1>2, <2>2
    <3> QED
      BY <1>6, <2>2, <3>2, <3>3
  <2> QED
    BY <2>1, <2>2
<1> QED
  BY <1>1, <1>5, <1>6, <1>7

LEMMA TotalRemove ==
  ASSUME NEW h \in Seq(Burns), NEW k \in DOMAIN h, NEW p, NEW positive
  PROVE  TotalOf(h, p, positive)
           = TotalOf(RemoveAt(h, k), p, positive) + Share(h[k], p, positive)
<1>1. PICK n, new : n = Len(h) /\ new = RemoveAt(h, k)
  OBVIOUS
<1>2. /\ n \in Nat /\ DOMAIN h = 1..n /\ k \in 1..n
      /\ new \in Seq(Burns) /\ Len(new) = n - 1 /\ DOMAIN new = 1..(n - 1)
      /\ \A i \in 1..(n - 1) : new[i] = IF i < k THEN h[i] ELSE h[i + 1]
  <2>1. n \in Nat /\ DOMAIN h = 1..n /\ k \in 1..n
    BY <1>1
  <2>2. /\ new \in Seq(Burns) /\ Len(new) = n - 1
        /\ \A i \in 1..(n - 1) : new[i] = IF i < k THEN h[i] ELSE h[i + 1]
    BY <1>1, RemovedPlaces
  <2> QED
    BY <2>1, <2>2
<1>3. PICK S, T : S = Places(h, p, positive) /\ T = Places(new, p, positive)
  OBVIOUS
<1>4. /\ IsFiniteSet(S) /\ S \in SUBSET (1..n) /\ \A i \in 1..n : Sats(h)[i] \in Nat
      /\ IsFiniteSet(T) /\ T \in SUBSET (1..(n - 1)) /\ \A i \in 1..(n - 1) : Sats(new)[i] \in Nat
  BY <1>2, <1>3, PlacesFinite
<1>5. PICK f : f = [i \in 1..(n - 1) |-> IF i < k THEN i ELSE i + 1]
  OBVIOUS
<1>6. {f[i] : i \in T} = S \ {k}
  <2>1. \A i \in 1..(n - 1) : f[i] \in 1..n /\ f[i] # k /\ new[i] = h[f[i]]
    BY <1>2, <1>5
  <2>2. \A j \in 1..n : j # k => \E i \in 1..(n - 1) : f[i] = j
    <3> TAKE j \in 1..n
    <3>1. CASE j < k
      <4>1. j \in 1..(n - 1) /\ f[j] = j
        BY <1>2, <1>5, <3>1
      <4> QED
        BY <4>1
    <3>2. CASE j > k
      <4>1. j - 1 \in 1..(n - 1) /\ f[j - 1] = j
        BY <1>2, <1>5, <3>2
      <4> QED
        BY <4>1
    <3> QED
      BY <1>2, <3>1, <3>2
  <2>3. S \in SUBSET (1..n) /\ \A i \in 1..n : i \in S <=> h[i].post = p /\ h[i].positive = positive
    BY <1>2, <1>3 DEF Places
  <2>4. T \in SUBSET (1..(n - 1))
        /\ \A i \in 1..(n - 1) : i \in T <=> new[i].post = p /\ new[i].positive = positive
    BY <1>2, <1>3 DEF Places
  <2>5. \A i \in 1..(n - 1) : f[i] \in S <=> i \in T
    BY <2>1, <2>3, <2>4
  <2>6. ASSUME NEW j \in S \ {k} PROVE j \in {f[i] : i \in T}
    <3>1. PICK i \in 1..(n - 1) : f[i] = j
      BY <2>2, <2>3
    <3> QED
      BY <2>5, <3>1
  <2> QED
    BY <2>1, <2>4, <2>5, <2>6
<1>7. SumOver(Sats(h), S \ {k}) = SumOver(Sats(new), T)
  <2>1. \A i, j \in T : f[i] = f[j] => i = j
    BY <1>2, <1>4, <1>5
  <2>2. \A i \in T : Sats(new)[i] \in Int /\ Sats(h)[f[i]] = Sats(new)[i]
    BY <1>2, <1>4, <1>5 DEF Sats
  <2>3. SumOver(Sats(h), {f[i] : i \in T}) = SumOver(Sats(new), T)
    <3>1. PICK v, w : v = Sats(new) /\ w = Sats(h)
      OBVIOUS
    <3>2. \A i \in T : v[i] \in Int /\ w[f[i]] = v[i]
      BY <2>2, <3>1
    <3>3. IsFiniteSet(T)
      BY <1>4
    <3>4. SumOver(w, {f[i] : i \in T}) = SumOver(v, T)
      BY ONLY <2>1, <3>2, <3>3, SumMoved
    <3> QED
      BY <3>1, <3>4
  <2> QED
    BY <1>6, <2>3
<1>8. TotalOf(h, p, positive) = SumOver(Sats(h), S)
  BY <1>3, TotalIsSum
<1>9. TotalOf(new, p, positive) = SumOver(Sats(new), T) /\ TotalOf(new, p, positive) \in Nat
  BY <1>2, <1>3, TotalIsSum
<1>10. CASE h[k].post = p /\ h[k].positive = positive
  <2>1. k \in S
    BY <1>2, <1>3, <1>10 DEF Places
  <2>2. \A i \in S : Sats(h)[i] \in Int
    BY <1>4
  <2>3. SumOver(Sats(h), S) = Sats(h)[k] + SumOver(Sats(h), S \ {k})
    <3>1. PICK v : v = Sats(h)
      OBVIOUS
    <3>2. IsFiniteSet(S) /\ \A i \in S : v[i] \in Int
      BY <1>4, <2>2, <3>1
    <3>3. SumOver(v, S) = v[k] + SumOver(v, S \ {k})
      BY ONLY <2>1, <3>2, SumStep
    <3> QED
      BY <3>1, <3>3
  <2>4. Sats(h)[k] = h[k].sats /\ Sats(h)[k] \in Nat
    BY <1>2, <1>4 DEF Sats
  <2> QED
    BY <1>1, <1>7, <1>8, <1>9, <1>10, <2>3, <2>4 DEF Share
<1>11. CASE ~(h[k].post = p /\ h[k].positive = positive)
  <2>1. S \ {k} = S
    BY <1>3, <1>11 DEF Places
  <2> QED
    <3>1. TotalOf(h, p, positive) = TotalOf(new, p, positive)
      BY <1>7, <1>8, <1>9, <2>1
    <3>2. Share(h[k], p, positive) = 0
      BY <1>11 DEF Share
    <3> QED
      BY <1>1, <1>9, <3>1, <3>2
<1> QED
  BY <1>10, <1>11

\* A new time of a burn leaves the totals alone.
LEMMA TotalTimed ==
  ASSUME NEW h \in Seq(Burns), NEW k \in DOMAIN h, NEW time \in -1..MaxTime, NEW p, NEW positive
  PROVE  /\ [h EXCEPT ![k].time = time] \in Seq(Burns)
         /\ TotalOf([h EXCEPT ![k].time = time], p, positive) = TotalOf(h, p, positive)
<1>1. PICK n, new : n = Len(h) /\ new = [h EXCEPT ![k].time = time]
  OBVIOUS
<1>2. /\ n \in Nat /\ DOMAIN h = 1..n /\ DOMAIN new = 1..n
      /\ \A i \in 1..n : /\ new[i] \in Burns /\ new[i].post = h[i].post
                         /\ new[i].positive = h[i].positive /\ new[i].sats = h[i].sats
  <2>1. n \in Nat /\ DOMAIN h = 1..n /\ DOMAIN new = 1..n /\ k \in 1..n
        /\ \A i \in 1..n : h[i] \in Burns
    BY <1>1
  <2>2. ASSUME NEW i \in 1..n
        PROVE  /\ new[i] \in Burns /\ new[i].post = h[i].post
               /\ new[i].positive = h[i].positive /\ new[i].sats = h[i].sats
    <3>1. CASE i = k
      <4>1. new[i] = [h[k] EXCEPT !.time = time]
        BY <1>1, <2>1, <3>1
      <4>2. h[k] \in Burns
        BY <2>1
      <4>3. PICK b : b = h[k]
        OBVIOUS
      <4>4. /\ [b EXCEPT !.time = time] \in Burns
            /\ [b EXCEPT !.time = time].post = b.post
            /\ [b EXCEPT !.time = time].positive = b.positive
            /\ [b EXCEPT !.time = time].sats = b.sats
        BY <4>2, <4>3 DEF Burns
      <4> QED
        BY <3>1, <4>1, <4>3, <4>4
    <3>2. CASE i # k
      <4>1. new[i] = h[i]
        BY <1>1, <2>1, <3>2
      <4> QED
        BY <2>1, <4>1
    <3> QED
      BY <3>1, <3>2
  <2> QED
    BY <2>1, <2>2
<1>3. new \in Seq(Burns)
  <2>1. new = [i \in 1..n |-> new[i]]
    BY <1>1, <1>2
  <2>2. n \in Nat /\ \A i \in 1..n : new[i] \in Burns
    BY <1>2
  <2> QED
    BY ONLY <2>1, <2>2
<1>4. Places(new, p, positive) = Places(h, p, positive) /\ Sats(new) = Sats(h)
  BY <1>2 DEF Places, Sats
<1>5. TotalOf(new, p, positive) = SumOver(Sats(new), Places(new, p, positive))
  BY <1>3, TotalIsSum
<1>6. TotalOf(h, p, positive) = SumOver(Sats(h), Places(h, p, positive))
  BY TotalIsSum
<1>7. TotalOf(new, p, positive) = TotalOf(h, p, positive)
  BY <1>4, <1>5, <1>6
<1> QED
  BY <1>1, <1>3, <1>7

-----------------------------------------------------------------------------
(* Votes *)

LEMMA RowIsNotNone ==
  ASSUME NEW time, NEW r \in RowsBy(time)
  PROVE  /\ r # NoRow /\ r.pos \in Nat /\ r.neg \in Nat /\ r.pos + r.neg < Len(Log)
         /\ r.first \in 0..time /\ r.last \in 0..time
<1>1. /\ r \in [pos : Nat, neg : Nat, first : 0..time, last : 0..time]
      /\ r.pos + r.neg < Len(Log)
  BY DEF RowsBy
<1>2. r.first \in 0..time
  BY <1>1
<1>3. r.first # -1
  BY <1>2
<1>4. NoRow.first = -1
  BY DEF NoRow
<1> QED
  BY <1>1, <1>3, <1>4

\* A post without a burn has a total of 0.
LEMMA NothingBurned ==
  ASSUME NEW h \in Seq(Burns), NEW p, NEW positive, \A i \in DOMAIN h : h[i].post # p
  PROVE  TotalOf(h, p, positive) = 0
<1>1. Places(h, p, positive) = {}
  BY DEF Places
<1>2. PICK v : v = Sats(h)
  OBVIOUS
<1>3. SumOver(v, {}) = 0
  BY FS_EmptySet, SumTaken
<1> QED
  BY <1>1, <1>2, <1>3, TotalIsSum

\* The rows of the other posts stay the sums of their burns.
LEMMA OneRowChanges ==
  ASSUME RowsAreSums, UNCHANGED <<now, moves>> \/ (now' = now /\ Moves),
         burns' \in Seq(Burns), NEW p \in PostKeys, NEW r,
         rows' = [rows EXCEPT ![p] = r], r \in RowsBy(now),
         \A i \in DOMAIN burns' : burns'[i].post # p => rows[burns'[i].post] # NoRow,
         \A i \in DOMAIN burns' : burns'[i].post \in PostKeys,
         r.pos = TotalOf(burns', p, TRUE), r.neg = TotalOf(burns', p, FALSE),
         \A q \in PostKeys \ {p}, positive \in BOOLEAN :
           TotalOf(burns', q, positive) = TotalOf(burns, q, positive)
  PROVE  RowsAreSums' /\ \A q \in PostKeys : rows[q] # NoRow => rows'[q] # NoRow
<1>1. now' = now /\ now \in 0..MaxTime /\ moves' \in 0..MaxMoves
  <2>1. now \in 0..MaxTime /\ moves \in 0..MaxMoves /\ MaxMoves \in Nat
    BY FeedAssumption DEF RowsAreSums
  <2>2. CASE UNCHANGED <<now, moves>>
    BY <2>1, <2>2
  <2>3. CASE now' = now /\ Moves
    <3>1. moves' = moves + 1 /\ moves < MaxMoves
      BY <2>3 DEF Moves
    <3> QED
      BY <2>1, <2>3, <3>1
  <2> QED
    BY <2>2, <2>3
<1>2. rows \in [PostKeys -> RowsBy(now) \cup {NoRow}]
  BY DEF RowsAreSums
<1>3. rows' \in [PostKeys -> RowsBy(now) \cup {NoRow}] /\ rows'[p] = r
      /\ \A q \in PostKeys \ {p} : rows'[q] = rows[q]
  BY <1>2
<1>4. r # NoRow
  BY RowIsNotNone
<1>5. \A i \in DOMAIN burns' : rows'[burns'[i].post] # NoRow
  BY <1>3, <1>4
<1>6. ASSUME NEW q \in PostKeys, rows'[q] # NoRow
      PROVE  rows'[q].pos = TotalOf(burns', q, TRUE) /\ rows'[q].neg = TotalOf(burns', q, FALSE)
  <2>1. CASE q = p
    BY <1>3, <2>1
  <2>2. CASE q # p
    <3>1. rows'[q] = rows[q] /\ rows[q] # NoRow
      BY <1>3, <1>6, <2>2
    <3>2. rows[q].pos = TotalOf(burns, q, TRUE) /\ rows[q].neg = TotalOf(burns, q, FALSE)
      BY <3>1 DEF RowsAreSums
    <3> QED
      BY <2>2, <3>1, <3>2
  <2> QED
    BY <2>1, <2>2
<1>7. \A q \in PostKeys : rows[q] # NoRow => rows'[q] # NoRow
  BY <1>3, <1>4
<1>8. rows' \in [PostKeys -> RowsBy(now') \cup {NoRow}]
  BY <1>1, <1>3
<1>9. now' \in 0..MaxTime
  BY <1>1
<1>10. RowsAreSums'
  BY <1>1, <1>5, <1>6, <1>8, <1>9 DEF RowsAreSums
<1> QED
  BY <1>7, <1>10

\* A row with new totals and a new time.
Retotalled(r, pos, neg, last) == [r EXCEPT !.pos = pos, !.neg = neg, !.last = last]

LEMMA RowMade ==
  ASSUME NEW time \in Nat, NEW r \in RowsBy(time), NEW pos \in Nat, NEW neg \in Nat,
         NEW last \in 0..time, pos + neg < Len(Log)
  PROVE  /\ Retotalled(r, pos, neg, last) \in RowsBy(time)
         /\ Retotalled(r, pos, neg, last).pos = pos /\ Retotalled(r, pos, neg, last).neg = neg
<1>1. r \in [pos : Nat, neg : Nat, first : 0..time, last : 0..time]
  BY DEF RowsBy
<1>2. PICK new : new = [r EXCEPT !.pos = pos, !.neg = neg, !.last = last]
  OBVIOUS
<1>3. /\ new \in [pos : Nat, neg : Nat, first : 0..time, last : 0..time]
      /\ new.pos = pos /\ new.neg = neg
  BY <1>1, <1>2
<1>4. new \in RowsBy(time)
  BY <1>3 DEF RowsBy
<1> QED
  BY <1>2, <1>3, <1>4 DEF Retotalled

LEMMA CastVotes ==
  ASSUME RowsAreSums, Cast
  PROVE  RowsAreSums' /\ \A q \in PostKeys : rows[q] # NoRow => rows'[q] # NoRow
<1>1. PICK p \in PostKeys, sats \in Amounts, positive \in BOOLEAN :
        /\ Within(p, sats)
        /\ LET b == [post |-> p, sats |-> sats, positive |-> positive,
                     time |-> Unconfirmed, comment |-> FALSE]
           IN burns' = Append(burns, b) /\ Added(b)
  BY DEF Cast
<1>2. PICK b : b = [post |-> p, sats |-> sats, positive |-> positive,
                    time |-> Unconfirmed, comment |-> FALSE]
  OBVIOUS
<1>3. PICK r : r = IF rows[p] = NoRow THEN [pos |-> 0, neg |-> 0, first |-> now, last |-> now]
                   ELSE rows[p]
  OBVIOUS
<1>4. PICK new : new = [r EXCEPT !.pos = IF b.positive THEN @ + b.sats ELSE @,
                                 !.neg = IF b.positive THEN @ ELSE @ + b.sats,
                                 !.last = now]
  OBVIOUS
<1>5. /\ sats \in Nat /\ b \in Burns /\ b.post = p /\ b.positive = positive /\ b.sats = sats
  <2>1. sats \in Nat /\ -1 \in -1..MaxTime
    BY FeedAssumption
  <2> QED
    BY <1>2, <2>1 DEF Burns, Unconfirmed
<1>6. burns' = Append(burns, b) /\ rows' = [rows EXCEPT ![p] = new]
  BY <1>1, <1>2, <1>3, <1>4, <1>5 DEF Added
<1>7. burns \in Seq(Burns) /\ burns' \in Seq(Burns) /\ now \in Nat
      /\ rows \in [PostKeys -> RowsBy(now) \cup {NoRow}]
  BY <1>5, <1>6 DEF RowsAreSums
<1>8. /\ r.pos = TotalOf(burns, p, TRUE) /\ r.neg = TotalOf(burns, p, FALSE)
      /\ r.pos + r.neg + sats < Len(Log) /\ r \in RowsBy(now)
  <2>1. CASE rows[p] = NoRow
    <3>1. \A i \in DOMAIN burns : burns[i].post # p
      BY <2>1 DEF RowsAreSums
    <3>2. TotalOf(burns, p, TRUE) = 0 /\ TotalOf(burns, p, FALSE) = 0
      BY <1>7, <3>1, NothingBurned
    <3>3. r = [pos |-> 0, neg |-> 0, first |-> now, last |-> now] /\ r.pos = 0 /\ r.neg = 0
      BY <1>3, <2>1
    <3>4. 0 + sats < Len(Log) /\ Len(Log) \in Nat
      BY <1>1, <2>1, FeedAssumption DEF Within
    <3>5. now \in 0..now /\ 0 + 0 < Len(Log)
      BY <1>5, <1>7, <3>4
    <3>6. r \in [pos : Nat, neg : Nat, first : 0..now, last : 0..now] /\ r.pos + r.neg < Len(Log)
      BY <3>3, <3>5
    <3>7. r \in RowsBy(now)
      BY <3>6 DEF RowsBy
    <3>8. r.pos + r.neg + sats < Len(Log)
      BY <1>5, <3>3, <3>4
    <3> QED
      BY <3>2, <3>3, <3>7, <3>8
  <2>2. CASE rows[p] # NoRow
    <3>1. r = rows[p] /\ r \in RowsBy(now)
      BY <1>3, <1>7, <2>2
    <3>2. r.pos + r.neg + sats < Len(Log)
      BY <1>1, <2>2, <3>1 DEF Within
    <3>3. r.pos = TotalOf(burns, p, TRUE) /\ r.neg = TotalOf(burns, p, FALSE)
      BY <2>2, <3>1 DEF RowsAreSums
    <3> QED
      BY <3>1, <3>2, <3>3
  <2> QED
    BY <2>1, <2>2
<1>9. \A q \in PostKeys, side \in BOOLEAN :
        TotalOf(burns', q, side) = TotalOf(burns, q, side) + Share(b, q, side)
  BY <1>5, <1>6, <1>7, TotalAppend
<1>10. /\ new.pos = r.pos + Share(b, p, TRUE) /\ new.neg = r.neg + Share(b, p, FALSE)
       /\ new \in RowsBy(now)
  <2>1. /\ r.pos \in Nat /\ r.neg \in Nat /\ r.first \in 0..now /\ r.last \in 0..now
        /\ r \in [pos : Nat, neg : Nat, first : 0..now, last : 0..now]
    BY <1>8 DEF RowsBy
  <2>2. PICK width, time, a, c : width = Len(Log) /\ time = now /\ a = r.pos /\ c = r.neg
    OBVIOUS
  <2>5. width \in Nat /\ time \in Nat /\ a \in Nat /\ c \in Nat /\ sats \in Nat
    BY <1>5, <1>7, <2>1, <2>2, FeedAssumption
  <2>6. a + c + sats < width
    BY <1>8, <2>2
  <2>7. /\ a + sats \in Nat /\ c + sats \in Nat /\ time \in 0..time
        /\ (a + sats) + c < width /\ a + (c + sats) < width
    BY ONLY <2>5, <2>6
  <2>8. PICK more, less : more = a + sats /\ less = c + sats
    OBVIOUS
  <2>9. /\ more \in Nat /\ less \in Nat /\ more + c < Len(Log) /\ a + less < Len(Log)
        /\ r \in RowsBy(time)
    BY <1>8, <2>2, <2>7, <2>8
  <2>3. CASE positive
    <3>1. new = Retotalled(r, more, c, time)
      BY <1>4, <1>5, <2>1, <2>2, <2>3, <2>8 DEF Retotalled
    <3>4. new \in RowsBy(time) /\ new.pos = more /\ new.neg = c
      BY ONLY <2>5, <2>7, <2>9, <3>1, RowMade
    <3>2. Share(b, p, TRUE) = sats /\ Share(b, p, FALSE) = 0
      BY <1>5, <2>3 DEF Share
    <3> QED
      <4>1. new.pos = r.pos + Share(b, p, TRUE)
        BY <2>2, <2>5, <2>8, <3>2, <3>4
      <4>2. new.neg = r.neg + Share(b, p, FALSE)
        <5>1. c + 0 = c
          BY <2>5
        <5>2. new.neg = c /\ r.neg = c /\ Share(b, p, FALSE) = 0
          BY <2>2, <3>2, <3>4
        <5> QED
          BY ONLY <5>1, <5>2
      <4>3. new \in RowsBy(now)
        BY <2>2, <3>4
      <4> QED
        BY <4>1, <4>2, <4>3
  <2>4. CASE ~positive
    <3>1. new = Retotalled(r, a, less, time)
      BY <1>4, <1>5, <2>1, <2>2, <2>4, <2>8 DEF Retotalled
    <3>4. new \in RowsBy(time) /\ new.pos = a /\ new.neg = less
      BY ONLY <2>5, <2>7, <2>9, <3>1, RowMade
    <3>2. Share(b, p, TRUE) = 0 /\ Share(b, p, FALSE) = sats
      BY <1>5, <2>4 DEF Share
    <3> QED
      <4>1. new.pos = r.pos + Share(b, p, TRUE)
        <5>1. a + 0 = a
          BY <2>5
        <5>2. new.pos = a /\ r.pos = a /\ Share(b, p, TRUE) = 0
          BY <2>2, <3>2, <3>4
        <5> QED
          BY ONLY <5>1, <5>2
      <4>2. new.neg = r.neg + Share(b, p, FALSE)
        BY <2>2, <2>5, <2>8, <3>2, <3>4
      <4>3. new \in RowsBy(now)
        BY <2>2, <3>4
      <4> QED
        BY <4>1, <4>2, <4>3
  <2> QED
    BY <2>3, <2>4
<1>11. new.pos = TotalOf(burns', p, TRUE) /\ new.neg = TotalOf(burns', p, FALSE)
  BY <1>8, <1>9, <1>10
<1>12. ASSUME NEW q \in PostKeys \ {p}, NEW side \in BOOLEAN
       PROVE  TotalOf(burns', q, side) = TotalOf(burns, q, side)
  <2>1. Share(b, q, side) = 0
    BY <1>5 DEF Share
  <2>2. TotalOf(burns, q, side) \in Nat
    BY <1>7, TotalIsSum
  <2> QED
    BY <1>9, <2>1, <2>2
<1>13. \A i \in DOMAIN burns' : /\ burns'[i].post # p => rows[burns'[i].post] # NoRow
                                /\ burns'[i].post \in PostKeys
  <2> TAKE i \in DOMAIN burns'
  <2>1. CASE i \in DOMAIN burns
    <3>1. burns'[i] = burns[i] /\ burns[i] \in Burns
      BY <1>6, <1>7, <2>1
    <3>2. rows[burns[i].post] # NoRow /\ burns[i].post \in PostKeys
      BY <2>1, <3>1 DEF RowsAreSums, Burns
    <3> QED
      BY <3>1, <3>2
  <2>2. CASE i \notin DOMAIN burns
    <3>1. burns'[i] = b
      BY <1>5, <1>6, <1>7, <2>2
    <3> QED
      BY <1>5, <3>1
  <2> QED
    BY <2>1, <2>2
<1>14. now' = now /\ Moves
  BY DEF Cast
<1> QED
  BY <1>6, <1>7, <1>10, <1>11, <1>12, <1>13, <1>14, OneRowChanges

LEMMA ConfirmVotes ==
  ASSUME RowsAreSums, Confirm
  PROVE  RowsAreSums'
<1>1. PICK i \in DOMAIN burns : burns' = [burns EXCEPT ![i].time = now]
  BY DEF Confirm
<1>2. PICK time \in -1..MaxTime : time = now
  BY DEF RowsAreSums
<1>3. burns \in Seq(Burns)
  BY DEF RowsAreSums
<1>4. burns' \in Seq(Burns)
      /\ \A p, positive : TotalOf(burns', p, positive) = TotalOf(burns, p, positive)
  <2>1. \A p, positive : /\ [burns EXCEPT ![i].time = time] \in Seq(Burns)
          /\ TotalOf([burns EXCEPT ![i].time = time], p, positive) = TotalOf(burns, p, positive)
    BY <1>3, TotalTimed
  <2>2. burns' = [burns EXCEPT ![i].time = time]
    BY <1>1, <1>2
  <2> QED
    BY <2>1, <2>2
<1>5. DOMAIN burns' = DOMAIN burns /\ \A j \in DOMAIN burns : burns'[j].post = burns[j].post
  <2>1. DOMAIN burns' = DOMAIN burns
    BY <1>1, <1>3
  <2>2. ASSUME NEW j \in DOMAIN burns PROVE burns'[j].post = burns[j].post
    <3>1. CASE j # i
      BY <1>1, <1>3, <3>1
    <3>2. CASE j = i
      <4>1. burns'[i] = [burns[i] EXCEPT !.time = now]
        BY <1>1, <1>3
      <4>2. burns[i] \in Burns
        BY <1>3
      <4> QED
        BY <3>2, <4>1, <4>2 DEF Burns
    <3> QED
      BY <3>1, <3>2
  <2> QED
    BY <2>1, <2>2
<1>6. now' = now /\ moves' \in 0..MaxMoves /\ rows' = rows
  <2>1. now' = now /\ rows' = rows /\ Moves
    BY DEF Confirm
  <2>2. moves \in 0..MaxMoves /\ MaxMoves \in Nat
    BY FeedAssumption DEF RowsAreSums
  <2> QED
    BY <2>1, <2>2 DEF Moves
<1>7. now' \in 0..MaxTime /\ rows' \in [PostKeys -> RowsBy(now') \cup {NoRow}]
  BY <1>6 DEF RowsAreSums
<1>8. \A j \in DOMAIN burns' : rows'[burns'[j].post] # NoRow
  BY <1>5, <1>6 DEF RowsAreSums
<1>9. \A p \in PostKeys : rows'[p] # NoRow =>
        rows'[p].pos = TotalOf(burns', p, TRUE) /\ rows'[p].neg = TotalOf(burns', p, FALSE)
  BY <1>4, <1>6 DEF RowsAreSums
<1> QED
  BY <1>4, <1>6, <1>7, <1>8, <1>9 DEF RowsAreSums

LEMMA RemoveVotes ==
  ASSUME RowsAreSums, RemoveVote
  PROVE  RowsAreSums' /\ \A q \in PostKeys : rows[q] # NoRow => rows'[q] # NoRow
<1>1. PICK i \in DOMAIN burns :
        /\ burns' = RemoveAt(burns, i)
        /\ rows' = [rows EXCEPT ![burns[i].post] =
             [rows[burns[i].post] EXCEPT
                !.pos = IF burns[i].positive THEN @ - burns[i].sats ELSE @,
                !.neg = IF burns[i].positive THEN @ ELSE @ - burns[i].sats]]
  BY DEF RemoveVote
<1>2. PICK b, p, sats : b = burns[i] /\ p = b.post /\ sats = b.sats
  OBVIOUS
<1>3. PICK r : r = rows[p]
  OBVIOUS
<1>4. PICK new : new = [r EXCEPT !.pos = IF b.positive THEN @ - b.sats ELSE @,
                                 !.neg = IF b.positive THEN @ ELSE @ - b.sats]
  OBVIOUS
<1>5. /\ burns \in Seq(Burns) /\ now \in Nat /\ rows \in [PostKeys -> RowsBy(now) \cup {NoRow}]
      /\ \A j \in DOMAIN burns : burns[j] \in Burns
  BY DEF RowsAreSums
<1>6. b \in Burns /\ p \in PostKeys /\ sats \in Nat /\ b.positive \in BOOLEAN
  BY <1>2, <1>5 DEF Burns
<1>7. r \in RowsBy(now) /\ r.pos = TotalOf(burns, p, TRUE) /\ r.neg = TotalOf(burns, p, FALSE)
  <2>1. rows[p] # NoRow
    BY <1>2 DEF RowsAreSums
  <2> QED
    BY <1>3, <1>5, <1>6, <2>1 DEF RowsAreSums
<1>8. burns' = RemoveAt(burns, i) /\ rows' = [rows EXCEPT ![p] = new]
  <2>1. new = [rows[burns[i].post] EXCEPT
                !.pos = IF burns[i].positive THEN @ - burns[i].sats ELSE @,
                !.neg = IF burns[i].positive THEN @ ELSE @ - burns[i].sats]
    BY <1>2, <1>3, <1>4
  <2> QED
    BY <1>1, <1>2, <2>1
<1>9. /\ burns' \in Seq(Burns) /\ Len(burns') = Len(burns) - 1
      /\ \A j \in 1..(Len(burns) - 1) : burns'[j] = IF j < i THEN burns[j] ELSE burns[j + 1]
  BY <1>5, <1>8, RemovedPlaces
<1>10. \A q, side : TotalOf(burns, q, side) = TotalOf(burns', q, side) + Share(b, q, side)
  BY <1>2, <1>5, <1>8, TotalRemove
<1>11. PICK for, against : for = TotalOf(burns', p, TRUE) /\ against = TotalOf(burns', p, FALSE)
  OBVIOUS
<1>12. for \in Nat /\ against \in Nat
  BY <1>9, <1>11, TotalIsSum
<1>13. /\ r \in [pos : Nat, neg : Nat, first : 0..now, last : 0..now]
       /\ r.pos + r.neg < Len(Log)
  BY <1>7 DEF RowsBy
<1>14. PICK time, width, last : time = now /\ width = Len(Log) /\ last = r.last
  OBVIOUS
<1>15. time \in Nat /\ width \in Nat /\ r \in RowsBy(time) /\ last \in 0..time
  BY <1>5, <1>7, <1>13, <1>14, FeedAssumption
<1>16. new = Retotalled(r, for, against, last) /\ for + against < Len(Log)
  <2>1. CASE b.positive
    <3>1. Share(b, p, TRUE) = sats /\ Share(b, p, FALSE) = 0
      BY <1>2, <1>6, <2>1 DEF Share
    <3>2. PICK x, y : x = r.pos /\ y = r.neg
      OBVIOUS
    <3>3. x = for + sats /\ y = against + 0
      BY <1>7, <1>10, <1>11, <3>1, <3>2
    <3>4. x + y < width
      BY <1>13, <1>14, <3>2
    <3>5. x - sats = for /\ y = against /\ for + against < width
      BY ONLY <1>6, <1>12, <1>15, <3>3, <3>4
    <3>6. new = [r EXCEPT !.pos = for, !.neg = against, !.last = last]
      BY <1>2, <1>4, <1>13, <1>14, <2>1, <3>2, <3>5
    <3> QED
      BY <1>14, <3>5, <3>6 DEF Retotalled
  <2>2. CASE ~b.positive
    <3>1. Share(b, p, TRUE) = 0 /\ Share(b, p, FALSE) = sats
      BY <1>2, <1>6, <2>2 DEF Share
    <3>2. PICK x, y : x = r.pos /\ y = r.neg
      OBVIOUS
    <3>3. x = for + 0 /\ y = against + sats
      BY <1>7, <1>10, <1>11, <3>1, <3>2
    <3>4. x + y < width
      BY <1>13, <1>14, <3>2
    <3>5. x = for /\ y - sats = against /\ for + against < width
      BY ONLY <1>6, <1>12, <1>15, <3>3, <3>4
    <3>6. new = [r EXCEPT !.pos = for, !.neg = against, !.last = last]
      BY <1>2, <1>4, <1>13, <1>14, <2>2, <3>2, <3>5
    <3> QED
      BY <1>14, <3>5, <3>6 DEF Retotalled
  <2> QED
    BY <2>1, <2>2
<1>17. new \in RowsBy(time) /\ new.pos = for /\ new.neg = against
  BY ONLY <1>12, <1>15, <1>16, RowMade
<1>18. ASSUME NEW q \in PostKeys \ {p}, NEW side \in BOOLEAN
       PROVE  TotalOf(burns', q, side) = TotalOf(burns, q, side)
  <2>1. Share(b, q, side) = 0
    BY <1>2 DEF Share
  <2>2. TotalOf(burns', q, side) \in Nat
    BY <1>9, TotalIsSum
  <2> QED
    BY <1>10, <2>1, <2>2
<1>19. \A j \in DOMAIN burns' : /\ burns'[j].post # p => rows[burns'[j].post] # NoRow
                                /\ burns'[j].post \in PostKeys
  <2> TAKE j \in DOMAIN burns'
  <2>1. j \in 1..(Len(burns) - 1) /\ Len(burns) \in Nat
    BY <1>5, <1>9
  <2>2. PICK k \in DOMAIN burns : burns'[j] = burns[k]
    <3>1. j \in DOMAIN burns /\ j + 1 \in DOMAIN burns
      BY <1>5, <2>1
    <3> QED
      BY <1>9, <2>1, <3>1
  <2>3. rows[burns[k].post] # NoRow /\ burns[k].post \in PostKeys
    BY <1>5 DEF RowsAreSums, Burns
  <2> QED
    BY <2>2, <2>3
<1>20. now' = now /\ Moves
  BY DEF RemoveVote
<1>21. new \in RowsBy(now) /\ new.pos = TotalOf(burns', p, TRUE) /\ new.neg = TotalOf(burns', p, FALSE)
  BY <1>11, <1>14, <1>17
<1>22. \A q \in PostKeys \ {p}, side \in BOOLEAN : TotalOf(burns', q, side) = TotalOf(burns, q, side)
  BY <1>18
<1>23. /\ \A j \in DOMAIN burns' : burns'[j].post # p => rows[burns'[j].post] # NoRow
       /\ \A j \in DOMAIN burns' : burns'[j].post \in PostKeys
  BY <1>19
<1>24. /\ burns' \in Seq(Burns) /\ p \in PostKeys /\ rows' = [rows EXCEPT ![p] = new]
       /\ UNCHANGED <<now, moves>> \/ (now' = now /\ Moves)
  BY <1>6, <1>8, <1>9, <1>20
<1> QED
  BY <1>21, <1>22, <1>23, <1>24, OneRowChanges

\* What was a row stays one while time passes.
LEMMA RowsLast ==
  ASSUME NEW before \in Nat, NEW after \in Nat, before <= after
  PROVE  RowsBy(before) \subseteq RowsBy(after)
<1> SUFFICES ASSUME NEW r \in RowsBy(before) PROVE r \in RowsBy(after)
  OBVIOUS
<1>1. /\ r \in [pos : Nat, neg : Nat, first : 0..before, last : 0..before]
      /\ r.pos + r.neg < Len(Log)
  BY DEF RowsBy
<1>2. 0..before \subseteq 0..after
  OBVIOUS
<1>3. r \in [pos : Nat, neg : Nat, first : 0..after, last : 0..after]
  BY <1>1, <1>2
<1> QED
  BY <1>1, <1>3 DEF RowsBy

LEMMA TickRows ==
  ASSUME RowsAreSums, Tick
  PROVE  RowsAreSums' /\ now' \in Nat /\ now \in Nat /\ now <= now'
<1>1. /\ now \in 0..MaxTime /\ now < MaxTime /\ now' = now + 1 /\ MaxTime \in Nat
      /\ UNCHANGED <<moves, burns, rows>>
  BY FeedAssumption DEF Tick, RowsAreSums
<1>2. now' \in 0..MaxTime /\ now' \in Nat /\ now \in Nat /\ now <= now'
  BY <1>1
<1>3. PICK before, after : before = now /\ after = now'
  OBVIOUS
<1>4. RowsBy(before) \subseteq RowsBy(after)
  BY <1>2, <1>3, RowsLast
<1>5. rows' \in [PostKeys -> RowsBy(now') \cup {NoRow}]
  BY <1>1, <1>3, <1>4 DEF RowsAreSums
<1>6. /\ \A i \in DOMAIN burns' : rows'[burns'[i].post] # NoRow
      /\ moves' \in 0..MaxMoves /\ burns' \in Seq(Burns)
  BY <1>1 DEF RowsAreSums
<1>7. \A p \in PostKeys : rows'[p] # NoRow =>
        rows'[p].pos = TotalOf(burns', p, TRUE) /\ rows'[p].neg = TotalOf(burns', p, FALSE)
  BY <1>1 DEF RowsAreSums
<1> QED
  BY <1>2, <1>5, <1>6, <1>7 DEF RowsAreSums

\* A reader that does nothing keeps its invariant.
LEMMA ReaderWaits ==
  ASSUME ReaderInv, reader' = reader, now \in Nat, now' \in Nat, now <= now'
  PROVE  ReaderInv'
<1> SUFFICES ASSUME reader # NoReader
             PROVE  reader' \in Readers' /\ SeenSoFar(reader') /\ FoundInOrder(reader')
  BY DEF ReaderInv
<1>1. reader \in Readers /\ SeenSoFar(reader) /\ FoundInOrder(reader)
  BY DEF ReaderInv
<1>2. PICK before, after : before = now /\ after = now'
  OBVIOUS
<1>3. RowsBy(before) \subseteq RowsBy(after)
  BY <1>2, RowsLast
<1>4. PICK old, new : old = [post : PostKeys, row : RowsBy(before)]
                      /\ new = [post : PostKeys, row : RowsBy(after)]
  OBVIOUS
<1>5. old \subseteq new
  BY <1>3, <1>4
<1>6. Seq(old) \subseteq Seq(new)
  BY <1>5
<1>7. FoundRows = old /\ FoundRows' = new
  BY <1>2, <1>4 DEF FoundRows
<1>8. reader \in Readers'
  BY <1>1, <1>6, <1>7 DEF Readers
<1> QED
  BY <1>1, <1>8

-----------------------------------------------------------------------------
(* Lists *)

\* A list of all elements of a set has each in one place.
LEMMA ListOfSet ==
  ASSUME NEW S, IsFiniteSet(S), NEW s \in SetToSeqs(S)
  PROVE  /\ Cardinality(S) \in Nat /\ Len(s) = Cardinality(S) /\ DOMAIN s = 1..Cardinality(S)
         /\ s \in Seq(S) /\ Distinct(s) /\ ToSet(s) = S
<1>1. PICK n : n = Cardinality(S)
  OBVIOUS
<1>2. n \in Nat
  BY <1>1, FS_CardinalityType
<1>3. s \in [1..n -> S] /\ \A i, j \in 1..n : i # j => s[i] # s[j]
  BY <1>1 DEF SetToSeqs
<1>4. s \in Seq(S) /\ Len(s) = n /\ DOMAIN s = 1..n
  BY <1>2, <1>3
<1>5. Distinct(s)
  BY <1>3, <1>4 DEF Distinct
<1>6. IsFiniteSet(1..n) /\ Cardinality(1..n) = n
  BY <1>2, FS_Interval
<1>7. s \in Injection(1..n, S)
  BY <1>3 DEF Injection, IsInjective
<1>8. s \in Surjection(1..n, S)
  BY <1>1, <1>6, <1>7, FS_Injection
<1>9. ToSet(s) = S
  BY <1>3, <1>4, <1>8 DEF ToSet, Surjection
<1> QED
  BY <1>1, <1>2, <1>4, <1>5, <1>9

\* Of finitely many there is one with the largest key.
LEMMA LargestKey ==
  ASSUME NEW S, IsFiniteSet(S), S # {}, NEW key, \A x \in S : key[x] \in Int
  PROVE  \E y \in S : \A x \in S : key[x] <= key[y]
<1> DEFINE F == {T \in SUBSET S : T # {} /\ ~\E y \in T : \A x \in T : key[x] <= key[y]}
<1>1. F = {}
  <2> SUFFICES ASSUME F # {} PROVE FALSE
    OBVIOUS
  <2>1. F \in SUBSET SUBSET S
    OBVIOUS
  <2>2. PICK T \in F : \A x \in T : T \ {x} \notin F
    <3> HIDE DEF F
    <3> QED
      BY <2>1, SmallestSubset
  <2>3. T \in SUBSET S /\ T # {} /\ ~\E y \in T : \A x \in T : key[x] <= key[y]
    BY <2>2
  <2>4. PICK z \in T : TRUE
    BY <2>3
  <2>5. PICK rest : rest = T \ {z}
    OBVIOUS
  <2>6. rest = {} \/ \E y \in rest : \A x \in rest : key[x] <= key[y]
    BY <2>2, <2>3, <2>4, <2>5
  <2>7. CASE rest = {}
    <3>1. \A x \in T : x = z
      BY <2>5, <2>7
    <3>2. key[z] <= key[z]
      BY <2>3
    <3> QED
      BY <2>3, <3>1, <3>2
  <2>8. ASSUME NEW y \in rest, \A x \in rest : key[x] <= key[y] PROVE FALSE
    <3>1. y \in T /\ key[y] \in Int /\ key[z] \in Int
      BY <2>3, <2>4, <2>5
    <3>2. \A x \in T : x = z \/ key[x] <= key[y]
      BY <2>5, <2>8
    <3>3. CASE key[z] <= key[y]
      BY <2>3, <3>1, <3>2, <3>3
    <3>4. CASE key[y] < key[z]
      <4>1. \A x \in T : key[x] \in Int
        BY <2>3
      <4>2. \A x \in T : key[x] <= key[z]
        BY <3>1, <3>2, <3>4, <4>1
      <4> QED
        BY <2>3, <4>2
    <3> QED
      BY <3>1, <3>3, <3>4
  <2> QED
    BY <2>6, <2>7, <2>8
<1> QED
  BY <1>1

\* Whether x comes before y by descending keys.
Sooner(key, x, y) == key[x] > key[y] \/ (key[x] = key[y] /\ x < y)
InOrder(s, key) == \A i, j \in DOMAIN s : i < j => Sooner(key, s[i], s[j])

\* One of finitely many places comes after all others.
LEMMA LatestPlace ==
  ASSUME NEW S \in SUBSET Nat, IsFiniteSet(S), S # {}, NEW key, \A x \in S : key[x] \in Int
  PROVE  \E y \in S : \A x \in S \ {y} : Sooner(key, x, y)
<1>1. PICK low : low = [x \in S |-> -key[x]]
  OBVIOUS
<1>2. PICK z \in S : \A x \in S : low[x] <= low[z]
  <2>1. \A x \in S : low[x] \in Int
    BY <1>1
  <2> QED
    BY ONLY <2>1, IsFiniteSet(S), S # {}, LargestKey
<1>3. \A x \in S : key[z] <= key[x]
  BY <1>1, <1>2
<1>4. PICK T : T = {x \in S : key[x] = key[z]}
  OBVIOUS
<1>5. T \in SUBSET S /\ T # {} /\ IsFiniteSet(T)
  BY <1>4, FS_Subset
<1>6. PICK place : place = [x \in T |-> x]
  OBVIOUS
<1>7. PICK y \in T : \A x \in T : place[x] <= place[y]
  <2>1. \A x \in T : place[x] \in Int
    BY <1>5, <1>6
  <2> QED
    BY ONLY <1>5, <2>1, LargestKey
<1>8. ASSUME NEW x \in S \ {y} PROVE Sooner(key, x, y)
  <2>1. key[y] = key[z] /\ y \in S /\ key[x] \in Int /\ key[z] \in Int
    BY <1>4
  <2>2. CASE x \in T
    <3>1. x <= y /\ x # y /\ key[x] = key[y]
      BY <1>4, <1>6, <1>7, <2>1, <2>2
    <3>2. x \in Nat /\ y \in Nat
      BY <2>1
    <3> QED
      BY <3>1, <3>2 DEF Sooner
  <2>3. CASE x \notin T
    <3>1. key[x] > key[y]
      BY <1>3, <1>4, <2>1, <2>3
    <3> QED
      BY <3>1 DEF Sooner
  <2> QED
    BY <2>2, <2>3
<1> QED
  BY <1>4, <1>8

\* The places can be sorted.
LEMMA SortExists ==
  ASSUME NEW S \in SUBSET Nat, IsFiniteSet(S), NEW key, \A x \in S : key[x] \in Int
  PROVE  \E s \in SetToSeqs(S) : InOrder(s, key)
<1> DEFINE F == {T \in SUBSET S : ~\E s \in SetToSeqs(T) : InOrder(s, key)}
<1>1. F = {}
  <2> SUFFICES ASSUME F # {} PROVE FALSE
    OBVIOUS
  <2>1. F \in SUBSET SUBSET S
    OBVIOUS
  <2>2. PICK T \in F : \A x \in T : T \ {x} \notin F
    <3> HIDE DEF F
    <3> QED
      BY <2>1, SmallestSubset
  <2>3. T \in SUBSET S /\ ~\E s \in SetToSeqs(T) : InOrder(s, key)
    BY <2>2
  <2>4. IsFiniteSet(T) /\ T \in SUBSET Nat /\ \A x \in T : key[x] \in Int
    BY <2>3, FS_Subset
  <2>5. T # {}
    <3> SUFFICES ASSUME T = {} PROVE FALSE
      OBVIOUS
    <3>1. Cardinality(T) = 0
      BY FS_EmptySet
    <3>2. PICK s : s = [i \in 1..0 |-> i]
      OBVIOUS
    <3>3. s \in SetToSeqs(T) /\ InOrder(s, key)
      BY <3>1, <3>2 DEF SetToSeqs, InOrder
    <3> QED
      BY <2>3, <3>3
  <2>6. PICK y \in T : \A x \in T \ {y} : Sooner(key, x, y)
    BY ONLY <2>4, <2>5, LatestPlace
  <2>7. PICK rest : rest = T \ {y}
    OBVIOUS
  <2>8. PICK s \in SetToSeqs(rest) : InOrder(s, key)
    BY <2>2, <2>3, <2>6, <2>7
  <2>9. IsFiniteSet(rest) /\ IsFiniteSet(T)
        /\ Cardinality(rest) = Cardinality(T) - 1 /\ Cardinality(T) \in Nat
    BY <2>4, <2>6, <2>7, FS_RemoveElement, FS_CardinalityType
  <2>10. PICK n : n = Cardinality(rest)
    OBVIOUS
  <2>11. n \in Nat /\ Cardinality(T) = n + 1 /\ DOMAIN s = 1..n /\ s \in Seq(rest) /\ Distinct(s)
    BY <2>9, <2>10, ListOfSet
  <2>12. PICK new : new = [i \in 1..(n + 1) |-> IF i <= n THEN s[i] ELSE y]
    OBVIOUS
  <2>13. \A i \in 1..n : s[i] \in rest
    BY <2>11
  <2>14. /\ new \in [1..(n + 1) -> T] /\ new[n + 1] = y
         /\ \A i \in 1..n : new[i] = s[i] /\ new[i] \in rest
    BY <2>7, <2>11, <2>12, <2>13
  <2>15. \A i \in 1..(n + 1) : i \in 1..n \/ i = n + 1
    BY <2>11
  <2>16. \A i, j \in 1..(n + 1) : i # j => new[i] # new[j]
    BY <2>7, <2>11, <2>14, <2>15 DEF Distinct
  <2>17. new \in SetToSeqs(T)
    BY <2>11, <2>14, <2>16 DEF SetToSeqs
  <2>18. ASSUME NEW i \in 1..(n + 1), NEW j \in 1..(n + 1), i < j
         PROVE  Sooner(key, new[i], new[j])
    <3>1. i \in 1..n
      BY <2>11, <2>18
    <3>2. CASE j \in 1..n
      BY <2>8, <2>11, <2>14, <2>18, <3>1, <3>2 DEF InOrder
    <3>3. CASE j = n + 1
      BY <2>6, <2>7, <2>14, <3>1, <3>3
    <3> QED
      BY <2>15, <3>2, <3>3
  <2>19. DOMAIN new = 1..(n + 1)
    BY <2>12
  <2>20. InOrder(new, key)
    BY <2>18, <2>19 DEF InOrder
  <2> QED
    BY <2>3, <2>17, <2>20
<1> QED
  BY <1>1

\* What Array.sort returns.
LEMMA SortedByIs ==
  ASSUME NEW list, NEW places \in SUBSET Nat, IsFiniteSet(places),
         NEW key, \A x \in places : key[x] \in Int
  PROVE  \E order \in SetToSeqs(places) :
           /\ InOrder(order, key)
           /\ SortedBy(list, places, key) = [i \in DOMAIN order |-> list[order[i]]]
<1>1. \E s \in SetToSeqs(places) : InOrder(s, key)
  BY SortExists
<1>2. PICK order : order = CHOOSE s \in SetToSeqs(places) : InOrder(s, key)
  OBVIOUS
<1>3. order \in SetToSeqs(places) /\ InOrder(order, key)
  BY <1>1, <1>2
<1>4. SortedPlaces(places, key) = CHOOSE s \in SetToSeqs(places) : InOrder(s, key)
  BY Zenon DEF SortedPlaces, InOrder, Sooner
<1>5. SortedBy(list, places, key) = [i \in DOMAIN order |-> list[order[i]]]
  BY <1>2, <1>4 DEF SortedBy
<1> QED
  BY <1>3, <1>5

-----------------------------------------------------------------------------
(* Pages *)

\* If p comes earlier in the second list than in the first, some post that was
\* before it is so no more.
LEMMA MoveIsNoticed ==
  ASSUME NEW from \in Seq(PostKeys), NEW to \in Seq(PostKeys), Distinct(from), Distinct(to),
         NEW p, NEW m \in DOMAIN from, NEW i \in DOMAIN to, from[m] = p, to[i] = p, i < m
  PROVE  \E q \in PostKeys \ {p} : Leads(from, q, p) /\ ~Leads(to, q, p)
<1> SUFFICES ASSUME \A q \in PostKeys \ {p} : Leads(from, q, p) => Leads(to, q, p)
             PROVE  FALSE
  OBVIOUS
<1>1. /\ DOMAIN from = 1..Len(from) /\ Len(from) \in Nat /\ DOMAIN to = 1..Len(to) /\ Len(to) \in Nat
      /\ \A a \in DOMAIN from : from[a] \in PostKeys
  OBVIOUS
<1>2. m \in Nat /\ i \in Nat /\ m - 1 \in Nat /\ i - 1 \in Nat
      /\ 1..(m - 1) \subseteq DOMAIN from /\ 1..(i - 1) \subseteq DOMAIN to
  BY <1>1
<1>3. ASSUME NEW a \in 1..(m - 1) PROVE \E b \in 1..(i - 1) : to[b] = from[a]
  <2>1. a \in DOMAIN from /\ a < m /\ a # m
    BY <1>1, <1>2
  <2>2. from[a] \in PostKeys \ {p}
    BY <1>1, <2>1 DEF Distinct
  <2>3. Leads(from, from[a], p)
    BY <2>1 DEF Leads
  <2>4. PICK b \in DOMAIN to, c \in DOMAIN to : b < c /\ to[b] = from[a] /\ to[c] = p
    BY <2>2, <2>3 DEF Leads
  <2>5. c = i
    BY <2>4 DEF Distinct
  <2>6. b \in 1..(i - 1)
    BY <1>1, <1>2, <2>4, <2>5
  <2> QED
    BY <2>4, <2>6
<1>4. PICK f : f = [a \in 1..(m - 1) |-> CHOOSE b \in 1..(i - 1) : to[b] = from[a]]
  OBVIOUS
<1>5. \A a \in 1..(m - 1) : f[a] \in 1..(i - 1) /\ to[f[a]] = from[a]
  BY <1>3, <1>4
<1>6. f \in Injection(1..(m - 1), 1..(i - 1))
  <2>1. f \in [1..(m - 1) -> 1..(i - 1)]
    BY <1>4, <1>5
  <2>2. ASSUME NEW a \in 1..(m - 1), NEW b \in 1..(m - 1), f[a] = f[b]
        PROVE  a = b
    <3>1. from[a] = from[b]
      BY <1>5, <2>2
    <3>2. a \in DOMAIN from /\ b \in DOMAIN from
      BY <1>2
    <3> QED
      BY <3>1, <3>2 DEF Distinct
  <2> QED
    BY <2>1, <2>2 DEF Injection, IsInjective
<1>7. PICK n, k : n = m - 1 /\ k = i - 1
  OBVIOUS
<1>8. /\ IsFiniteSet(1..n) /\ Cardinality(1..n) = n
      /\ IsFiniteSet(1..k) /\ Cardinality(1..k) = k
  <2>1. n \in Nat /\ k \in Nat
    BY <1>2, <1>7
  <2>2. IsFiniteSet(1..n) /\ Cardinality(1..n) = n
    BY ONLY <2>1, FS_Interval
  <2>3. IsFiniteSet(1..k) /\ Cardinality(1..k) = k
    BY ONLY <2>1, FS_Interval
  <2> QED
    BY <2>2, <2>3
<1>9. f \in Injection(1..n, 1..k)
  BY <1>6, <1>7
<1>10. Cardinality(1..n) <= Cardinality(1..k)
  BY ONLY <1>8, <1>9, FS_Injection
<1>11. n <= k /\ m \in Nat /\ i \in Nat
  BY <1>2, <1>8, <1>10
<1> QED
  BY <1>7, <1>11

\* What a page shows.
LEMMA PageShows ==
  ASSUME NEW X, NEW list \in Seq(X), NEW page \in Nat \ {0}, NEW size \in Nat \ {0}
  PROVE  /\ ToSet(PageOf(list, page, size))
              = {list[i] : i \in {j \in DOMAIN list : (page - 1) * size < j /\ j <= page * size}}
         /\ page * size <= Len(list) => Len(PageOf(list, page, size)) = size
<1>1. PICK n, low, high : n = Len(list) /\ low = (page - 1) * size /\ high = page * size
  OBVIOUS
<1>2. n \in Nat /\ low \in Nat /\ high \in Nat /\ high = low + size /\ DOMAIN list = 1..n
  BY <1>1
<1>3. PICK end, cut : end = Smaller(high, n) /\ cut = SubSeq(list, low + 1, end)
  OBVIOUS
<1>4. PageOf(list, page, size) = cut
  BY <1>1, <1>3 DEF PageOf
<1>5. /\ end \in Nat /\ end <= n /\ end <= high
      /\ high <= n => end = high
      /\ \A i \in 1..n : i <= high => i <= end
  BY <1>2, <1>3 DEF Smaller
<1>6. cut = [i \in 1..(end - low) |-> list[low + i]]
  <2>1. low + 1 \in Nat /\ (end - (low + 1)) + 1 = end - low
    BY <1>2, <1>5
  <2>2. cut = [i \in 1..((end - (low + 1)) + 1) |-> list[(low + 1) + i - 1]]
    BY <1>2, <1>3, <1>5
  <2>3. \A i \in 1..(end - low) : (low + 1) + i - 1 = low + i
    BY <1>2, <1>5
  <2> QED
    BY <2>1, <2>2, <2>3
<1>7. ToSet(cut) = {list[i] : i \in {j \in DOMAIN list : low < j /\ j <= high}}
  <2>1. ASSUME NEW x \in ToSet(cut)
        PROVE  x \in {list[i] : i \in {j \in DOMAIN list : low < j /\ j <= high}}
    <3>1. PICK i \in 1..(end - low) : x = list[low + i]
      BY <1>6 DEF ToSet
    <3>2. low + i \in 1..n /\ low < low + i /\ low + i <= high
      BY <1>2, <1>5
    <3> QED
      BY <1>2, <3>1, <3>2
  <2>2. ASSUME NEW j \in DOMAIN list, low < j, j <= high
        PROVE  list[j] \in ToSet(cut)
    <3>1. j - low \in 1..(end - low) /\ low + (j - low) = j
      BY <1>2, <1>5, <2>2
    <3>2. cut[j - low] = list[j] /\ j - low \in DOMAIN cut
      BY <1>6, <3>1
    <3> QED
      BY <3>2 DEF ToSet
  <2> QED
    BY <2>1, <2>2
<1>8. ASSUME high <= n PROVE Len(cut) = size
  <2>1. end - low = size
    BY <1>2, <1>5, <1>8
  <2>2. cut = [i \in 1..size |-> list[low + i]]
    BY <1>6, <2>1
  <2> QED
    BY <2>2
<1> QED
  BY <1>1, <1>4, <1>7, <1>8

\* Pages that hold the total end behind it.
LEMMA LastPageEnds ==
  ASSUME NEW total \in Nat, NEW size \in Nat \ {0}, NEW page \in Nat
  PROVE  /\ ~(page < TotalPages(total, size)) => total <= page * size
         /\ page < TotalPages(total, size) => page * size < total
<1>1. PICK d, sum : d = sum \div size /\ sum = total + size - 1
  OBVIOUS
<1>2. sum \in Nat /\ TotalPages(total, size) = d
  BY <1>1 DEF TotalPages
<1>3. d \in Nat /\ d * size <= sum /\ sum < (d + 1) * size
  BY <1>1, <1>2
<1>4. ASSUME d <= page PROVE total <= page * size
  <2>1. d * size <= page * size
    BY <1>3, <1>4
  <2> QED
    BY <1>1, <1>3, <2>1
<1>5. ASSUME page < d PROVE page * size < total
  <2>1. page + 1 <= d
    BY <1>3, <1>5
  <2>2. (page + 1) * size <= d * size
    BY <1>3, <2>1
  <2> QED
    BY <1>1, <1>3, <2>2
<1> QED
  BY <1>2, <1>3, <1>4, <1>5

\* A page keeps what was seen so far, whatever the next list is.
LEMMA PageRead ==
  ASSUME NEW r \in Readers, SeenSoFar(r), r.total # -1,
         NEW new \in Seq(PostKeys), Distinct(new), Len(new) <= r.matched
  PROVE  /\ WithPage(r, new) \in Readers /\ SeenSoFar(WithPage(r, new))
         /\ FoundInOrder(WithPage(r, new))
         /\ WithPage(r, new).list = new /\ WithPage(r, new).page = r.page + 1
         /\ WithPage(r, new).matched = r.matched
         /\ WithPage(r, new).more => (r.page + 1) * r.size < r.total
<1> DEFINE moved(from, to) ==
      {p \in PostKeys : \E q \in PostKeys \ {p} : Leads(from, q, p) /\ ~Leads(to, q, p)}
<1>1. PICK old, page, size : old = r.page /\ page = old + 1 /\ size = r.size
  OBVIOUS
<1>10. PICK low, high : low = old * size /\ high = page * size
  OBVIOUS
<1>2. PICK shown : shown = ToSet(PageOf(new, page, r.size))
  OBVIOUS
<1>3. PICK pulled, pushed : /\ pulled = IF page = 1 THEN {} ELSE moved(r.list, new)
                            /\ pushed = IF page = 1 THEN {} ELSE moved(new, r.list)
  OBVIOUS
<1>4. PICK next : next = WithPage(r, new)
  OBVIOUS
<1>5. /\ r.sort \in FeedSorts \cup {"posts"} /\ r.span \in Spans \cup {"week", "all"}
      /\ r.size \in Nat \ {0} /\ r.page \in Nat /\ r.total \in Nat /\ r.matched \in Nat
      /\ r.list \in Seq(PostKeys) /\ r.seen \in SUBSET PostKeys /\ r.repeated \in SUBSET PostKeys
      /\ r.kept \in SUBSET PostKeys /\ r.pulled \in SUBSET PostKeys /\ r.pushed \in SUBSET PostKeys
      /\ r.more \in BOOLEAN /\ r.grew \in BOOLEAN
  BY DEF Readers
<1>6. /\ next.sort = r.sort /\ next.span = r.span /\ next.size = r.size /\ next.page = page
      /\ next.total = -1 /\ next.matched = r.matched /\ next.found = <<>> /\ next.list = new
      /\ next.more = (page < TotalPages(r.total, r.size))
      /\ next.seen = r.seen \cup shown /\ next.repeated = r.repeated \cup (shown \cap r.seen)
      /\ next.kept = r.kept \cap ToSet(new)
      /\ next.pulled = r.pulled \cup pulled /\ next.pushed = r.pushed \cup pushed
      /\ next.grew = (r.grew \/ r.matched > r.total)
      /\ next = [sort |-> next.sort, span |-> next.span, size |-> next.size, page |-> next.page,
                 total |-> next.total, matched |-> next.matched, found |-> next.found,
                 more |-> next.more, list |-> next.list, seen |-> next.seen,
                 repeated |-> next.repeated, kept |-> next.kept, pulled |-> next.pulled,
                 pushed |-> next.pushed, grew |-> next.grew]
  BY <1>1, <1>2, <1>3, <1>4 DEF WithPage, Readers
<1> HIDE DEF moved
<1>7. shown = {new[i] : i \in {j \in DOMAIN new : low < j /\ j <= high}} /\ shown \in SUBSET PostKeys
  <2>1. page \in Nat \ {0} /\ page - 1 = old /\ size \in Nat \ {0}
    BY <1>1, <1>5
  <2>2. PICK places : places = {j \in DOMAIN new : (page - 1) * size < j /\ j <= page * size}
    OBVIOUS
  <2>3. ToSet(PageOf(new, page, size)) = {new[i] : i \in places}
    <3>1. \A pg, sz \in Nat \ {0} :
            ToSet(PageOf(new, pg, sz))
              = {new[i] : i \in {j \in DOMAIN new : (pg - 1) * sz < j /\ j <= pg * sz}}
      BY PageShows
    <3> QED
      BY <2>1, <2>2, <3>1
  <2>4. places = {j \in DOMAIN new : low < j /\ j <= high}
    BY <1>10, <2>1, <2>2
  <2>5. shown = ToSet(PageOf(new, page, size))
    BY <1>1, <1>2
  <2>6. \A j \in DOMAIN new : new[j] \in PostKeys
    OBVIOUS
  <2>7. shown = {new[i] : i \in {j \in DOMAIN new : low < j /\ j <= high}}
    BY <2>3, <2>4, <2>5
  <2> QED
    BY <2>6, <2>7
<1>8. pulled \in SUBSET PostKeys /\ pushed \in SUBSET PostKeys
  BY <1>3 DEF moved
<1>9. next \in Readers
  <2>1. <<>> \in Seq(FoundRows) /\ page \in Nat
    BY <1>1, <1>5
  <2>2. /\ next.seen \in SUBSET PostKeys /\ next.repeated \in SUBSET PostKeys
        /\ next.kept \in SUBSET PostKeys /\ next.pulled \in SUBSET PostKeys
        /\ next.pushed \in SUBSET PostKeys
    BY <1>5, <1>6, <1>7, <1>8
  <2>3. /\ next.more \in BOOLEAN /\ next.grew \in BOOLEAN /\ next.list \in Seq(PostKeys)
        /\ next.found \in Seq(FoundRows) /\ next.matched \in Nat /\ next.total \in Nat \cup {-1}
        /\ next.page \in Nat /\ next.size \in Nat \ {0}
        /\ next.sort \in FeedSorts \cup {"posts"} /\ next.span \in Spans \cup {"week", "all"}
    BY <1>5, <1>6, <2>1
  <2> QED
    BY ONLY <1>6, <2>2, <2>3, Zenon DEF Readers
<1>11. /\ old \in Nat /\ page \in Nat \ {0} /\ size \in Nat \ {0} /\ low \in Nat /\ high \in Nat
       /\ low <= high /\ (low > 0 => old > 0 /\ page # 1) /\ (old = 0 => low = 0)
  <2>1. old \in Nat /\ page \in Nat \ {0} /\ size \in Nat \ {0}
    BY <1>1, <1>5
  <2>2. low \in Nat /\ high \in Nat /\ high = low + size
    <3>1. page = old + 1 /\ low = old * size /\ high = page * size
      BY <1>1, <1>10
    <3> QED
      BY ONLY <2>1, <3>1
  <2>3. old = 0 => low = 0
    BY <1>10, <2>1
  <2>4. low > 0 => old > 0
    BY <2>1, <2>2, <2>3
  <2> QED
    BY <1>1, <2>1, <2>2, <2>3, <2>4
\* What was seen of the last list.
<1>12. /\ Distinct(r.list)
       /\ \A i \in DOMAIN r.list : i <= low =>
            r.list[i] \in (r.seen \cup r.pulled) \/ r.list[i] \notin r.kept
       /\ \A i \in DOMAIN r.list : r.list[i] \in r.seen \ r.pushed => i <= low
       /\ r.repeated \subseteq r.pushed
       /\ (old = 0 => r.seen = {}) /\ (old > 0 => r.kept \subseteq ToSet(r.list))
  BY <1>1, <1>10 DEF SeenSoFar
<1>13. /\ r.list \in Seq(PostKeys) /\ DOMAIN r.list = 1..Len(r.list) /\ Len(r.list) \in Nat
       /\ DOMAIN new = 1..Len(new) /\ Len(new) \in Nat /\ \A i \in DOMAIN new : new[i] \in PostKeys
  BY <1>5
\* Who comes early was pulled or seen.
<1>14. ASSUME NEW i \in DOMAIN new, i <= high, new[i] \in next.kept
       PROVE  new[i] \in next.seen \cup next.pulled
  <2>1. CASE low < i
    <3>1. new[i] \in shown
      BY <1>7, <1>14, <2>1
    <3> QED
      BY <1>6, <3>1
  <2>2. CASE ~(low < i)
    <3>1. low > 0 /\ old > 0 /\ page # 1 /\ i \in Nat /\ i <= low
      BY <1>11, <1>13, <2>2
    <3>2. PICK p : p = new[i]
      OBVIOUS
    <3>3. p \in r.kept /\ p \in PostKeys
      BY <1>6, <1>13, <1>14, <3>2
    <3>4. PICK m \in DOMAIN r.list : r.list[m] = p
      BY <1>12, <3>1, <3>3 DEF ToSet
    <3>5. CASE m <= low
      BY <1>6, <1>12, <3>2, <3>3, <3>4, <3>5
    <3>6. CASE ~(m <= low)
      <4>1. i < m
        BY <1>11, <1>13, <3>1, <3>4, <3>6
      <4>2. \E q \in PostKeys \ {p} : Leads(r.list, q, p) /\ ~Leads(new, q, p)
        BY <1>12, <1>13, <3>2, <3>4, <4>1, MoveIsNoticed
      <4>3. p \in pulled
        BY <1>3, <3>1, <3>3, <4>2 DEF moved
      <4> QED
        BY <1>6, <3>2, <4>3
    <3> QED
      BY <3>5, <3>6
  <2> QED
    BY <2>1, <2>2
\* Who was seen before and comes late was pushed.
<1>15. ASSUME NEW i \in DOMAIN new, low < i, new[i] \in r.seen, new[i] \notin r.pushed
       PROVE  new[i] \in pushed
  <2>1. PICK p : p = new[i]
    OBVIOUS
  <2>2. old > 0 /\ page # 1 /\ p \in PostKeys
    BY <1>1, <1>11, <1>12, <1>13, <1>15, <2>1
  <2>3. \E q \in PostKeys \ {p} : Leads(new, q, p) /\ ~Leads(r.list, q, p)
    <3>1. CASE \E m \in DOMAIN r.list : r.list[m] = p
      <4>1. PICK m \in DOMAIN r.list : r.list[m] = p
        BY <3>1
      <4>2. m <= low
        BY <1>12, <1>15, <2>1, <4>1
      <4>3. m < i
        BY <1>11, <1>13, <1>15, <4>1, <4>2
      <4> QED
        BY <1>12, <1>13, <2>1, <4>1, <4>3, MoveIsNoticed
    <3>2. CASE ~\E m \in DOMAIN r.list : r.list[m] = p
      <4>1. low > 0
        <5>1. \A a, b \in Nat : a > 0 /\ b > 0 => a * b > 0
          OBVIOUS
        <5> QED
          BY <1>10, <1>11, <2>2, <5>1
      <4>2. 1 \in DOMAIN new /\ 1 < i /\ 1 # i
        BY <1>11, <1>13, <1>15, <4>1
      <4>3. new[1] \in PostKeys \ {p}
        BY <1>13, <2>1, <4>2 DEF Distinct
      <4>4. Leads(new, new[1], p)
        BY <2>1, <4>2 DEF Leads
      <4>5. ~Leads(r.list, new[1], p)
        BY <3>2 DEF Leads
      <4> QED
        BY <4>3, <4>4, <4>5
    <3> QED
      BY <3>1, <3>2
  <2> QED
    BY <1>3, <2>1, <2>2, <2>3 DEF moved
<1>16. ASSUME NEW i \in DOMAIN new, new[i] \in next.seen \ next.pushed
       PROVE  i <= high
  <2>1. CASE new[i] \in shown
    <3>1. PICK j \in DOMAIN new : low < j /\ j <= high /\ new[i] = new[j]
      BY <1>7, <2>1
    <3>2. i = j
      BY <3>1 DEF Distinct
    <3> QED
      BY <3>1, <3>2
  <2>2. CASE new[i] \notin shown
    <3>1. new[i] \in r.seen /\ new[i] \notin r.pushed /\ new[i] \notin pushed
      BY <1>6, <1>16, <2>2
    <3>2. ~(low < i)
      BY <1>15, <3>1
    <3> QED
      BY <1>11, <1>13, <3>2
  <2> QED
    BY <2>1, <2>2
<1>17. next.repeated \subseteq next.pushed
  <2> SUFFICES ASSUME NEW p \in next.repeated PROVE p \in next.pushed
    OBVIOUS
  <2>1. CASE p \in r.repeated
    BY <1>6, <1>12, <2>1
  <2>2. CASE p \in shown \cap r.seen
    <3>1. PICK i \in DOMAIN new : low < i /\ p = new[i]
      BY <1>7, <2>2
    <3> QED
      BY <1>6, <1>15, <2>2, <3>1
  <2> QED
    BY <1>6, <2>1, <2>2
<1>18. /\ ~next.more => next.grew \/ Len(new) <= high
       /\ next.more => high < r.total
  <2>1. PICK total, matched, n : total = r.total /\ matched = r.matched /\ n = Len(new)
    OBVIOUS
  <2>2. total \in Nat /\ matched \in Nat /\ n \in Nat /\ n <= matched
    BY <1>5, <1>13, <2>1
  <2>3. /\ ~(page < TotalPages(total, size)) => total <= page * size
        /\ page < TotalPages(total, size) => page * size < total
    BY ONLY <1>11, <2>2, LastPageEnds
  <2>4. ASSUME ~next.grew PROVE matched <= total
    <3>1. ~(matched > total)
      BY <1>6, <2>1, <2>4
    <3> QED
      BY <2>2, <3>1
  <2>5. ASSUME ~next.more PROVE next.grew \/ Len(new) <= high
    <3>1. total <= high
      BY <1>1, <1>6, <1>10, <2>1, <2>3, <2>5
    <3> QED
      BY <1>11, <2>1, <2>2, <2>4, <3>1
  <2>6. ASSUME next.more PROVE high < r.total
    BY <1>1, <1>6, <1>10, <2>1, <2>3, <2>6
  <2> QED
    BY <2>5, <2>6
<1>19. next.page * next.size = high /\ next.page > 0 /\ next.page # 0
  BY <1>1, <1>6, <1>10, <1>11
<1>20. SeenSoFar(next)
  <2>1. \A i \in DOMAIN next.list : i <= next.page * next.size =>
          next.list[i] \in (next.seen \cup next.pulled) \/ next.list[i] \notin next.kept
    BY <1>6, <1>14, <1>19
  <2>2. \A i \in DOMAIN next.list :
          next.list[i] \in next.seen \ next.pushed => i <= next.page * next.size
    BY <1>6, <1>16, <1>19
  <2>3. next.kept \subseteq ToSet(next.list) /\ Distinct(next.list)
    BY <1>6
  <2>4. ~next.more => next.page > 0 /\ (next.grew \/ Len(next.list) <= next.page * next.size)
    BY <1>6, <1>18, <1>19
  <2> QED
    BY <1>17, <1>19, <2>1, <2>2, <2>3, <2>4 DEF SeenSoFar
<1>21. FoundInOrder(next)
  BY <1>6 DEF FoundInOrder
<1>22. next.more => (r.page + 1) * r.size < r.total
  BY <1>1, <1>10, <1>18
<1> QED
  BY <1>1, <1>4, <1>6, <1>9, <1>20, <1>21, <1>22

-----------------------------------------------------------------------------
(* Scores *)

LEMMA ProductSign ==
  ASSUME NEW a \in Int, NEW b \in Nat \ {0}
  PROVE  a * b \in Int /\ (a < 0 => a * b < 0) /\ (a > 0 => a * b > 0)
OBVIOUS

LEMMA Logarithms ==
  ASSUME NEW pos \in Nat, NEW neg \in Nat, pos + neg < Len(Log)
  PROVE  /\ Log[1 + pos] \in Nat /\ Log[1 + neg] \in Nat /\ Log[1 + pos + neg] \in Nat
         /\ pos < neg => Log[1 + pos] < Log[1 + neg]
         /\ neg < pos => Log[1 + neg] < Log[1 + pos]
<1>1. /\ Log \in Seq(Nat) /\ \A x, y \in DOMAIN Log : x < y => Log[x] < Log[y]
  BY FeedAssumption
<1>2. PICK width : width = Len(Log)
  OBVIOUS
<1>3. width \in Nat /\ DOMAIN Log = 1..width /\ \A x \in 1..width : Log[x] \in Nat
  BY <1>1, <1>2
<1>4. PICK x, y, z : x = 1 + pos /\ y = 1 + neg /\ z = 1 + pos + neg
  OBVIOUS
<1>5. x \in 1..width /\ y \in 1..width /\ z \in 1..width
      /\ (pos < neg => x < y) /\ (neg < pos => y < x)
  BY <1>2, <1>3, <1>4
<1>6. Log[x] \in Nat /\ Log[y] \in Nat /\ Log[z] \in Nat
  BY <1>3, <1>5
<1>7. (pos < neg => Log[x] < Log[y]) /\ (neg < pos => Log[y] < Log[x])
  BY <1>1, <1>3, <1>5
<1> QED
  BY <1>4, <1>6, <1>7

\* A score is an integer, with the sign of its verdict.
LEMMA ScoreSign ==
  ASSUME now \in 0..MaxTime, NEW r \in RowsBy(now), NEW anchor \in 0..now, NEW burned, NEW median
  PROVE  /\ Score(r, anchor, burned, median) \in Int
         /\ r.pos < r.neg => Score(r, anchor, burned, median) < 0
         /\ r.pos > r.neg => Score(r, anchor, burned, median) > 0
<1>1. PICK pos, neg : pos = r.pos /\ neg = r.neg
  OBVIOUS
<1>2. pos \in Nat /\ neg \in Nat /\ pos + neg < Len(Log)
  BY <1>1 DEF RowsBy
<1>3. PICK x, y : x = Log[1 + pos] /\ y = Log[1 + neg]
  OBVIOUS
<1>4. x \in Nat /\ y \in Nat /\ (pos < neg => x < y) /\ (neg < pos => y < x)
  BY <1>2, <1>3, Logarithms
<1>5. PICK left, dampening : left = Left[now - anchor]
                             /\ dampening = VelocityDampening(burned, median)
  OBVIOUS
<1>6. left \in Nat \ {0}
  <2>1. now - anchor \in 0..MaxTime /\ Left \in [0..MaxTime -> Nat \ {0}]
    BY FeedAssumption
  <2> QED
    BY <1>5, <2>1
<1>7. dampening \in Nat \ {0}
  BY <1>5 DEF VelocityDampening
<1>8. PICK a, b : a = x - y /\ b = a * left
  OBVIOUS
<1>9. Score(r, anchor, burned, median) = b * dampening
  BY <1>1, <1>3, <1>5, <1>8 DEF Score, Decayed, AggregateScore
<1>10. a \in Int /\ (pos < neg => a < 0) /\ (pos > neg => a > 0)
  BY ONLY <1>2, <1>4, <1>8
<1>11. b \in Int /\ (a < 0 => b < 0) /\ (a > 0 => b > 0)
  BY ONLY <1>6, <1>8, <1>10, ProductSign
<1>12. PICK c : c = b * dampening
  OBVIOUS
<1>13. c \in Int /\ (b < 0 => c < 0) /\ (b > 0 => c > 0)
  BY ONLY <1>7, <1>11, <1>12, ProductSign
<1> QED
  BY <1>1, <1>9, <1>10, <1>11, <1>12, <1>13

LEMMA ControversyIsNumber ==
  ASSUME NEW time, NEW r \in RowsBy(time)
  PROVE  ControversyScore(r) \in Int
<1>1. PICK pos, neg : pos = r.pos /\ neg = r.neg
  OBVIOUS
<1>2. pos \in Nat /\ neg \in Nat /\ pos + neg < Len(Log)
  BY <1>1 DEF RowsBy
<1>3. PICK z : z = Log[1 + pos + neg]
  OBVIOUS
<1>4. z \in Nat
  BY <1>2, <1>3, Logarithms
<1>5. CASE pos <= 0 \/ neg <= 0
  BY <1>1, <1>5 DEF ControversyScore
<1>6. CASE ~(pos <= 0 \/ neg <= 0)
  <2>1. PICK small, large : small = Smaller(pos, neg) /\ large = Larger(pos, neg)
    OBVIOUS
  <2>2. small \in Nat /\ large \in Nat \ {0}
    BY <1>2, <1>6, <2>1 DEF Smaller, Larger
  <2>3. PICK d : d = (10 * small) \div large
    OBVIOUS
  <2>4. d \in Int
    BY <2>2, <2>3
  <2>5. ControversyScore(r) = d * z
    BY <1>1, <1>3, <1>6, <2>1, <2>3 DEF ControversyScore
  <2>6. d * z \in Int
    BY <1>4, <2>4
  <2> QED
    BY <2>5, <2>6
<1> QED
  BY <1>5, <1>6

\* The largest of finitely many scores.
LEMMA MaxOfScores ==
  ASSUME NEW n \in Nat \ {0}, NEW scores, \A i \in 1..n : scores[i] \in Int
  PROVE  /\ Max({scores[j] : j \in 1..n}) \in Int
         /\ \A i \in 1..n : scores[i] <= Max({scores[j] : j \in 1..n})
<1>1. PICK T : T = {scores[j] : j \in 1..n}
  OBVIOUS
<1>2. PICK S : S = 1..n
  OBVIOUS
<1>3. IsFiniteSet(S) /\ S # {} /\ \A i \in S : scores[i] \in Int
  <2>1. IsFiniteSet(S)
    BY <1>2, FS_Interval
  <2>2. 1 \in S
    BY <1>2
  <2> QED
    BY <1>2, <2>1, <2>2
<1>4. PICK k \in S : \A i \in S : scores[i] <= scores[k]
  BY ONLY <1>3, LargestKey
<1>5. \E x \in T : \A y \in T : x >= y
  BY <1>1, <1>2, <1>3, <1>4
<1>6. Max(T) \in T /\ \A y \in T : Max(T) >= y
  BY <1>5 DEF Max
<1>7. \A i \in 1..n : scores[i] \in T
  BY <1>1
<1>8. T \subseteq Int
  BY <1>1
<1> QED
  BY <1>1, <1>6, <1>7, <1>8

ScoreTotal(scores) == MapThenSumSet(LAMBDA i : scores[i], 1..Len(scores))
Deviation(scores) == [i \in 1..Len(scores) |-> Len(scores) * scores[i] - ScoreTotal(scores)]
SquaresTo(dev, n) == MapThenSumSet(LAMBDA i : dev[i] * dev[i], 1..n)
ScoreSquares(scores) == SquaresTo(Deviation(scores), Len(scores))
BeyondDeviation(scores, i) ==
  Deviation(scores)[i] > 0
  /\ Len(scores) * Deviation(scores)[i] * Deviation(scores)[i] > ZMax * ZMax * ScoreSquares(scores)

LEMMA CappedIs ==
  ASSUME NEW scores
  PROVE  Capped(scores) =
           IF Len(scores) < MinPosts THEN scores
           ELSE IF ScoreSquares(scores) = 0 THEN [i \in 1..Len(scores) |-> 0]
           ELSE [i \in 1..Len(scores) |->
                   IF BeyondDeviation(scores, i) THEN Max({scores[j] : j \in 1..Len(scores)})
                   ELSE scores[i]]
BY Zenon DEF Capped, BeyondDeviation, ScoreSquares, SquaresTo, Deviation, ScoreTotal

LEMMA TotalIsNumber ==
  ASSUME NEW n \in Nat, NEW scores \in [1..n -> Int]
  PROVE  MapThenSumSet(LAMBDA i : scores[i], 1..n) \in Int
<1>1. PICK S : S = 1..n
  OBVIOUS
<1>2. IsFiniteSet(S) /\ \A i \in S : scores[i] \in Int
  BY <1>1, FS_Interval
<1>3. MapThenSumSet(LAMBDA i : scores[i], 1..n) = (CHOOSE sums : SumsOf(scores, S, sums))[S]
  BY <1>1, SMT DEF MapThenSumSet, MapThenFoldSet, SumsOf, Taken
<1>4. SumOver(scores, S) \in Int
  BY ONLY <1>2, SumType
<1> QED
  BY <1>3, <1>4 DEF SumOver, Sums

SquaresOf(dev, S, sums) ==
  sums = [s \in SUBSET S |->
            IF s = {} THEN 0 ELSE dev[Taken(s)] * dev[Taken(s)] + sums[s \ {Taken(s)}]]

LEMMA SquaresAreNumber ==
  ASSUME NEW n \in Nat, NEW dev \in [1..n -> Int]
  PROVE  SquaresTo(dev, n) \in Int
<1>1. PICK S, v : S = 1..n /\ v = [i \in 1..n |-> dev[i] * dev[i]]
  OBVIOUS
<1>2. IsFiniteSet(S) /\ \A i \in S : v[i] \in Int
  <2>1. \A a \in Int : a * a \in Int
    OBVIOUS
  <2>2. \A i \in 1..n : dev[i] \in Int
    OBVIOUS
  <2>3. \A i \in S : v[i] \in Int
    BY <1>1, <2>1, <2>2
  <2>4. IsFiniteSet(S)
    BY <1>1, FS_Interval
  <2> QED
    BY <2>3, <2>4
<1>3. SquaresTo(dev, n) = (CHOOSE sums : SquaresOf(dev, S, sums))[S]
  BY <1>1, SMT DEF SquaresTo, MapThenSumSet, MapThenFoldSet, SquaresOf, Taken
<1>4. \A s \in SUBSET S : s # {} => dev[Taken(s)] * dev[Taken(s)] = v[Taken(s)]
  BY <1>1, TakenLemma
<1>5. \A sums : SquaresOf(dev, S, sums) <=> SumsOf(v, S, sums)
  <2> TAKE sums
  <2>1. [s \in SUBSET S |->
          IF s = {} THEN 0 ELSE dev[Taken(s)] * dev[Taken(s)] + sums[s \ {Taken(s)}]]
        = [s \in SUBSET S |-> IF s = {} THEN 0 ELSE v[Taken(s)] + sums[s \ {Taken(s)}]]
    BY <1>4
  <2> QED
    BY <2>1 DEF SquaresOf, SumsOf
<1>6. SumsOf(v, S, Sums(v, S))
  BY <1>2, SumsExist
<1>7. SumsOf(v, S, CHOOSE sums : SquaresOf(dev, S, sums))
  BY <1>5, <1>6
<1>8. (CHOOSE sums : SquaresOf(dev, S, sums))[S] = Sums(v, S)[S]
  BY <1>2, <1>6, <1>7, SumsOfUnique
<1>9. SumOver(v, S) \in Int
  BY ONLY <1>2, SumType
<1> QED
  BY <1>3, <1>8, <1>9 DEF SumOver

\* The places that the cap gives are numbers, and a score above another one does
\* not come below it.
LEMMA CappedKeys ==
  ASSUME NEW n \in Nat, NEW scores \in [1..n -> Int], Len(scores) = n
  PROVE  /\ \A i \in 1..n : Capped(scores)[i] \in Int
         /\ \A i, j \in 1..n :
              scores[i] < scores[j] => Capped(scores)[i] <= Capped(scores)[j]
<1>1. PICK total, dev : total = ScoreTotal(scores) /\ dev = Deviation(scores)
  OBVIOUS
<1>2. PICK squares : squares = ScoreSquares(scores)
  OBVIOUS
<1>3. total \in Int
  BY <1>1, TotalIsNumber DEF ScoreTotal
<1>4. dev = [i \in 1..n |-> n * scores[i] - total] /\ dev \in [1..n -> Int]
  <2>1. dev = [i \in 1..n |-> n * scores[i] - total]
    BY <1>1 DEF Deviation
  <2>2. \A a, b, c \in Int : a * b - c \in Int
    OBVIOUS
  <2>3. \A i \in 1..n : n * scores[i] - total \in Int
    BY <1>3, <2>2
  <2> QED
    BY <2>1, <2>3
<1>5. squares \in Int
  <2>1. squares = SquaresTo(dev, n)
    BY <1>1, <1>2 DEF ScoreSquares
  <2>2. SquaresTo(dev, n) \in Int
    BY <1>4, SquaresAreNumber
  <2> QED
    BY <2>1, <2>2
<1>6. PICK limit : limit = ZMax * ZMax * squares
  OBVIOUS
<1>7. limit \in Int
  <2>1. ZMax \in Nat
    BY FeedAssumption
  <2> QED
    BY <1>5, <1>6, <2>1
<1>8. \A i \in 1..n : BeyondDeviation(scores, i) <=> dev[i] > 0 /\ n * dev[i] * dev[i] > limit
  BY <1>1, <1>2, <1>6 DEF BeyondDeviation
<1>9. CASE n < MinPosts
  BY <1>9, CappedIs
<1>10. CASE ~(n < MinPosts) /\ squares = 0
  <2>1. Capped(scores) = [i \in 1..n |-> 0]
    BY <1>2, <1>10, CappedIs
  <2> QED
    BY <2>1
<1>11. CASE ~(n < MinPosts) /\ squares # 0
  <2>1. PICK top : top = Max({scores[j] : j \in 1..n})
    OBVIOUS
  <2>2. Capped(scores) = [i \in 1..n |-> IF BeyondDeviation(scores, i) THEN top ELSE scores[i]]
    BY <1>2, <1>11, <2>1, CappedIs
  <2>3. ASSUME NEW i \in 1..n PROVE top \in Int /\ scores[i] <= top /\ scores[i] \in Int
    <3>1. n \in Nat \ {0} /\ \A j \in 1..n : scores[j] \in Int
      OBVIOUS
    <3> QED
      BY <2>1, <3>1, MaxOfScores
  <2>4. \A i \in 1..n : Capped(scores)[i] \in Int
    BY <2>2, <2>3
  <2>5. ASSUME NEW i \in 1..n, NEW j \in 1..n, scores[i] < scores[j]
        PROVE  Capped(scores)[i] <= Capped(scores)[j]
    <3>1. CASE ~BeyondDeviation(scores, i)
      <4>1. Capped(scores)[i] = scores[i]
        BY <2>2, <3>1
      <4>2. Capped(scores)[j] = top \/ Capped(scores)[j] = scores[j]
        BY <2>2
      <4>3. top \in Int /\ scores[j] <= top /\ scores[j] \in Int /\ scores[i] \in Int
        BY <2>3
      <4> QED
        BY <2>5, <4>1, <4>2, <4>3
    <3>2. CASE BeyondDeviation(scores, i)
      <4>1. PICK a, b : a = dev[i] /\ b = dev[j]
        OBVIOUS
      <4>2. PICK x, y : x = scores[i] /\ y = scores[j]
        OBVIOUS
      <4>3. /\ x \in Int /\ y \in Int /\ x < y /\ a \in Int /\ b \in Int
            /\ a = n * x - total /\ b = n * y - total
        BY <1>4, <2>5, <4>1, <4>2
      <4>4. a <= b
        <5>1. n * x <= n * y
          BY <4>3
        <5>2. \A c, d, e \in Int : c <= d => c - e <= d - e
          OBVIOUS
        <5>3. n * x \in Int /\ n * y \in Int
          BY <4>3
        <5> QED
          BY <1>3, <4>3, <5>1, <5>2, <5>3
      <4>5. a > 0 /\ n * a * a > limit
        BY <1>8, <3>2, <4>1
      <4>6. n * a * a <= n * b * b
        <5>1. PICK c, d : c = a * a /\ d = b * b
          OBVIOUS
        <5>2. c \in Int /\ d \in Int /\ c <= d
          <6>1. a \in Nat /\ b \in Nat
            BY <4>3, <4>4, <4>5
          <6>2. \A e, g, h \in Nat : e <= g => e * h <= g * h
            OBVIOUS
          <6>3. a * a <= b * a /\ a * b <= b * b /\ a * b = b * a
            BY <4>4, <6>1, <6>2
          <6>4. a * a \in Int /\ b * b \in Int /\ a * b \in Int
            BY <6>1
          <6>5. a * a <= b * b
            BY <6>3, <6>4
          <6> QED
            BY <5>1, <6>4, <6>5
        <5>3. n * c <= n * d
          BY <5>2
        <5>4. n * a * a = n * c /\ n * b * b = n * d
          BY <4>3, <5>1
        <5> QED
          BY <5>3, <5>4
      <4>7. b > 0 /\ n * b * b > limit
        <5>1. n * a * a \in Int /\ n * b * b \in Int
          BY <4>3
        <5>2. PICK e, g : e = n * a * a /\ g = n * b * b
          OBVIOUS
        <5>3. e \in Int /\ g \in Int /\ limit \in Int
          BY <1>7, <5>1, <5>2
        <5>4. e > limit /\ e <= g
          BY <4>5, <4>6, <5>2
        <5>5. g > limit
          BY ONLY <5>3, <5>4
        <5>6. b > 0
          BY ONLY <4>3, <4>4, <4>5
        <5> QED
          BY <5>2, <5>5, <5>6
      <4>8. BeyondDeviation(scores, j)
        BY <1>8, <4>1, <4>7
      <4>9. Capped(scores)[i] = top /\ Capped(scores)[j] = top /\ top \in Int
        BY <2>2, <2>3, <3>2, <4>8
      <4> QED
        BY <4>9
    <3> QED
      BY <3>1, <3>2
  <2> QED
    BY <2>4, <2>5
<1> QED
  BY <1>9, <1>10, <1>11

-----------------------------------------------------------------------------
(* Readers *)

\* Sorting leaves a list a list of distinct posts.
LEMMA SortedIsList ==
  ASSUME NEW X, NEW list \in Seq(X), Distinct(list), NEW places \in SUBSET (DOMAIN list),
         NEW key, \A x \in places : key[x] \in Int
  PROVE  /\ SortedBy(list, places, key) \in Seq(X) /\ Distinct(SortedBy(list, places, key))
         /\ Len(SortedBy(list, places, key)) = Cardinality(places)
         /\ Cardinality(places) <= Len(list)
         /\ places = DOMAIN list => Cardinality(places) = Len(list)
<1>1. PICK n : n = Len(list)
  OBVIOUS
<1>2. n \in Nat /\ DOMAIN list = 1..n /\ \A i \in 1..n : list[i] \in X
  BY <1>1
<1>3. IsFiniteSet(1..n) /\ Cardinality(1..n) = n
  BY <1>2, FS_Interval
<1>4. places \in SUBSET (1..n) /\ IsFiniteSet(places) /\ Cardinality(places) <= n
      /\ places \in SUBSET Nat
  <2>1. places \in SUBSET (1..n)
    BY <1>2
  <2>2. IsFiniteSet(places) /\ Cardinality(places) <= Cardinality(1..n)
    BY ONLY <1>3, <2>1, FS_Subset
  <2> QED
    BY <1>2, <1>3, <2>1, <2>2
<1>5. PICK order \in SetToSeqs(places) :
        SortedBy(list, places, key) = [i \in DOMAIN order |-> list[order[i]]]
  BY <1>4, SortedByIs
<1>6. PICK m : m = Cardinality(places)
  OBVIOUS
<1>7. m \in Nat /\ DOMAIN order = 1..m /\ order \in Seq(places) /\ Distinct(order)
  BY <1>4, <1>6, ListOfSet
<1>8. \A i \in 1..m : order[i] \in 1..n
  BY <1>4, <1>7
<1>9. PICK sorted : sorted = SortedBy(list, places, key)
  OBVIOUS
<1>10. sorted = [i \in 1..m |-> list[order[i]]] /\ sorted \in [1..m -> X]
  BY <1>2, <1>5, <1>7, <1>8, <1>9
<1>11. sorted \in Seq(X) /\ Len(sorted) = m /\ DOMAIN sorted = 1..m
  BY <1>7, <1>10
<1>12. Distinct(sorted)
  BY <1>2, <1>7, <1>8, <1>10, <1>11 DEF Distinct
<1> QED
  BY <1>1, <1>2, <1>3, <1>4, <1>6, <1>9, <1>11, <1>12

LEMMA Matched ==
  ASSUME NEW sort, NEW span
  PROVE  /\ Matching(sort, span) \in SUBSET PostKeys /\ IsFiniteSet(Matching(sort, span))
         /\ Cardinality(Matching(sort, span)) \in Nat
         /\ \A p \in Matching(sort, span) : rows[p] # NoRow
<1>1. /\ Matching(sort, span) \in SUBSET PostKeys
      /\ \A p \in Matching(sort, span) : rows[p] # NoRow
  BY DEF Matching
<1>2. PICK M : M = Matching(sort, span)
  OBVIOUS
<1>3. IsFiniteSet(PostKeys)
  BY FeedAssumption
<1>4. M \in SUBSET PostKeys
  BY <1>1, <1>2
<1>5. IsFiniteSet(M)
  BY ONLY <1>3, <1>4, FS_Subset
<1>6. Cardinality(M) \in Nat
  BY ONLY <1>5, FS_CardinalityType
<1> QED
  BY <1>1, <1>2, <1>5, <1>6

\* The candidates of a query are the first of what it found.
LEMMA FirstOnes ==
  ASSUME NEW X, NEW order \in Seq(X), NEW size \in Nat \ {0}
  PROVE  /\ Candidates(order, size) \in Seq(X)
         /\ Len(Candidates(order, size)) = Smaller(CandidatePages * size, Len(order))
         /\ Len(Candidates(order, size)) \in Nat
         /\ Len(Candidates(order, size)) <= Len(order)
         /\ order # <<>> => Len(Candidates(order, size)) > 0
         /\ \A i \in DOMAIN Candidates(order, size) :
              i \in DOMAIN order /\ Candidates(order, size)[i] = order[i]
<1>1. PICK n, wide, k, cut :
        /\ n = Len(order) /\ wide = CandidatePages * size
        /\ k = Smaller(wide, n) /\ cut = SubSeq(order, 1, k)
  OBVIOUS
<1>2. wide \in Nat \ {0}
  <2>1. CandidatePages \in Nat \ {0}
    BY FeedAssumption
  <2>2. \A a, b \in Nat \ {0} : a * b \in Nat \ {0}
    OBVIOUS
  <2> QED
    BY <1>1, <2>1, <2>2
<1>3. n \in Nat /\ DOMAIN order = 1..n /\ (order # <<>> => n > 0)
  BY <1>1
<1>4. k \in 0..n /\ (n > 0 => k > 0)
  BY <1>1, <1>2, <1>3 DEF Smaller
<1>5. cut = [i \in 1..k |-> order[i]] /\ \A i \in 1..k : order[i] \in X /\ i \in 1..n
  BY <1>1, <1>3, <1>4
<1>6. cut \in Seq(X) /\ Len(cut) = k /\ DOMAIN cut = 1..k
  BY <1>4, <1>5
<1>7. Candidates(order, size) = cut
  BY <1>1 DEF Candidates
<1>8. k \in Nat /\ k <= n /\ (order # <<>> => k > 0)
  BY <1>3, <1>4
<1>9. \A i \in DOMAIN cut : i \in DOMAIN order /\ cut[i] = order[i]
  BY <1>3, <1>5, <1>6
<1>10. Len(cut) = Smaller(CandidatePages * size, Len(order)) /\ Len(order) = n
  BY <1>1, <1>6
<1> QED
  BY <1>6, <1>7, <1>8, <1>9, <1>10

\* What the pages of a list are read from.
LEMMA ListOfIs ==
  ASSUME rows \in [PostKeys -> RowsBy(now) \cup {NoRow}],
         NEW sort, NEW size \in Nat \ {0}, NEW M \in SUBSET PostKeys,
         \A p \in M : rows[p] # NoRow, NEW order \in Seq(M), Distinct(order)
  PROVE  /\ ListOf(sort, order, size) \in Seq(PostKeys) /\ Distinct(ListOf(sort, order, size))
         /\ Len(ListOf(sort, order, size)) <= Len(order)
         /\ sort # "controversial" => ListOf(sort, order, size) = order
<1>1. order \in Seq(PostKeys) /\ Len(order) \in Nat
  OBVIOUS
<1>2. CASE sort # "controversial"
  BY <1>1, <1>2 DEF ListOf
<1>3. CASE sort = "controversial"
  <2>1. PICK c : c = Candidates(order, size)
    OBVIOUS
  <2>2. /\ c \in Seq(M) /\ Len(c) <= Len(order) /\ Len(c) \in Nat
        /\ \A i \in DOMAIN c : i \in DOMAIN order /\ c[i] = order[i]
    BY <2>1, FirstOnes
  <2>3. c \in Seq(PostKeys) /\ Distinct(c)
    <3>1. Distinct(c)
      BY <2>2 DEF Distinct
    <3> QED
      BY <2>2, <3>1
  <2>4. PICK score : score = [i \in DOMAIN c |-> ControversyScore(rows[c[i]])]
    OBVIOUS
  <2>5. PICK places : places = {i \in DOMAIN c : score[i] >= MinEngagement}
    OBVIOUS
  <2>6. \A i \in places : score[i] \in Int
    <3> TAKE i \in places
    <3>1. i \in DOMAIN c /\ c[i] \in M
      BY <2>2, <2>5
    <3>2. rows[c[i]] \in RowsBy(now)
      BY <3>1
    <3>3. PICK r, time : r = rows[c[i]] /\ time = now
      OBVIOUS
    <3>4. ControversyScore(r) \in Int
      BY <3>2, <3>3, ControversyIsNumber
    <3> QED
      BY <2>4, <3>1, <3>3, <3>4
  <2>7. places \in SUBSET (DOMAIN c)
    BY <2>5
  <2>8. PICK list : list = SortedBy(c, places, score)
    OBVIOUS
  <2>9. /\ list \in Seq(PostKeys) /\ Distinct(list)
        /\ Len(list) = Cardinality(places) /\ Cardinality(places) <= Len(c)
    BY <2>3, <2>6, <2>7, <2>8, SortedIsList
  <2>10. ListOf(sort, order, size) = list
    BY <1>3, <2>1, <2>4, <2>5, <2>8 DEF ListOf, Controversial
  <2>11. Len(list) <= Len(order)
    BY <1>1, <2>2, <2>9
  <2> QED
    BY <1>3, <2>9, <2>10, <2>11
<1> QED
  BY <1>2, <1>3

\* What PagesAreFull says of one page.
PageIsFull ==
  (PageFound /\ reader'.more) =>
     \/ Len(PageOf(reader'.list, reader'.page, reader.size)) = reader.size
     \/ reader'.matched < reader.total
     \/ reader.sort = "curated" /\ reader'.page > CandidatePages
     \/ reader.sort = "controversial"

LEMMA SizesArePositive ==
  ASSUME NEW asked \in AskedSizes
  PROVE  FeedSize(asked) \in Nat \ {0} /\ ListSize(asked) \in Nat \ {0}
<1>1. asked \in Nat /\ MaxFeedSize \in Nat \ {0} /\ MaxListSize \in Nat \ {0}
      /\ DefaultListSize \in Nat \ {0}
  BY FeedAssumption
<1> QED
  BY <1>1 DEF FeedSize, ListSize, Smaller, Larger

LEMMA ReaderStarts ==
  ASSUME NEW sort \in FeedSorts \cup {"posts"}, NEW span \in Spans \cup {"week", "all"},
         NEW size \in Nat \ {0}
  PROVE  /\ Reader(sort, span, size) \in Readers /\ SeenSoFar(Reader(sort, span, size))
         /\ FoundInOrder(Reader(sort, span, size))
<1>1. PICK r : r = Reader(sort, span, size)
  OBVIOUS
<1>2. r = [sort |-> sort, span |-> span, size |-> size, page |-> 0, total |-> -1,
           matched |-> 0, found |-> <<>>, more |-> TRUE, list |-> <<>>, seen |-> {},
           repeated |-> {}, kept |-> PostKeys, pulled |-> {}, pushed |-> {}, grew |-> FALSE]
  BY <1>1 DEF Reader
<1>3. <<>> \in Seq(FoundRows) /\ <<>> \in Seq(PostKeys) /\ DOMAIN <<>> = {}
  OBVIOUS
<1>4. r \in Readers
  BY <1>2, <1>3 DEF Readers
<1>5. /\ r.list = <<>> /\ r.page = 0 /\ r.seen = {} /\ r.repeated = {} /\ r.more = TRUE
      /\ r.found = <<>>
  BY <1>2
<1>6. SeenSoFar(r)
  BY <1>3, <1>5 DEF SeenSoFar, Distinct
<1>7. FoundInOrder(r)
  BY <1>5 DEF FoundInOrder
<1> QED
  BY <1>1, <1>4, <1>6, <1>7

LEMMA OpensFeeds ==
  ASSUME OpenFeed \/ OpenPosts
  PROVE  ReaderInv' /\ reader = NoReader /\ UNCHANGED <<now, moves, burns, rows, trend>>
<1>1. PICK sort \in FeedSorts \cup {"posts"}, span \in Spans \cup {"week", "all"},
           size \in Nat \ {0} : Opens(Reader(sort, span, size))
  <2>1. CASE OpenFeed
    <3>1. PICK asked \in AskedSizes, sort \in FeedSorts, span \in Spans :
            Opens(Reader(sort, EffectiveSpan(sort, span), FeedSize(asked)))
      BY <2>1 DEF OpenFeed
    <3>2. EffectiveSpan(sort, span) \in Spans \cup {"week", "all"}
      BY DEF EffectiveSpan
    <3> QED
      BY <3>1, <3>2, SizesArePositive
  <2>2. CASE OpenPosts
    BY <2>2, SizesArePositive DEF OpenPosts
  <2> QED
    BY <2>1, <2>2
<1>2. reader' = Reader(sort, span, size) /\ reader = NoReader
      /\ UNCHANGED <<now, moves, burns, rows, trend>>
  BY <1>1 DEF Opens
<1>3. PICK r : r = Reader(sort, span, size)
  OBVIOUS
<1>4. r \in Readers /\ SeenSoFar(r) /\ FoundInOrder(r)
  BY <1>3, ReaderStarts
<1>5. Readers' = Readers
  BY <1>2 DEF Readers, FoundRows
<1> QED
  BY <1>2, <1>3, <1>4, <1>5 DEF ReaderInv

LEMMA CountIsTaken ==
  ASSUME RowsAreSums, ReaderInv, Count
  PROVE  ReaderInv' /\ ~PageFound /\ UNCHANGED <<now, moves, burns, rows, trend>>
<1>1. reader # NoReader /\ UNCHANGED <<now, moves, burns, rows, trend>>
      /\ reader' = [reader EXCEPT !.total = Cardinality(Matching(reader.sort, reader.span))]
  BY DEF Count
<1>2. PICK r, n : r = reader /\ n = Cardinality(Matching(reader.sort, reader.span))
  OBVIOUS
<1>3. PICK next : next = [r EXCEPT !.total = n]
  OBVIOUS
<1>4. n \in Nat
  BY <1>2, Matched
<1>5. r \in Readers /\ SeenSoFar(r) /\ FoundInOrder(r)
  BY <1>1, <1>2 DEF ReaderInv
<1>6. /\ next \in Readers /\ next.total = n
      /\ next.list = r.list /\ next.page = r.page /\ next.size = r.size /\ next.seen = r.seen
      /\ next.pulled = r.pulled /\ next.pushed = r.pushed /\ next.kept = r.kept
      /\ next.repeated = r.repeated /\ next.more = r.more /\ next.grew = r.grew
      /\ next.found = r.found /\ next.sort = r.sort /\ next.matched = r.matched
  BY <1>3, <1>4, <1>5 DEF Readers
<1>7. SeenSoFar(next)
  BY <1>5, <1>6 DEF SeenSoFar
<1>8. FoundInOrder(next)
  BY <1>4, <1>5, <1>6 DEF FoundInOrder
<1>9. Readers' = Readers
  BY <1>1 DEF Readers, FoundRows
<1>10. reader' = next
  BY <1>1, <1>2, <1>3
<1>11. ~PageFound
  <2>1. reader'.page = reader.page /\ reader.page \in Nat
    BY <1>2, <1>5, <1>6, <1>10 DEF Readers
  <2> QED
    BY <2>1 DEF PageFound
<1> QED
  BY <1>1, <1>6, <1>7, <1>8, <1>9, <1>10, <1>11 DEF ReaderInv

LEMMA FindsRows ==
  ASSUME RowsAreSums, ReaderInv, FindRows
  PROVE  /\ ReaderInv' /\ PageIsFull /\ reader.found = <<>>
         /\ UNCHANGED <<now, moves, burns, rows, trend>>
<1>1. /\ reader # NoReader /\ reader.total >= 0 /\ reader.found = <<>>
      /\ UNCHANGED <<now, moves, burns, rows, trend>>
  BY DEF FindRows
<1>2. PICK M : M = Matching(reader.sort, reader.span)
  OBVIOUS
<1>3. PICK order \in Orders(reader.sort, M) :
        LET r == [reader EXCEPT !.matched = Len(order)]
            candidates == Candidates(order, reader.size)
        IN reader' =
             IF reader.sort = "curated" /\ order # <<>>
             THEN [r EXCEPT !.found = [i \in DOMAIN candidates |->
                     [post |-> candidates[i], row |-> rows[candidates[i]]]]]
             ELSE WithPage(r, ListOf(reader.sort, order, reader.size))
  BY <1>2 DEF FindRows
<1>4. PICK r, sort, size, n : /\ r = [reader EXCEPT !.matched = Len(order)]
                              /\ sort = reader.sort /\ size = reader.size /\ n = Len(order)
  OBVIOUS
<1>5. PICK candidates : candidates = Candidates(order, size)
  OBVIOUS
<1>6. reader' = IF sort = "curated" /\ order # <<>>
                THEN [r EXCEPT !.found = [i \in DOMAIN candidates |->
                        [post |-> candidates[i], row |-> rows[candidates[i]]]]]
                ELSE WithPage(r, ListOf(sort, order, size))
  BY <1>3, <1>4, <1>5
<1>7. M \in SUBSET PostKeys /\ IsFiniteSet(M) /\ \A p \in M : rows[p] # NoRow
  BY <1>2, Matched
<1>8. order \in SetToSeqs(M)
      /\ \A i, j \in 1..Len(order) : i < j => ~Before(sort, order[j], order[i])
  BY <1>3, <1>4 DEF Orders
<1>9. order \in Seq(M) /\ Distinct(order) /\ n \in Nat /\ DOMAIN order = 1..n
  BY <1>4, <1>7, <1>8, ListOfSet
<1>10. reader \in Readers /\ SeenSoFar(reader)
  BY <1>1 DEF ReaderInv
<1>11. /\ r \in Readers /\ r.total = reader.total /\ r.matched = n /\ r.found = <<>>
       /\ r.list = reader.list /\ r.page = reader.page /\ r.size = size /\ r.seen = reader.seen
       /\ r.pulled = reader.pulled /\ r.pushed = reader.pushed /\ r.kept = reader.kept
       /\ r.repeated = reader.repeated /\ r.more = reader.more /\ r.grew = reader.grew
       /\ r.sort = sort
  BY <1>1, <1>4, <1>9, <1>10 DEF Readers
<1>12. SeenSoFar(r)
  BY <1>4, <1>10, <1>11 DEF SeenSoFar
<1>13. size \in Nat \ {0} /\ r.page \in Nat /\ r.total \in Nat
  <2>1. reader.size \in Nat \ {0} /\ reader.page \in Nat /\ reader.total \in Nat \cup {-1}
    BY <1>10 DEF Readers
  <2> QED
    BY <1>1, <1>4, <1>11, <2>1
<1>14. rows \in [PostKeys -> RowsBy(now) \cup {NoRow}]
  BY DEF RowsAreSums
<1>15. Readers' = Readers
  BY <1>1 DEF Readers, FoundRows
<1>16. CASE sort = "curated" /\ order # <<>>
  <2>1. PICK found : found = [i \in DOMAIN candidates |->
                       [post |-> candidates[i], row |-> rows[candidates[i]]]]
    OBVIOUS
  <2>2. PICK next : next = [r EXCEPT !.found = found]
    OBVIOUS
  <2>3. reader' = next
    BY <1>6, <1>16, <2>1, <2>2
  <2>4. /\ candidates \in Seq(M) /\ Len(candidates) = Smaller(CandidatePages * size, Len(order))
        /\ Len(candidates) \in Nat /\ DOMAIN candidates = 1..Len(candidates)
        /\ Len(candidates) <= Len(order)
        /\ \A i \in DOMAIN candidates : i \in DOMAIN order /\ candidates[i] = order[i]
    <3>1. /\ candidates \in Seq(M) /\ Len(candidates) = Smaller(CandidatePages * size, Len(order))
          /\ Len(candidates) \in Nat /\ Len(candidates) <= Len(order)
          /\ order # <<>> => Len(candidates) > 0
          /\ \A i \in DOMAIN candidates : i \in DOMAIN order /\ candidates[i] = order[i]
      BY <1>5, <1>9, <1>13, FirstOnes
    <3> QED
      BY <3>1
  <2>5. ASSUME NEW i \in DOMAIN candidates
        PROVE  /\ found[i].post = candidates[i] /\ found[i].row = rows[candidates[i]]
               /\ found[i] \in FoundRows /\ candidates[i] \in M
    <3>1. candidates[i] \in M
      BY <2>4
    <3>2. rows[candidates[i]] \in RowsBy(now) /\ candidates[i] \in PostKeys
      BY <1>7, <1>14, <3>1
    <3>3. found[i] = [post |-> candidates[i], row |-> rows[candidates[i]]]
      BY <2>1
    <3> QED
      BY <3>1, <3>2, <3>3 DEF FoundRows
  <2>6. found \in Seq(FoundRows) /\ Len(found) = Len(candidates) /\ DOMAIN found = DOMAIN candidates
    <3>1. found \in [1..Len(candidates) -> FoundRows]
      BY <2>1, <2>4, <2>5
    <3> QED
      BY <2>4, <3>1
  <2>7. /\ next \in Readers /\ next.total = r.total /\ next.matched = n /\ next.found = found
        /\ next.list = r.list /\ next.page = r.page /\ next.size = size /\ next.seen = r.seen
        /\ next.pulled = r.pulled /\ next.pushed = r.pushed /\ next.kept = r.kept
        /\ next.repeated = r.repeated /\ next.more = r.more /\ next.grew = r.grew
        /\ next.sort = sort
    BY <1>11, <2>2, <2>6 DEF Readers
  <2>8. SeenSoFar(next)
    BY <1>11, <1>12, <2>7 DEF SeenSoFar
  <2>9. ASSUME NEW i \in DOMAIN found, NEW j \in DOMAIN found, i < j
        PROVE  /\ found[i].post # found[j].post
               /\ found[j].row.pos - found[j].row.neg <= found[i].row.pos - found[i].row.neg
    <3>1. i \in 1..n /\ j \in 1..n /\ candidates[i] = order[i] /\ candidates[j] = order[j]
      BY <1>9, <2>4, <2>6
    <3>2. order[i] # order[j]
      BY <1>9, <2>9, <3>1 DEF Distinct
    <3>3. ~(Ranking(order[j]) > Ranking(order[i]))
      BY <1>4, <1>8, <1>16, <2>9, <3>1 DEF Before
    <3>4. PICK a, b : a = rows[order[i]] /\ b = rows[order[j]]
      OBVIOUS
    <3>5. a \in RowsBy(now) /\ b \in RowsBy(now)
      BY <1>7, <1>9, <1>14, <3>1, <3>4
    <3>6. a.pos \in Nat /\ a.neg \in Nat /\ b.pos \in Nat /\ b.neg \in Nat
      BY <3>5 DEF RowsBy
    <3>7. b.pos - b.neg <= a.pos - a.neg
      BY <3>3, <3>4, <3>6 DEF Ranking
    <3>8. found[i].row = a /\ found[j].row = b
          /\ found[i].post = order[i] /\ found[j].post = order[j]
      BY <2>5, <2>6, <3>1, <3>4
    <3> QED
      BY <3>2, <3>7, <3>8
  <2>10. FoundInOrder(next)
    BY <1>1, <1>4, <1>11, <1>16, <2>4, <2>6, <2>7, <2>9 DEF FoundInOrder
  <2>11. ~PageFound
    BY <1>11, <1>13, <2>3, <2>7 DEF PageFound
  <2> QED
    BY <1>1, <1>15, <2>3, <2>7, <2>8, <2>10, <2>11 DEF ReaderInv, PageIsFull
<1>17. CASE ~(sort = "curated" /\ order # <<>>)
  <2>1. PICK list : list = ListOf(sort, order, size)
    OBVIOUS
  <2>2. /\ list \in Seq(PostKeys) /\ Distinct(list) /\ Len(list) <= Len(order)
        /\ sort # "controversial" => list = order
    BY <1>7, <1>9, <1>13, <1>14, <2>1, ListOfIs
  <2>3. PICK next : next = WithPage(r, list)
    OBVIOUS
  <2>4. reader' = next
    BY <1>6, <1>17, <2>1, <2>3
  <2>5. r.total # -1 /\ Len(list) <= r.matched
    BY <1>4, <1>11, <1>13, <2>2
  <2>6. /\ next \in Readers /\ SeenSoFar(next) /\ FoundInOrder(next)
        /\ next.list = list /\ next.page = r.page + 1 /\ next.matched = r.matched
        /\ next.more => (r.page + 1) * r.size < r.total
    BY ONLY <1>11, <1>12, <2>2, <2>3, <2>5, PageRead
  <2>7. ReaderInv'
    BY <1>15, <2>4, <2>6 DEF ReaderInv
  <2>8. PageIsFull
    <3> SUFFICES ASSUME reader'.more, ~(reader'.matched < reader.total), sort # "controversial"
                 PROVE  Len(PageOf(reader'.list, reader'.page, reader.size)) = reader.size
      BY <1>4 DEF PageIsFull
    <3>1. PICK page, total : page = r.page + 1 /\ total = r.total
      OBVIOUS
    <3>2. page \in Nat \ {0} /\ total \in Nat /\ page * size \in Nat
      BY <1>13, <3>1
    <3>3. page * size < total
      BY <1>11, <2>4, <2>6, <3>1
    <3>4. ~(n < total) /\ list = order
      BY <1>11, <2>2, <2>4, <2>6, <3>1
    <3>5. page * size <= Len(list)
      BY <1>4, <1>9, <3>2, <3>3, <3>4
    <3>6. Len(PageOf(list, page, size)) = size
      BY ONLY <1>13, <2>2, <3>2, <3>5, PageShows
    <3> QED
      BY <1>4, <2>4, <2>6, <3>1, <3>6
  <2> QED
    BY <1>1, <2>7, <2>8
<1> QED
  BY <1>16, <1>17

LEMMA FindsVelocity ==
  ASSUME RowsAreSums, ReaderInv, FindVelocity
  PROVE  /\ ReaderInv' /\ PageIsFull /\ VerdictsKept(reader'.list, RowFound)
         /\ UNCHANGED <<now, moves, burns, rows, trend>>
<1>1. /\ reader # NoReader /\ reader.found # <<>> /\ reader' = WithPage(reader, Curated(reader.found))
      /\ UNCHANGED <<now, moves, burns, rows, trend>>
  BY DEF FindVelocity
<1>2. PICK r, found, size, n : /\ r = reader /\ found = reader.found /\ size = reader.size
                               /\ n = Len(reader.found)
  OBVIOUS
<1>3. r \in Readers /\ SeenSoFar(r) /\ FoundInOrder(r)
  BY <1>1, <1>2 DEF ReaderInv
<1>4. /\ found \in Seq(FoundRows) /\ n \in Nat /\ DOMAIN found = 1..n /\ size \in Nat \ {0}
      /\ r.page \in Nat /\ r.total \in Nat /\ r.matched \in Nat /\ r.sort = "curated"
  <2>1. /\ found \in Seq(FoundRows) /\ size \in Nat \ {0} /\ r.page \in Nat
        /\ r.total \in Nat \cup {-1} /\ r.matched \in Nat
    BY <1>2, <1>3 DEF Readers
  <2>2. r.sort = "curated" /\ r.total >= 0
    BY <1>1, <1>2, <1>3 DEF FoundInOrder
  <2> QED
    BY <1>2, <2>1, <2>2
<1>5. /\ n = Smaller(CandidatePages * size, r.matched)
      /\ \A i, j \in 1..n : i < j =>
           /\ found[i].post # found[j].post
           /\ found[j].row.pos - found[j].row.neg <= found[i].row.pos - found[i].row.neg
  <2>1. r.found = found /\ r.size = size /\ r.found # <<>> /\ n = Len(r.found)
    BY <1>1, <1>2
  <2>2. /\ Len(r.found) = Smaller(CandidatePages * r.size, r.matched)
        /\ \A i, j \in DOMAIN r.found : i < j =>
             /\ r.found[i].post # r.found[j].post
             /\ r.found[j].row.pos - r.found[j].row.neg <= r.found[i].row.pos - r.found[i].row.neg
    BY <1>3, <2>1 DEF FoundInOrder
  <2>3. DOMAIN r.found = 1..n
    BY <1>4, <2>1
  <2> QED
    BY <2>1, <2>2, <2>3
<1>6. PICK median : median = Median(Voted(now - VelocityWindow), now - VelocityWindow)
  OBVIOUS
<1>7. PICK scores : scores = [i \in 1..n |->
        Score(found[i].row, found[i].row.first,
              BurnedSince(found[i].post, now - VelocityWindow), median)]
  OBVIOUS
<1>8. PICK posts : posts = [i \in 1..n |-> found[i].post]
  OBVIOUS
<1>9. \A i \in 1..n : found[i].row \in RowsBy(now) /\ found[i].post \in PostKeys
  <2>1. \A i \in 1..n : found[i] \in FoundRows
    BY <1>4
  <2> QED
    BY <2>1 DEF FoundRows
<1>10. posts \in Seq(PostKeys) /\ DOMAIN posts = 1..n /\ Len(posts) = n /\ Distinct(posts)
  <2>1. posts \in [1..n -> PostKeys]
    BY <1>8, <1>9
  <2>2. posts \in Seq(PostKeys) /\ DOMAIN posts = 1..n /\ Len(posts) = n
    BY <1>4, <2>1
  <2>3. ASSUME NEW i \in 1..n, NEW j \in 1..n, posts[i] = posts[j] PROVE i = j
    <3>1. ~(i < j) /\ ~(j < i)
      BY <1>5, <1>8, <2>3
    <3> QED
      BY <1>4, <3>1
  <2> QED
    BY <2>2, <2>3 DEF Distinct
<1>11. ASSUME NEW i \in 1..n
       PROVE  /\ scores[i] \in Int
              /\ found[i].row.pos \in Nat /\ found[i].row.neg \in Nat
              /\ found[i].row.pos < found[i].row.neg => scores[i] < 0
              /\ found[i].row.pos > found[i].row.neg => scores[i] > 0
  <2>1. PICK row, burned : row = found[i].row
                           /\ burned = BurnedSince(found[i].post, now - VelocityWindow)
    OBVIOUS
  <2>2. row \in RowsBy(now) /\ row.first \in 0..now /\ row.pos \in Nat /\ row.neg \in Nat
    BY <1>9, <2>1 DEF RowsBy
  <2>3. now \in 0..MaxTime
    BY DEF RowsAreSums
  <2>4. scores[i] = Score(row, row.first, burned, median)
    BY <1>7, <2>1
  <2>5. PICK anchor : anchor = row.first
    OBVIOUS
  <2>6. anchor \in 0..now
    BY <2>2, <2>5
  <2>7. /\ Score(row, anchor, burned, median) \in Int
        /\ row.pos < row.neg => Score(row, anchor, burned, median) < 0
        /\ row.pos > row.neg => Score(row, anchor, burned, median) > 0
    BY ONLY <2>2, <2>3, <2>6, ScoreSign
  <2> QED
    BY <2>1, <2>2, <2>4, <2>5, <2>7
<1>12. PICK keys : keys = Capped(scores)
  OBVIOUS
<1>13. /\ \A i \in 1..n : keys[i] \in Int
       /\ \A i, j \in 1..n : scores[i] < scores[j] => keys[i] <= keys[j]
  <2>1. scores \in [1..n -> Int]
    BY <1>7, <1>11
  <2>2. Len(scores) = n
    BY <1>4, <2>1
  <2> QED
    BY <1>4, <1>12, <2>1, <2>2, CappedKeys
<1>14. PICK list : list = SortedBy(posts, 1..n, keys)
  OBVIOUS
<1>15. Curated(reader.found) = list
  BY <1>2, <1>4, <1>6, <1>7, <1>8, <1>12, <1>14 DEF Curated
<1>16. PICK places : places = 1..n
  OBVIOUS
<1>17. places \in SUBSET (DOMAIN posts) /\ places \in SUBSET Nat /\ IsFiniteSet(places)
       /\ places = DOMAIN posts /\ \A x \in places : keys[x] \in Int
  <2>1. IsFiniteSet(places)
    BY <1>4, <1>16, FS_Interval
  <2> QED
    BY <1>4, <1>10, <1>13, <1>16, <2>1
<1>18. list \in Seq(PostKeys) /\ Distinct(list) /\ Len(list) = n
  <2>1. list = SortedBy(posts, places, keys)
    BY <1>14, <1>16
  <2>2. /\ SortedBy(posts, places, keys) \in Seq(PostKeys)
        /\ Distinct(SortedBy(posts, places, keys))
        /\ Len(SortedBy(posts, places, keys)) = Cardinality(places)
        /\ places = DOMAIN posts => Cardinality(places) = Len(posts)
    BY <1>10, <1>17, SortedIsList
  <2> QED
    BY <1>10, <1>17, <2>1, <2>2
<1>19. n <= r.matched
  <2>1. CandidatePages * size \in Nat
    BY <1>4, FeedAssumption
  <2> QED
    BY <1>4, <1>5, <2>1 DEF Smaller
<1>20. PICK next : next = WithPage(r, list)
  OBVIOUS
<1>21. reader' = next
  BY <1>1, <1>2, <1>15, <1>20
<1>22. /\ next \in Readers /\ SeenSoFar(next) /\ FoundInOrder(next)
       /\ next.list = list /\ next.page = r.page + 1 /\ next.matched = r.matched
       /\ next.more => (r.page + 1) * r.size < r.total
  <2>1. r.total # -1 /\ Len(list) <= r.matched
    BY <1>4, <1>18, <1>19
  <2> QED
    BY <1>3, <1>18, <1>20, <2>1, PageRead
<1>23. ReaderInv'
  <2>1. Readers' = Readers
    BY <1>1 DEF Readers, FoundRows
  <2> QED
    BY <1>21, <1>22, <2>1 DEF ReaderInv
<1>24. PageIsFull
  <2> SUFFICES ASSUME reader'.more, ~(reader'.matched < reader.total),
                      ~(reader'.page > CandidatePages)
               PROVE  Len(PageOf(reader'.list, reader'.page, reader.size)) = reader.size
    BY <1>2, <1>4 DEF PageIsFull
  <2>1. PICK page, total, matched, wide :
          page = r.page + 1 /\ total = r.total /\ matched = r.matched /\ wide = CandidatePages
    OBVIOUS
  <2>2. page \in Nat \ {0} /\ total \in Nat /\ matched \in Nat /\ wide \in Nat
    <3>1. page \in Nat \ {0} /\ total \in Nat /\ matched \in Nat
      BY <1>4, <2>1
    <3>2. wide \in Nat
      BY <2>1, FeedAssumption
    <3> QED
      BY <3>1, <3>2
  <2>3. page * size < total
    BY <1>2, <1>21, <1>22, <2>1
  <2>4. ~(matched < total) /\ ~(page > wide)
    BY <1>2, <1>21, <1>22, <2>1
  <2>5. page * size <= wide * size
    <3>1. \A a, b, c \in Nat : a <= b => a * c <= b * c
      OBVIOUS
    <3> QED
      BY <1>4, <2>2, <2>4, <3>1
  <2>6. page * size \in Nat /\ wide * size \in Nat
    BY <1>4, <2>2
  <2>7. page * size <= n
    BY <1>5, <2>1, <2>2, <2>3, <2>4, <2>5, <2>6 DEF Smaller
  <2>8. page * size <= Len(list)
    BY <1>18, <2>7
  <2>9. Len(PageOf(list, page, size)) = size
    BY <1>4, <1>18, <2>2, <2>8, PageShows
  <2> QED
    BY <1>2, <1>21, <1>22, <2>1, <2>9
\* No two of the rows that were found are of one post.
<1>25. ASSUME NEW i \in 1..n PROVE RowFound[found[i].post] = found[i].row
  <2>1. ToSet(found) = {found[j] : j \in 1..n}
    BY <1>4 DEF ToSet
  <2>2. PICK g : g = CHOOSE f \in ToSet(found) : f.post = found[i].post
    OBVIOUS
  <2>3. found[i] \in ToSet(found)
    BY <2>1
  <2>4. g \in ToSet(found) /\ g.post = found[i].post
    BY <2>2, <2>3
  <2>5. PICK j \in 1..n : g = found[j]
    BY <2>1, <2>4
  <2>6. posts[j] = posts[i]
    BY <1>8, <2>4, <2>5
  <2>7. j = i
    BY <1>10, <2>6 DEF Distinct
  <2>8. found[i].post \in {f.post : f \in ToSet(found)}
    BY <2>3
  <2>9. RowFound[found[i].post] = g.row
    BY <1>2, <2>2, <2>8 DEF RowFound
  <2> QED
    BY <2>5, <2>7, <2>9
<1>26. PICK order \in SetToSeqs(places) :
         InOrder(order, keys) /\ list = [i \in DOMAIN order |-> posts[order[i]]]
  <2>1. places \in SUBSET Nat /\ IsFiniteSet(places) /\ \A x \in places : keys[x] \in Int
    BY <1>17
  <2>2. \E order \in SetToSeqs(places) :
          /\ InOrder(order, keys)
          /\ SortedBy(posts, places, keys) = [i \in DOMAIN order |-> posts[order[i]]]
    BY ONLY <2>1, SortedByIs
  <2>3. list = SortedBy(posts, places, keys)
    BY <1>14, <1>16
  <2> QED
    BY <2>2, <2>3
<1>27. /\ order \in Seq(places) /\ DOMAIN list = DOMAIN order
       /\ \A i \in DOMAIN order : order[i] \in 1..n /\ list[i] = found[order[i]].post
  <2>1. order \in Seq(places)
    BY <1>17, ListOfSet
  <2>2. \A i \in DOMAIN order : order[i] \in 1..n
    <3>1. \A i \in DOMAIN order : order[i] \in places
      BY <2>1
    <3> QED
      BY <1>16, <3>1
  <2> QED
    BY <1>8, <1>26, <2>1, <2>2
<1>28. ASSUME NEW i \in DOMAIN list, NEW j \in DOMAIN list, i < j,
              RowFound[list[i]].pos < RowFound[list[i]].neg,
              RowFound[list[j]].pos > RowFound[list[j]].neg
       PROVE  FALSE
  <2>1. PICK a \in 1..n, b \in 1..n : a = order[i] /\ b = order[j]
    BY <1>27
  <2>2. found[a].row.pos < found[a].row.neg /\ found[b].row.pos > found[b].row.neg
    BY <1>25, <1>27, <1>28, <2>1
  <2>3. scores[a] < scores[b]
    <3>1. scores[a] < 0 /\ scores[b] > 0 /\ scores[a] \in Int /\ scores[b] \in Int
      BY <1>11, <2>2
    <3> QED
      BY <3>1
  <2>4. keys[a] <= keys[b] /\ keys[a] \in Int /\ keys[b] \in Int
    BY <1>13, <2>3
  <2>5. Sooner(keys, a, b)
    BY <1>26, <1>27, <1>28, <2>1 DEF InOrder
  <2>6. a < b
    BY <2>4, <2>5 DEF Sooner
  <2>7. found[b].row.pos - found[b].row.neg <= found[a].row.pos - found[a].row.neg
    BY <1>5, <2>6
  <2>8. PICK x, y, z, t : /\ x = found[a].row.pos /\ y = found[a].row.neg
                          /\ z = found[b].row.pos /\ t = found[b].row.neg
    OBVIOUS
  <2>9. x \in Nat /\ y \in Nat /\ z \in Nat /\ t \in Nat
    BY <1>11, <2>8
  <2>10. x < y /\ z > t /\ z - t <= x - y
    BY <2>2, <2>7, <2>8
  <2> QED
    BY <2>9, <2>10
<1>29. VerdictsKept(list, RowFound)
  BY <1>28 DEF VerdictsKept
<1> QED
  BY <1>1, <1>21, <1>22, <1>23, <1>24, <1>29

-----------------------------------------------------------------------------
(* Trending posts *)

\* While rows stay, so does what a request for the trending posts has found.
LEMMA TrendWaits ==
  ASSUME TrendInv, trend' = trend, \A q \in PostKeys : rows[q] # NoRow => rows'[q] # NoRow
  PROVE  TrendInv'
<1>1. \A i : trend.at \in {"velocity", "posts"} /\ i \in DOMAIN trend.groups =>
               trend.groups[i] \in PostKeys /\ rows[trend.groups[i]] # NoRow
  BY DEF TrendInv
<1> QED
  BY <1>1 DEF TrendInv

LEMMA GroupsAreFound ==
  ASSUME RowsAreSums, TrendGroups
  PROVE  TrendInv' /\ trend = NoTrend /\ UNCHANGED <<now, moves, burns, rows, reader>>
<1>1. trend = NoTrend /\ UNCHANGED <<now, moves, burns, rows, reader>>
  BY DEF TrendGroups
<1>2. PICK window \in {VelocityWindow, Week * Day}, limit \in 1..MaxFeedSize :
        \E s \in SetToSeqs(Voted(now - window)) :
          /\ Candidates(s, limit) # <<>>
          /\ trend' = [at |-> "velocity", groups |-> Candidates(s, limit), limit |-> limit,
                       median |-> Median(ToSet(Candidates(s, limit)), now - window),
                       start |-> now - VelocityWindow]
  BY DEF TrendGroups
<1>3. PICK V : V = Voted(now - window)
  OBVIOUS
<1>4. PICK s \in SetToSeqs(V) :
        trend' = [at |-> "velocity", groups |-> Candidates(s, limit), limit |-> limit,
                  median |-> Median(ToSet(Candidates(s, limit)), now - window),
                  start |-> now - VelocityWindow]
  BY <1>2, <1>3
<1>5. PICK groups : groups = Candidates(s, limit)
  OBVIOUS
<1>6. trend'.at = "velocity" /\ trend'.groups = groups /\ trend'.limit = limit
  BY <1>4, <1>5
<1>7. V \in SUBSET PostKeys /\ IsFiniteSet(V)
  <2>1. V \in SUBSET PostKeys
    BY <1>3 DEF Voted
  <2>2. IsFiniteSet(PostKeys)
    BY FeedAssumption
  <2> QED
    BY ONLY <2>1, <2>2, FS_Subset
<1>8. limit \in Nat \ {0}
  <2>1. MaxFeedSize \in Nat
    BY FeedAssumption
  <2> QED
    BY <1>2, <2>1
<1>9. s \in Seq(V)
  BY <1>7, ListOfSet
<1>10. groups \in Seq(V)
  BY <1>5, <1>8, <1>9, FirstOnes
<1>11. ASSUME NEW p \in V PROVE rows[p] # NoRow
  <2>1. PICK i \in DOMAIN burns : burns[i].post = p
    BY <1>3 DEF Voted, VotesSince, Since
  <2> QED
    BY <2>1 DEF RowsAreSums
<1>12. groups \in Seq(PostKeys) /\ \A i \in DOMAIN groups : rows[groups[i]] # NoRow
  <2>1. \A i \in DOMAIN groups : groups[i] \in V
    BY <1>10
  <2> QED
    BY <1>7, <1>10, <1>11, <2>1
<1> QED
  BY <1>1, <1>6, <1>8, <1>12 DEF TrendInv

LEMMA TrendIsScored ==
  ASSUME TrendInv, TrendVelocity
  PROVE  TrendInv' /\ trend.at = "velocity" /\ UNCHANGED <<now, moves, burns, rows, reader>>
<1>1. /\ trend.at = "velocity" /\ UNCHANGED <<now, moves, burns, rows, reader>>
      /\ trend' = [at |-> "posts", groups |-> trend.groups, limit |-> trend.limit,
                   median |-> trend.median,
                   burned |-> [p \in PostKeys |-> BurnedSince(p, trend.start)]]
  BY DEF TrendVelocity
<1>2. trend'.at = "posts" /\ trend'.groups = trend.groups /\ trend'.limit = trend.limit
  BY <1>1
<1> QED
  BY <1>1, <1>2 DEF TrendInv

LEMMA TrendIsShown ==
  ASSUME RowsAreSums, TrendInv, TrendPosts
  PROVE  /\ TrendInv' /\ VerdictsKept(trend'.shown, rows)
         /\ UNCHANGED <<now, moves, burns, rows, reader>>
<1>1. trend.at = "posts" /\ UNCHANGED <<now, moves, burns, rows, reader>>
  BY DEF TrendPosts
<1>2. PICK groups, limit, n : groups = trend.groups /\ limit = trend.limit /\ n = Len(trend.groups)
  OBVIOUS
<1>3. PICK median, burned : median = trend.median /\ burned = trend.burned
  OBVIOUS
<1>4. /\ groups \in Seq(PostKeys) /\ n \in Nat /\ DOMAIN groups = 1..n /\ limit \in Nat
      /\ \A i \in 1..n : groups[i] \in PostKeys /\ rows[groups[i]] # NoRow
  BY <1>1, <1>2 DEF TrendInv
<1>5. PICK scores : scores = [i \in 1..n |->
        Score(rows[groups[i]], rows[groups[i]].last, burned[groups[i]], median)]
  OBVIOUS
<1>6. ASSUME NEW i \in 1..n
      PROVE  /\ scores[i] \in Int
             /\ rows[groups[i]].pos < rows[groups[i]].neg => scores[i] < 0
             /\ rows[groups[i]].pos > rows[groups[i]].neg => scores[i] > 0
  <2>1. PICK row, sats, anchor : /\ row = rows[groups[i]] /\ sats = burned[groups[i]]
                                 /\ anchor = rows[groups[i]].last
    OBVIOUS
  <2>2. row \in RowsBy(now) /\ now \in 0..MaxTime
    BY <1>4, <2>1 DEF RowsAreSums
  <2>3. anchor \in 0..now
    BY <2>1, <2>2 DEF RowsBy
  <2>4. scores[i] = Score(row, anchor, sats, median)
    BY <1>5, <2>1
  <2>5. /\ Score(row, anchor, sats, median) \in Int
        /\ row.pos < row.neg => Score(row, anchor, sats, median) < 0
        /\ row.pos > row.neg => Score(row, anchor, sats, median) > 0
    BY ONLY <2>2, <2>3, ScoreSign
  <2> QED
    BY <2>1, <2>4, <2>5
<1>7. PICK sorted, places : sorted = SortedBy(groups, places, scores) /\ places = 1..n
  OBVIOUS
<1>8. trend' = [at |-> "shown", shown |-> SubSeq(sorted, 1, Smaller(limit, Len(sorted)))]
  BY <1>2, <1>3, <1>4, <1>5, <1>7 DEF TrendPosts
<1>9. places \in SUBSET Nat /\ IsFiniteSet(places) /\ \A x \in places : scores[x] \in Int
  <2>1. IsFiniteSet(places)
    BY <1>4, <1>7, FS_Interval
  <2>2. \A x \in places : scores[x] \in Int
    BY <1>6, <1>7
  <2> QED
    BY <1>4, <1>7, <2>1, <2>2
<1>10. PICK order \in SetToSeqs(places) :
         InOrder(order, scores) /\ sorted = [i \in DOMAIN order |-> groups[order[i]]]
  <2>1. \E order \in SetToSeqs(places) :
          /\ InOrder(order, scores)
          /\ SortedBy(groups, places, scores) = [i \in DOMAIN order |-> groups[order[i]]]
    BY ONLY <1>9, SortedByIs
  <2> QED
    BY <1>7, <2>1
<1>11. PICK m : m = Cardinality(places)
  OBVIOUS
<1>12. m \in Nat /\ DOMAIN order = 1..m /\ \A i \in 1..m : order[i] \in 1..n
  <2>1. m \in Nat /\ DOMAIN order = 1..m /\ order \in Seq(places)
    BY <1>9, <1>11, ListOfSet
  <2>2. \A i \in 1..m : order[i] \in places
    BY <2>1
  <2> QED
    BY <1>7, <2>1, <2>2
<1>13. PICK k, shown : k = Smaller(limit, m) /\ shown = SubSeq(sorted, 1, k)
  OBVIOUS
<1>14. sorted \in Seq(PostKeys) /\ Len(sorted) = m
  <2>1. sorted \in [1..m -> PostKeys]
    BY <1>4, <1>10, <1>12
  <2> QED
    BY <1>12, <2>1
<1>15. k \in Nat /\ k <= m
  BY <1>4, <1>12, <1>13 DEF Smaller
<1>16. shown = [i \in 1..k |-> sorted[i]] /\ \A i \in 1..k : i \in 1..m
  BY <1>12, <1>13, <1>14, <1>15
<1>17. trend'.at = "shown" /\ trend'.shown = shown
  BY <1>8, <1>13, <1>14
<1>18. ASSUME NEW i \in DOMAIN shown, NEW j \in DOMAIN shown, i < j,
              rows[shown[i]].pos < rows[shown[i]].neg, rows[shown[j]].pos > rows[shown[j]].neg
       PROVE  FALSE
  <2>1. PICK a \in 1..n, b \in 1..n : /\ a = order[i] /\ b = order[j]
                                      /\ shown[i] = groups[a] /\ shown[j] = groups[b]
    BY <1>10, <1>12, <1>16
  <2>2. Sooner(scores, a, b)
    BY <1>10, <1>12, <1>16, <1>18, <2>1 DEF InOrder
  <2>3. scores[a] < 0 /\ scores[b] > 0 /\ scores[a] \in Int /\ scores[b] \in Int
    BY <1>6, <1>18, <2>1
  <2> QED
    BY <2>2, <2>3 DEF Sooner
<1>19. VerdictsKept(shown, rows)
  BY <1>18 DEF VerdictsKept
<1>20. TrendInv'
  BY <1>17 DEF TrendInv
<1> QED
  BY <1>1, <1>17, <1>19, <1>20

-----------------------------------------------------------------------------
(* The beginning *)

\* The first and the last of finitely many times.
LEMMA FirstAndLast ==
  ASSUME NEW T, IsFiniteSet(T), T # {}, T \in SUBSET Int
  PROVE  Min(T) \in T /\ Max(T) \in T
<1>1. PICK key, low : key = [x \in T |-> x] /\ low = [x \in T |-> -x]
  OBVIOUS
<1>2. (\A x \in T : key[x] \in Int) /\ (\A x \in T : low[x] \in Int)
  BY <1>1
<1>3. PICK y \in T : \A x \in T : key[x] <= key[y]
  BY ONLY <1>2, IsFiniteSet(T), T # {}, LargestKey
<1>4. PICK z \in T : \A x \in T : low[x] <= low[z]
  BY ONLY <1>2, IsFiniteSet(T), T # {}, LargestKey
<1>5. (\A x \in T : y >= x) /\ (\A x \in T : z <= x)
  BY <1>1, <1>3, <1>4
<1> QED
  BY <1>5 DEF Min, Max

LEMMA FeedInitInv ==
  ASSUME FeedInit
  PROVE  FeedInv
<1>1. /\ burns \in Histories /\ moves = 0 /\ reader = NoReader /\ trend = NoTrend
      /\ now = IF burns = <<>> THEN 0 ELSE Last(burns).time
  BY DEF FeedInit
<1>2. /\ burns \in Seq([post : PostKeys, sats : Nat, positive : BOOLEAN, time : 0..MaxTime,
                        comment : BOOLEAN])
      /\ \A i \in DOMAIN burns : burns[i].time <= Last(burns).time
      /\ \A p \in PostKeys : TotalOf(burns, p, TRUE) + TotalOf(burns, p, FALSE) < Len(Log)
      /\ MaxTime \in Nat /\ MaxMoves \in Nat
  BY <1>1, HistoriesAssumption, FeedAssumption
<1>3. PICK n : n = Len(burns)
  OBVIOUS
<1>4. n \in Nat /\ DOMAIN burns = 1..n
  BY <1>2, <1>3
<1>5. \A i \in 1..n : burns[i].time \in 0..MaxTime /\ burns[i] \in Burns
  <2>1. \A i \in 1..n : burns[i] \in [post : PostKeys, sats : Nat, positive : BOOLEAN,
                                      time : 0..MaxTime, comment : BOOLEAN]
    <3>1. PICK X : X = [post : PostKeys, sats : Nat, positive : BOOLEAN, time : 0..MaxTime,
                        comment : BOOLEAN]
      OBVIOUS
    <3>2. burns \in Seq(X)
      BY <1>2, <3>1
    <3>3. \A i \in 1..n : burns[i] \in X
      BY <1>4, <3>2
    <3> QED
      BY <3>1, <3>3
  <2>2. 0..MaxTime \subseteq -1..MaxTime
    BY <1>2
  <2> QED
    BY <2>1, <2>2 DEF Burns
<1>6. burns \in Seq(Burns)
  BY <1>2, <1>4, <1>5
<1>7. now \in 0..MaxTime /\ \A i \in 1..n : burns[i].time \in 0..now
  <2>1. CASE burns = <<>>
    <3>1. n = 0 /\ now = 0
      BY <1>1, <1>3, <2>1
    <3> QED
      BY <1>2, <3>1
  <2>2. CASE burns # <<>>
    <3>1. n \in 1..n /\ Last(burns) = burns[n] /\ now = burns[n].time
      BY <1>1, <1>2, <1>3, <1>4, <2>2 DEF Last
    <3>2. now \in 0..MaxTime
      BY <1>5, <3>1
    <3>3. \A i \in 1..n : burns[i].time <= now
      BY <1>2, <1>4, <3>1
    <3> QED
      BY <1>5, <3>2, <3>3
  <2> QED
    BY <2>1, <2>2
<1>8. ASSUME NEW p \in PostKeys
      PROVE  /\ rows[p] \in RowsBy(now) \cup {NoRow}
             /\ (\E i \in 1..n : burns[i].post = p) => rows[p] # NoRow
             /\ rows[p] # NoRow => /\ rows[p].pos = TotalOf(burns, p, TRUE)
                                   /\ rows[p].neg = TotalOf(burns, p, FALSE)
  <2>1. PICK times, S : /\ S = {i \in DOMAIN burns : burns[i].post = p}
                        /\ times = {burns[i].time : i \in S}
    OBVIOUS
  <2>2. PICK for, against : for = TotalOf(burns, p, TRUE) /\ against = TotalOf(burns, p, FALSE)
    OBVIOUS
  <2>3. rows[p] = IF times = {} THEN NoRow
                  ELSE [pos |-> for, neg |-> against, first |-> Min(times), last |-> Max(times)]
    BY <2>1, <2>2 DEF FeedInit
  <2>4. for \in Nat /\ against \in Nat /\ for + against < Len(Log)
    BY <1>2, <1>6, <2>2, TotalIsSum
  <2>5. CASE times = {}
    <3>1. ~\E i \in 1..n : burns[i].post = p
      BY <1>4, <2>1, <2>5
    <3> QED
      BY <2>3, <2>5, <3>1
  <2>6. CASE times # {}
    <3>1. times \in SUBSET (0..now) /\ now \in Nat
      BY <1>4, <1>7, <2>1
    <3>2. IsFiniteSet(times) /\ times \in SUBSET Int
      <4>1. PICK U : U = 0..now
        OBVIOUS
      <4>2. IsFiniteSet(U)
        BY <3>1, <4>1, FS_Interval
      <4>3. times \in SUBSET U
        BY <3>1, <4>1
      <4>4. IsFiniteSet(times)
        BY ONLY <4>2, <4>3, FS_Subset
      <4> QED
        BY <3>1, <4>4
    <3>3. Min(times) \in 0..now /\ Max(times) \in 0..now
      BY <2>6, <3>1, <3>2, FirstAndLast
    <3>4. PICK r : r = [pos |-> for, neg |-> against, first |-> Min(times), last |-> Max(times)]
      OBVIOUS
    <3>5. r \in [pos : Nat, neg : Nat, first : 0..now, last : 0..now]
          /\ r.pos = for /\ r.neg = against
      BY <2>4, <3>3, <3>4
    <3>6. r \in RowsBy(now)
      BY <2>4, <3>5 DEF RowsBy
    <3>7. PICK time : time = now
      OBVIOUS
    <3>8. r # NoRow
      BY <3>6, <3>7, RowIsNotNone
    <3>9. rows[p] = r
      BY <2>3, <2>6, <3>4
    <3> QED
      BY <2>2, <3>5, <3>6, <3>8, <3>9
  <2> QED
    BY <2>5, <2>6
<1>9. rows \in [PostKeys -> RowsBy(now) \cup {NoRow}]
  <2>1. rows = [p \in PostKeys |-> rows[p]]
    BY DEF FeedInit
  <2> QED
    BY <1>8, <2>1
<1>10. \A i \in DOMAIN burns : rows[burns[i].post] # NoRow
  <2> TAKE i \in DOMAIN burns
  <2>1. burns[i].post \in PostKeys
    BY <1>4, <1>5 DEF Burns
  <2> QED
    BY <1>4, <1>8, <2>1
<1>11. RowsAreSums
  <2>1. moves \in 0..MaxMoves
    BY <1>1, <1>2
  <2>2. \A p \in PostKeys : rows[p] # NoRow =>
          rows[p].pos = TotalOf(burns, p, TRUE) /\ rows[p].neg = TotalOf(burns, p, FALSE)
    BY <1>8
  <2>3. now \in 0..MaxTime
    BY <1>7
  <2> QED
    BY <1>6, <1>9, <1>10, <2>1, <2>2, <2>3 DEF RowsAreSums
<1>12. TrendInv
  BY <1>1 DEF TrendInv, NoTrend
<1>13. ReaderInv
  BY <1>1 DEF ReaderInv
<1> QED
  BY <1>11, <1>12, <1>13 DEF FeedInv

-----------------------------------------------------------------------------
(* The invariant, and what readers are promised *)

\* What the steps of a request for a page and of one for the trending posts promise.
Promised ==
  /\ PageIsFull
  /\ (PageFound /\ reader.found # <<>>) => VerdictsKept(reader'.list, RowFound)
  /\ (trend.at = "posts" /\ trend'.at = "shown") => VerdictsKept(trend'.shown, rows)

LEMMA NoPageFound ==
  ASSUME ReaderInv, reader' = reader \/ reader = NoReader \/ reader' = NoReader \/ ~PageFound,
         trend' = trend \/ trend.at # "posts" \/ trend'.at # "shown"
  PROVE  Promised
<1>1. ~PageFound
  <2>1. CASE reader' = reader /\ reader # NoReader
    <3>1. reader.page \in Nat
      BY <2>1 DEF ReaderInv, Readers
    <3> QED
      BY <2>1, <3>1 DEF PageFound
  <2> QED
    BY <2>1 DEF PageFound
<1>2. ~(trend.at = "posts" /\ trend'.at = "shown")
  OBVIOUS
<1> QED
  BY <1>1, <1>2 DEF Promised, PageIsFull

LEMMA FeedStep ==
  ASSUME FeedInv, FeedNext
  PROVE  FeedInv' /\ Promised
<1>1. RowsAreSums /\ ReaderInv /\ TrendInv /\ now \in Nat
  <2>1. RowsAreSums /\ ReaderInv /\ TrendInv
    BY DEF FeedInv
  <2>2. now \in 0..MaxTime
    BY <2>1 DEF RowsAreSums
  <2>3. now \in Nat
    BY <2>2
  <2> QED
    BY <2>1, <2>3
\* Votes and time.
<1>2. ASSUME Cast \/ RemoveVote
      PROVE  FeedInv' /\ Promised
  <2>1. UNCHANGED <<now, reader, trend>>
    BY <1>2 DEF Cast, RemoveVote
  <2>2. RowsAreSums' /\ \A q \in PostKeys : rows[q] # NoRow => rows'[q] # NoRow
    BY <1>1, <1>2, CastVotes, RemoveVotes
  <2>3. ReaderInv'
    BY <1>1, <2>1, ReaderWaits
  <2>4. TrendInv'
    BY <1>1, <2>1, <2>2, TrendWaits
  <2> QED
    BY <1>1, <2>1, <2>2, <2>3, <2>4, NoPageFound DEF FeedInv
<1>3. ASSUME Confirm \/ Tick
      PROVE  FeedInv' /\ Promised
  <2>1. UNCHANGED <<rows, reader, trend>>
    BY <1>3 DEF Confirm, Tick
  <2>2. RowsAreSums' /\ now' \in Nat /\ now <= now'
    <3>1. CASE Confirm
      <4>1. now' = now
        BY <3>1 DEF Confirm
      <4> QED
        BY <1>1, <3>1, <4>1, ConfirmVotes
    <3>2. CASE Tick
      BY <1>1, <3>2, TickRows
    <3> QED
      BY <1>3, <3>1, <3>2
  <2>3. ReaderInv'
    BY <1>1, <2>1, <2>2, ReaderWaits
  <2>4. TrendInv'
    BY <1>1, <2>1, TrendWaits
  <2> QED
    BY <1>1, <2>1, <2>2, <2>3, <2>4, NoPageFound DEF FeedInv
\* Readers.
<1>4. ASSUME UNCHANGED <<now, moves, burns, rows>>
      PROVE  RowsAreSums' /\ (trend' = trend => TrendInv') /\ (reader' = reader => ReaderInv')
  <2>1. RowsAreSums'
    BY <1>1, <1>4 DEF RowsAreSums
  <2>2. ASSUME trend' = trend PROVE TrendInv'
    BY <1>1, <1>4, <2>2, TrendWaits
  <2>3. ASSUME reader' = reader PROVE ReaderInv'
    BY <1>1, <1>4, <2>3, ReaderWaits
  <2> QED
    BY <2>1, <2>2, <2>3
<1>5. ASSUME OpenFeed \/ OpenPosts
      PROVE  FeedInv' /\ Promised
  <2>1. ReaderInv' /\ reader = NoReader /\ UNCHANGED <<now, moves, burns, rows, trend>>
    BY <1>5, OpensFeeds
  <2> QED
    BY <1>1, <1>4, <2>1, NoPageFound DEF FeedInv
<1>6. ASSUME Count
      PROVE  FeedInv' /\ Promised
  <2>1. ReaderInv' /\ ~PageFound /\ UNCHANGED <<now, moves, burns, rows, trend>>
    BY <1>1, <1>6, CountIsTaken
  <2> QED
    BY <1>1, <1>4, <2>1, NoPageFound DEF FeedInv
<1>7. ASSUME FindRows
      PROVE  FeedInv' /\ Promised
  <2>1. /\ ReaderInv' /\ PageIsFull /\ reader.found = <<>>
        /\ UNCHANGED <<now, moves, burns, rows, trend>>
    BY <1>1, <1>7, FindsRows
  <2>2. ~(trend.at = "posts" /\ trend'.at = "shown")
    BY <2>1
  <2> QED
    BY <1>4, <2>1, <2>2 DEF FeedInv, Promised
<1>8. ASSUME FindVelocity
      PROVE  FeedInv' /\ Promised
  <2>1. /\ ReaderInv' /\ PageIsFull /\ VerdictsKept(reader'.list, RowFound)
        /\ UNCHANGED <<now, moves, burns, rows, trend>>
    BY <1>1, <1>8, FindsVelocity
  <2>2. ~(trend.at = "posts" /\ trend'.at = "shown")
    BY <2>1
  <2> QED
    BY <1>4, <2>1, <2>2 DEF FeedInv, Promised
<1>9. ASSUME Leave
      PROVE  FeedInv' /\ Promised
  <2>1. reader' = NoReader /\ UNCHANGED <<now, moves, burns, rows, trend>>
    BY <1>9 DEF Leave
  <2>2. ReaderInv'
    BY <2>1 DEF ReaderInv
  <2> QED
    BY <1>1, <1>4, <2>1, <2>2, NoPageFound DEF FeedInv
\* Trending posts.
<1>10. ASSUME TrendGroups
       PROVE  FeedInv' /\ Promised
  <2>1. TrendInv' /\ trend = NoTrend /\ UNCHANGED <<now, moves, burns, rows, reader>>
    BY <1>1, <1>10, GroupsAreFound
  <2>2. trend.at # "posts"
    BY <2>1 DEF NoTrend
  <2> QED
    BY <1>1, <1>4, <2>1, <2>2, NoPageFound DEF FeedInv
<1>11. ASSUME TrendVelocity
       PROVE  FeedInv' /\ Promised
  <2>1. TrendInv' /\ trend.at = "velocity" /\ UNCHANGED <<now, moves, burns, rows, reader>>
    BY <1>1, <1>11, TrendIsScored
  <2> QED
    BY <1>1, <1>4, <2>1, NoPageFound DEF FeedInv
<1>12. ASSUME TrendPosts
       PROVE  FeedInv' /\ Promised
  <2>1. /\ TrendInv' /\ VerdictsKept(trend'.shown, rows)
        /\ UNCHANGED <<now, moves, burns, rows, reader>>
    BY <1>1, <1>12, TrendIsShown
  <2>2. ~PageFound
    <3>1. reader # NoReader => reader.page \in Nat
      BY <1>1 DEF ReaderInv, Readers
    <3> QED
      BY <2>1, <3>1 DEF PageFound
  <2> QED
    BY <1>4, <2>1, <2>2 DEF FeedInv, Promised, PageIsFull
<1>13. ASSUME TrendShown
       PROVE  FeedInv' /\ Promised
  <2>1. trend.at = "shown" /\ trend' = NoTrend /\ UNCHANGED <<now, moves, burns, rows, reader>>
    BY <1>13 DEF TrendShown
  <2>2. TrendInv'
    BY <2>1 DEF TrendInv, NoTrend
  <2> QED
    BY <1>1, <1>4, <2>1, <2>2, NoPageFound DEF FeedInv
<1> QED
  BY <1>2, <1>3, <1>5, <1>6, <1>7, <1>8, <1>9, <1>10, <1>11, <1>12, <1>13 DEF FeedNext

LEMMA FeedStutters ==
  ASSUME FeedInv, UNCHANGED feedVars
  PROVE  FeedInv' /\ Promised
<1>1. /\ RowsAreSums /\ ReaderInv /\ TrendInv /\ now \in Nat
      /\ UNCHANGED <<now, moves, burns, rows, reader, trend>>
  <2>1. RowsAreSums /\ ReaderInv /\ TrendInv
    BY DEF FeedInv
  <2>2. now \in 0..MaxTime
    BY <2>1 DEF RowsAreSums
  <2>3. now \in Nat
    BY <2>2
  <2>4. UNCHANGED <<now, moves, burns, rows, reader, trend>>
    BY DEF feedVars
  <2> QED
    BY <2>1, <2>3, <2>4
<1>2. RowsAreSums'
  BY <1>1 DEF RowsAreSums
<1>3. ReaderInv' /\ TrendInv'
  BY <1>1, ReaderWaits, TrendWaits
<1> QED
  BY <1>1, <1>2, <1>3, NoPageFound DEF FeedInv

LEMMA FeedInvariance == FeedSpec => []FeedInv
<1>1. FeedInit => FeedInv
  BY FeedInitInv
<1>2. FeedInv /\ [FeedNext]_feedVars => FeedInv'
  BY FeedStep, FeedStutters
<1> QED
  BY <1>1, <1>2, PTL DEF FeedSpec

LEMMA FeedInvImpliesTypes ==
  ASSUME FeedInv
  PROVE  FeedTypeOK
<1>1. RowsAreSums /\ ReaderInv /\ TrendInv /\ MaxTime \in Nat
  BY FeedAssumption DEF FeedInv
<1>2. now \in 0..MaxTime /\ moves \in 0..MaxMoves
  BY <1>1 DEF RowsAreSums
<1>3. \A i \in DOMAIN burns :
        burns[i].post \in PostKeys /\ burns[i].time \in -1..MaxTime /\ burns[i].sats \in Nat
  <2>1. \A i \in DOMAIN burns : burns[i] \in Burns
    BY <1>1 DEF RowsAreSums
  <2> QED
    BY <2>1 DEF Burns
<1>4. ASSUME NEW p \in PostKeys, rows[p] # NoRow
      PROVE  /\ rows[p].pos \in Nat /\ rows[p].neg \in Nat
             /\ rows[p].first \in 0..MaxTime /\ rows[p].last \in 0..MaxTime
  <2>1. PICK r, time : r = rows[p] /\ time = now
    OBVIOUS
  <2>2. r \in RowsBy(time)
    BY <1>1, <1>4, <2>1 DEF RowsAreSums
  <2>3. r.pos \in Nat /\ r.neg \in Nat /\ r.first \in 0..time /\ r.last \in 0..time
    BY <2>2, RowIsNotNone
  <2> QED
    BY <1>1, <1>2, <2>1, <2>3
<1>5. reader # NoReader => reader.total >= -1 /\ reader.seen \subseteq PostKeys
  BY <1>1 DEF ReaderInv, Readers
<1>6. trend.at \in {"none", "velocity", "posts", "shown"}
  BY <1>1 DEF TrendInv
<1> QED
  BY <1>2, <1>3, <1>4, <1>5, <1>6 DEF FeedTypeOK

\* Every row, burn and position of a reader is one there can be.
THEOREM FeedTypeCorrect == FeedSpec => []FeedTypeOK
<1>1. FeedInv => FeedTypeOK
  BY FeedInvImpliesTypes
<1> QED
  BY <1>1, FeedInvariance, PTL

LEMMA SeenSoFarFollows ==
  ASSUME FeedInv
  PROVE  PagesFollowMoves
<1>1. ASSUME reader # NoReader, ~reader.more, ~reader.grew, NEW p \in reader.kept \ reader.pulled
      PROVE  p \in reader.seen
  <2>1. SeenSoFar(reader) /\ reader.list \in Seq(PostKeys)
    BY <1>1 DEF FeedInv, ReaderInv, Readers
  <2>2. PICK end, n, list : end = reader.page * reader.size /\ n = Len(reader.list) /\ list = reader.list
    OBVIOUS
  <2>3. /\ reader.page > 0 /\ n <= end
        /\ reader.kept \subseteq ToSet(list)
        /\ \A i \in DOMAIN list : i <= end =>
             list[i] \in (reader.seen \cup reader.pulled) \/ list[i] \notin reader.kept
    BY <1>1, <2>1, <2>2 DEF SeenSoFar
  <2>4. PICK i \in DOMAIN list : list[i] = p
    BY <1>1, <2>3 DEF ToSet
  <2>5. i <= end
    <3>1. n \in Nat /\ i \in 1..n
      BY <2>1, <2>2, <2>4
    <3>2. end \in Int
      <4>1. reader.page \in Nat /\ reader.size \in Nat
        BY <1>1 DEF FeedInv, ReaderInv, Readers
      <4> QED
        BY <2>2, <4>1
    <3> QED
      BY <2>3, <3>1, <3>2
  <2> QED
    BY <1>1, <2>3, <2>4, <2>5
<1>2. RepeatsWerePushed
  BY DEF RepeatsWerePushed, FeedInv, ReaderInv, SeenSoFar
<1>3. NoneIsMissed
  BY <1>1 DEF NoneIsMissed
<1> QED
  BY <1>2, <1>3 DEF PagesFollowMoves

\* What a client of skip and take misses or sees twice while votes move the
\* posts are posts that moved, for any number of posts, votes and pages.
THEOREM MovesExplainPages == FeedSpec => []PagesFollowMoves
<1>1. FeedInv => PagesFollowMoves
  BY SeenSoFarFollows
<1> QED
  BY <1>1, FeedInvariance, PTL

\* A page that is said to have a successor is full, but for the cases that
\* PagesAreFull names.
THEOREM SuccessorsFollowFullPages == FeedSpec => PagesAreFull
<1>1. FeedInv /\ [FeedNext]_feedVars =>
        [ (PageFound /\ reader'.more) =>
            \/ Len(PageOf(reader'.list, reader'.page, reader.size)) = reader.size
            \/ reader'.matched < reader.total
            \/ reader.sort = "curated" /\ reader'.page > CandidatePages
            \/ reader.sort = "controversial" ]_feedVars
  BY FeedStep DEF Promised, PageIsFull
<1> QED
  BY <1>1, FeedInvariance, PTL DEF FeedSpec, PagesAreFull

\* Neither decay nor dampening nor the cap turns a verdict, for any logarithm
\* that grows and any decay that leaves something.
THEOREM RankingKeepsVerdicts == FeedSpec => VerdictsAreKept
<1>1. FeedInv /\ [FeedNext]_feedVars =>
        [ /\ (PageFound /\ reader.found # <<>>) => VerdictsKept(reader'.list, RowFound)
          /\ (trend.at = "posts" /\ trend'.at = "shown") => VerdictsKept(trend'.shown, rows)
        ]_feedVars
  BY FeedStep DEF Promised
<1> QED
  BY <1>1, FeedInvariance, PTL DEF FeedSpec, VerdictsAreKept

=============================================================================
