---------------------------- MODULE MetricsProofs ----------------------------
(***************************************************************************)
(* Proofs about S3Stats and Metrics, for buckets of any size with any      *)
(* directories, and any number of lost points and restarts.                *)
(***************************************************************************)
EXTENDS Metrics, FiniteSetTheorems, TLAPS

-----------------------------------------------------------------------------
(* Sums over finite sets *)

LEMMA PairsFinite ==
    ASSUME NEW S, IsFiniteSet(S), NEW f, \A x \in S : f[x] \in Nat
    PROVE  IsFiniteSet(Pairs(f, S)) /\ Total(f, S) \in Nat
<1> DEFINE part == [x \in S |-> {x} \X (1 .. f[x])]
           parts == {part[x] : x \in S}
<1>1. part \in Surjection(S, parts)
    BY DEF Surjection
<1>2. IsFiniteSet(parts)
    BY <1>1, FS_Surjection
<1>3. ASSUME NEW T \in parts PROVE IsFiniteSet(T)
    <2>1. PICK x \in S : T = {x} \X (1 .. f[x])
        OBVIOUS
    <2>2. IsFiniteSet({x})
        BY FS_Singleton
    <2>3. IsFiniteSet(1 .. f[x])
        BY FS_Interval
    <2> QED
        BY <2>1, <2>2, <2>3, FS_Product
<1>4. IsFiniteSet(UNION parts)
    BY <1>2, <1>3, FS_UNION
<1>5. Pairs(f, S) = UNION parts
    BY DEF Pairs
<1> QED
    BY <1>4, <1>5, FS_CardinalityType DEF Total

LEMMA TotalOfNone == ASSUME NEW f PROVE Total(f, {}) = 0
<1>1. Pairs(f, {}) = {}
    BY DEF Pairs
<1> QED
    BY <1>1, FS_EmptySet DEF Total

LEMMA TotalGrows ==
    ASSUME NEW T, IsFiniteSet(T), NEW S \in SUBSET T,
           NEW f, \A x \in T : f[x] \in Nat
    PROVE  Total(f, S) <= Total(f, T)
<1>1. Pairs(f, S) \subseteq Pairs(f, T)
    BY DEF Pairs
<1> QED
    BY <1>1, PairsFinite, FS_Subset DEF Total

(* One member more adds its number. *)
LEMMA TotalAdds ==
    ASSUME NEW S, IsFiniteSet(S), NEW f, \A y \in S : f[y] \in Nat,
           NEW x, x \notin S, f[x] \in Nat
    PROVE  Total(f, S \cup {x}) = Total(f, S) + f[x]
<1> DEFINE own == {x} \X (1 .. f[x])
<1>1. IsFiniteSet(own) /\ Cardinality(own) = f[x]
    <2>1. IsFiniteSet({x}) /\ Cardinality({x}) = 1
        BY FS_Singleton
    <2>2. IsFiniteSet(1 .. f[x]) /\ Cardinality(1 .. f[x]) = f[x]
        BY FS_Interval
    <2>3. /\ IsFiniteSet({x} \X (1 .. f[x]))
          /\ Cardinality({x} \X (1 .. f[x])) = Cardinality({x}) * Cardinality(1 .. f[x])
        BY <2>1, <2>2, FS_Product, Zenon
    <2> HIDE DEF own
    <2>4. own = {x} \X (1 .. f[x])
        BY DEF own
    <2> QED
        BY <2>1, <2>2, <2>3, <2>4
<1>2. Pairs(f, S \cup {x}) = Pairs(f, S) \cup own
    BY DEF Pairs
<1>3. Pairs(f, S) \cap own = {}
    BY DEF Pairs
<1>4. IsFiniteSet(Pairs(f, S)) /\ Cardinality(Pairs(f, S)) \in Nat
    BY PairsFinite DEF Total
<1>5. Cardinality(Pairs(f, S) \cap own) = 0
    BY <1>3, FS_EmptySet
<1>6. Cardinality(Pairs(f, S) \cup own)
          = Cardinality(Pairs(f, S)) + Cardinality(own) - Cardinality(Pairs(f, S) \cap own)
    BY <1>1, <1>4, FS_Union
<1> HIDE DEF own
<1>7. Total(f, S \cup {x}) = Cardinality(Pairs(f, S) \cup own)
    BY <1>2, Zenon DEF Total
<1>8. Total(f, S) = Cardinality(Pairs(f, S))
    BY DEF Total
<1> QED
    BY <1>1, <1>4, <1>5, <1>6, <1>7, <1>8

LEMMA TotalOfZeros ==
    ASSUME NEW S, NEW f, \A y \in S : f[y] = 0
    PROVE  Total(f, S) = 0
<1>1. Pairs(f, S) = {}
    BY DEF Pairs
<1> QED
    BY <1>1, FS_EmptySet DEF Total

(* A number that grows, with all the others as they are, adds its growth;  *)
(* without any that grows the sum is the same.                             *)
LEMMA TotalSame ==
    ASSUME NEW S, NEW f, NEW g, \A y \in S : g[y] = f[y]
    PROVE  Total(g, S) = Total(f, S)
<1>1. Pairs(g, S) = Pairs(f, S)
    BY DEF Pairs
<1> QED
    BY <1>1 DEF Total

LEMMA TotalUpdates ==
    ASSUME NEW S, IsFiniteSet(S), NEW f, NEW g,
           NEW x \in S, NEW n \in Nat, \A y \in S : f[y] \in Nat,
           g[x] = f[x] + n, \A y \in S \ {x} : g[y] = f[y]
    PROVE  Total(g, S) = Total(f, S) + n
<1> DEFINE R == S \ {x}
<1>1. IsFiniteSet(R) /\ x \notin R /\ S = R \cup {x}
    BY FS_RemoveElement
<1>2. Total(f, R \cup {x}) = Total(f, R) + f[x]
    BY <1>1, TotalAdds
<1>3. Total(g, R \cup {x}) = Total(g, R) + g[x]
    <2>1. g[x] \in Nat /\ \A y \in R : g[y] \in Nat
        OBVIOUS
    <2> QED
        BY <1>1, <2>1, TotalAdds
<1>4. Total(g, R) = Total(f, R) /\ Total(f, R) \in Nat
    BY <1>1, TotalSame, PairsFinite
<1>5. Total(f, S) = Total(f, R \cup {x}) /\ Total(g, S) = Total(g, R \cup {x})
    BY <1>1, Zenon
<1> QED
    BY <1>2, <1>3, <1>4, <1>5

-----------------------------------------------------------------------------
(* The statistics *)

LEMMA InitS3Types == S3Init => S3TypeOK
    BY KeysAssumption DEF S3Init, S3TypeOK, Zero

LEMMA NextS3Types == S3TypeOK /\ [S3Next]_s3vars => S3TypeOK'
<1> SUFFICES ASSUME S3TypeOK, [S3Next]_s3vars PROVE S3TypeOK'
    OBVIOUS
<1> USE KeysAssumption DEF S3TypeOK, Keys
<1>1. CASE BeginStats
    BY <1>1 DEF BeginStats, Zero
<1>2. CASE HasConfig \/ IsNoRepo
    BY <1>2 DEF HasConfig, IsNoRepo
<1>3. CASE IsRepo
    BY <1>3 DEF IsRepo, BeginSums
<1>4. CASE NextDir
    BY <1>4 DEF NextDir
<1>5. CASE DirsEnd
    BY <1>5 DEF DirsEnd, BeginSums
<1>6. CASE NextKey
    <2>1. cursor' \in 0 .. NumKeys
        BY <1>6 DEF NextKey
    <2>2. counts' \in [Dirs \cup {Top} -> [objects : Nat, bytes : Nat]]
        <3>1. cursor + 1 \in Keys
            BY <1>6 DEF NextKey
        <3>2. ASSUME NEW d \in Dirs \cup {Top}
              PROVE  Add(counts[d], cursor + 1) \in [objects : Nat, bytes : Nat]
            BY <3>1 DEF Add
        <3> QED
            BY <1>6, <3>2 DEF NextKey
    <2> QED
        BY <1>6, <2>1, <2>2 DEF NextKey
<1>7. CASE StatsEnd
    BY <1>7 DEF StatsEnd
<1>8. CASE StatsFail \/ TakeStats \/ S3Restart
    BY <1>8 DEF StatsFail, TakeStats, S3Restart, Forget, Zero
<1>9. ASSUME NEW k \in Keys, Put(k) \/ Delete(k) PROVE S3TypeOK'
    BY <1>9 DEF Put, Delete
<1>10. CASE UNCHANGED s3vars
    BY <1>10 DEF s3vars
<1> QED
    BY <1>1, <1>2, <1>3, <1>4, <1>5, <1>6, <1>7, <1>8, <1>9, <1>10
       DEF S3Next, StatsStep, BucketChanges

(* The members of s that a listing at c has passed. *)
UpTo(c, s) == {k \in s : k <= c}

LEMMA KeysFinite ==
    ASSUME NEW s \in SUBSET Keys, NEW d
    PROVE  /\ IsFiniteSet(In(d, s)) /\ Cardinality(In(d, s)) \in Nat
           /\ Total(SizeOf, In(d, s)) \in Nat
<1>1. IsFiniteSet(Keys)
    BY KeysAssumption, FS_Interval DEF Keys
<1>2. In(d, s) \in SUBSET Keys
    BY DEF In
<1>3. IsFiniteSet(In(d, s))
    BY <1>1, <1>2, FS_Subset
<1>4. \A k \in In(d, s) : SizeOf[k] \in Nat
    BY <1>2, KeysAssumption
<1> QED
    BY <1>3, <1>4, FS_CardinalityType, PairsFinite

LEMMA KeysGrow ==
    ASSUME NEW t \in SUBSET Keys, NEW s \in SUBSET t, NEW d
    PROVE  /\ Cardinality(In(d, s)) <= Cardinality(In(d, t))
           /\ Total(SizeOf, In(d, s)) <= Total(SizeOf, In(d, t))
<1>1. IsFiniteSet(In(d, t)) /\ In(d, s) \in SUBSET In(d, t)
    BY KeysFinite DEF In
<1>2. \A k \in In(d, t) : SizeOf[k] \in Nat
    BY KeysAssumption DEF In
<1> QED
    BY <1>1, <1>2, FS_Subset, TotalGrows

(* What the next key adds. *)
LEMMA KeyPassed ==
    ASSUME NEW s \in SUBSET Keys, NEW d, NEW c \in Nat, c + 1 \in Keys
    PROVE  IF c + 1 \in s /\ (d = Top \/ DirOf[c + 1] = d)
           THEN /\ Cardinality(In(d, UpTo(c + 1, s))) = Cardinality(In(d, UpTo(c, s))) + 1
                /\ Total(SizeOf, In(d, UpTo(c + 1, s)))
                      = Total(SizeOf, In(d, UpTo(c, s))) + SizeOf[c + 1]
           ELSE In(d, UpTo(c + 1, s)) = In(d, UpTo(c, s))
<1>0. \A k \in s : k \in Nat /\ (k <= c + 1 <=> k <= c \/ k = c + 1)
    BY KeysAssumption DEF Keys
<1>1. CASE c + 1 \in s /\ (d = Top \/ DirOf[c + 1] = d)
    <2>1. In(d, UpTo(c + 1, s)) = In(d, UpTo(c, s)) \cup {c + 1}
        BY <1>0, <1>1 DEF In, UpTo
    <2>2. IsFiniteSet(In(d, UpTo(c, s)))
        BY KeysFinite DEF UpTo
    <2>3. c + 1 \notin In(d, UpTo(c, s))
        BY DEF In, UpTo
    <2>4. \A k \in In(d, UpTo(c, s)) : SizeOf[k] \in Nat
        BY KeysAssumption DEF In, UpTo
    <2>5. SizeOf[c + 1] \in Nat
        BY KeysAssumption
    <2>6. Total(SizeOf, In(d, UpTo(c, s)) \cup {c + 1})
            = Total(SizeOf, In(d, UpTo(c, s))) + SizeOf[c + 1]
        BY <2>2, <2>3, <2>4, <2>5, TotalAdds
    <2>7. Cardinality(In(d, UpTo(c, s)) \cup {c + 1}) = Cardinality(In(d, UpTo(c, s))) + 1
        BY <2>2, <2>3, FS_AddElement
    <2> QED
        BY <1>1, <2>1, <2>6, <2>7, Zenon
<1>2. CASE ~(c + 1 \in s /\ (d = Top \/ DirOf[c + 1] = d))
    <2>1. In(d, UpTo(c + 1, s)) = In(d, UpTo(c, s))
        BY <1>0, <1>2 DEF In, UpTo
    <2> QED
        BY <1>2, <2>1
<1> QED
    BY <1>1, <1>2

(* While the listing goes on, the numbers are between those of what it has *)
(* passed and was there all the time, and of what was there at some time;  *)
(* a path never has more than the bucket.                                  *)
Counted(d) ==
    /\ counts[d].objects >= Cardinality(In(d, UpTo(cursor, stable)))
    /\ counts[d].objects <= Cardinality(In(d, UpTo(cursor, ever)))
    /\ counts[d].bytes >= Total(SizeOf, In(d, UpTo(cursor, stable)))
    /\ counts[d].bytes <= Total(SizeOf, In(d, UpTo(cursor, ever)))

Shared ==
    /\ Total([d \in paths |-> counts[d].objects], paths) <= counts[Top].objects
    /\ Total([d \in paths |-> counts[d].bytes], paths) <= counts[Top].bytes

SumInv ==
    /\ at \in {"config", "keys", "dirs"} => cursor = 0 /\ counts = Zero
    /\ at = "done" => cursor = NumKeys
    /\ at \in {"sum", "done"} => Shared /\ \A d \in paths \cup {Top} : Counted(d)

LEMMA SumsBegin ==
    ASSUME S3TypeOK, SumInv, at \in {"keys", "dirs"}, BeginSums, paths' = paths
    PROVE  SumInv'
<1> USE KeysAssumption DEF S3TypeOK
<1>1. at' = "sum" /\ cursor' = 0 /\ counts' = Zero /\ stable' = bucket /\ ever' = bucket
    BY DEF BeginSums, SumInv
<1>2. UpTo(0, bucket) = {}
    <2>1. \A k \in bucket : k \in Nat /\ ~(k <= 0)
        BY DEF Keys
    <2> QED
        BY <2>1 DEF UpTo
<1>3. ASSUME NEW d \in paths \cup {Top} PROVE Counted(d)'
    <2>1. In(d, UpTo(0, bucket)) = {}
        BY <1>2 DEF In
    <2>2. /\ Cardinality(In(d, UpTo(0, bucket))) = 0
          /\ Total(SizeOf, In(d, UpTo(0, bucket))) = 0
        BY <2>1, TotalOfNone, FS_EmptySet
    <2>3. Zero[d].objects = 0 /\ Zero[d].bytes = 0
        BY DEF Zero
    <2> QED
        BY <1>1, <2>2, <2>3 DEF Counted
<1>4. Shared'
    <2>1. \A d \in paths \cup {Top} : Zero[d].objects = 0 /\ Zero[d].bytes = 0
        BY DEF Zero
    <2>2. Total([d \in paths |-> Zero[d].objects], paths) = 0
        BY <2>1, TotalOfZeros
    <2>3. Total([d \in paths |-> Zero[d].bytes], paths) = 0
        BY <2>1, TotalOfZeros
    <2> QED
        BY <1>1, <2>1, <2>2, <2>3 DEF Shared
<1> QED
    BY <1>1, <1>3, <1>4 DEF SumInv

(* NextKey keeps the numbers of the bucket and of a path.                  *)
LEMMA CountedGrows ==
    ASSUME S3TypeOK, NextKey, NEW d \in paths \cup {Top}, Counted(d)
    PROVE  Counted(d)'
<1> DEFINE k == cursor + 1
           here == d = Top \/ DirOf[k] = d
<1> USE KeysAssumption DEF S3TypeOK
<1>1. /\ cursor \in Nat /\ k \in Keys /\ SizeOf[k] \in Nat
      /\ stable \subseteq bucket /\ bucket \subseteq ever
      /\ stable \in SUBSET Keys /\ ever \in SUBSET Keys
    BY DEF NextKey, Keys
<1>2. /\ cursor' = k /\ stable' = stable /\ ever' = ever
      /\ counts[d] \in [objects : Nat, bytes : Nat]
      /\ counts'[d] = IF k \in bucket /\ here THEN Add(counts[d], k) ELSE counts[d]
    BY DEF NextKey
<1>3. /\ UpTo(cursor, stable) \in SUBSET Keys /\ UpTo(cursor, ever) \in SUBSET Keys
    BY <1>1 DEF UpTo
<1>4. /\ Cardinality(In(d, UpTo(cursor, stable))) \in Nat
      /\ Cardinality(In(d, UpTo(cursor, ever))) \in Nat
      /\ Total(SizeOf, In(d, UpTo(cursor, stable))) \in Nat
      /\ Total(SizeOf, In(d, UpTo(cursor, ever))) \in Nat
    BY <1>3, KeysFinite
<1>5. IF k \in stable /\ here
      THEN /\ Cardinality(In(d, UpTo(k, stable))) = Cardinality(In(d, UpTo(cursor, stable))) + 1
           /\ Total(SizeOf, In(d, UpTo(k, stable)))
                  = Total(SizeOf, In(d, UpTo(cursor, stable))) + SizeOf[k]
      ELSE In(d, UpTo(k, stable)) = In(d, UpTo(cursor, stable))
    BY <1>1, KeyPassed
<1>6. IF k \in ever /\ here
      THEN /\ Cardinality(In(d, UpTo(k, ever))) = Cardinality(In(d, UpTo(cursor, ever))) + 1
           /\ Total(SizeOf, In(d, UpTo(k, ever)))
                  = Total(SizeOf, In(d, UpTo(cursor, ever))) + SizeOf[k]
      ELSE In(d, UpTo(k, ever)) = In(d, UpTo(cursor, ever))
    BY <1>1, KeyPassed
<1>7. CASE k \in bucket /\ here
    BY <1>1, <1>2, <1>4, <1>5, <1>6, <1>7 DEF Counted, Add
<1>8. CASE ~(k \in bucket /\ here)
    BY <1>1, <1>2, <1>4, <1>5, <1>6, <1>8 DEF Counted
<1> QED
    BY <1>7, <1>8

(* What a key adds to one of the paths it adds to the bucket as well.      *)
LEMMA SharedGrows ==
    ASSUME S3TypeOK, NextKey, Shared
    PROVE  Shared'
<1> DEFINE k == cursor + 1
           d == DirOf[k]
           objects == [x \in paths |-> counts[x].objects]
           bytes == [x \in paths |-> counts[x].bytes]
           objects2 == [x \in paths |-> counts'[x].objects]
           bytes2 == [x \in paths |-> counts'[x].bytes]
<1> USE KeysAssumption DEF S3TypeOK
<1>1. k \in Keys /\ SizeOf[k] \in Nat /\ paths' = paths /\ paths \subseteq Dirs /\ Top \notin paths
    BY DEF NextKey, Keys
<1>2. IsFiniteSet(paths)
    BY <1>1, FS_Subset
<1>3. \A x \in paths \cup {Top} : counts[x].objects \in Nat /\ counts[x].bytes \in Nat
    OBVIOUS
<1>4. \A x \in paths \cup {Top} :
          /\ counts'[x].objects = counts[x].objects
                + IF k \in bucket /\ (x = Top \/ x = d) THEN 1 ELSE 0
          /\ counts'[x].bytes = counts[x].bytes
                + IF k \in bucket /\ (x = Top \/ x = d) THEN SizeOf[k] ELSE 0
    BY <1>1, <1>3 DEF NextKey, Add
<1>5. Total(objects, paths) \in Nat /\ Total(bytes, paths) \in Nat
    BY <1>2, <1>3, PairsFinite
<1>6. CASE k \in bucket /\ d \in paths
    <2>1. Total(objects2, paths) = Total(objects, paths) + 1
        <3> DEFINE one == 1
        <3>1. /\ d \in paths /\ \A y \in paths : objects[y] \in Nat
              /\ objects2[d] = objects[d] + one /\ one \in Nat
              /\ \A y \in paths \ {d} : objects2[y] = objects[y]
            BY <1>1, <1>3, <1>4, <1>6
        <3> HIDE DEF objects, objects2, d, one
        <3>2. Total(objects2, paths) = Total(objects, paths) + one
            BY ONLY <1>2, <3>1, TotalUpdates
        <3> QED
            BY <3>2 DEF one
    <2>2. Total(bytes2, paths) = Total(bytes, paths) + SizeOf[k]
        <3>1. /\ d \in paths /\ \A y \in paths : bytes[y] \in Nat
              /\ bytes2[d] = bytes[d] + SizeOf[k]
              /\ \A y \in paths \ {d} : bytes2[y] = bytes[y]
            BY <1>1, <1>3, <1>4, <1>6
        <3> HIDE DEF bytes, bytes2, d, k
        <3> QED
            BY ONLY <1>1, <1>2, <3>1, TotalUpdates
    <2> QED
        BY <1>1, <1>3, <1>4, <1>5, <1>6, <2>1, <2>2 DEF Shared
<1>7. CASE ~(k \in bucket /\ d \in paths)
    <2>1. \A y \in paths : objects2[y] = objects[y] /\ bytes2[y] = bytes[y]
        BY <1>1, <1>3, <1>4, <1>7
    <2>2. Total(objects2, paths) = Total(objects, paths) /\ Total(bytes2, paths) = Total(bytes, paths)
        <3> HIDE DEF objects, objects2, bytes, bytes2
        <3> QED
            BY <2>1, TotalSame
    <2> QED
        BY <1>1, <1>3, <1>4, <1>5, <2>2 DEF Shared
<1> QED
    BY <1>6, <1>7

LEMMA InitSums == S3Init => SumInv
    BY DEF S3Init, SumInv

LEMMA NextSums == S3TypeOK /\ SumInv /\ [S3Next]_s3vars => SumInv'
<1> SUFFICES ASSUME S3TypeOK, SumInv, [S3Next]_s3vars PROVE SumInv'
    OBVIOUS
<1> USE KeysAssumption DEF S3TypeOK
<1>1. CASE BeginStats
    BY <1>1 DEF BeginStats, SumInv
<1>2. CASE HasConfig \/ IsNoRepo \/ NextDir
    BY <1>2 DEF HasConfig, IsNoRepo, NextDir, SumInv
<1>3. CASE IsRepo
    BY <1>3, SumsBegin DEF IsRepo, SumInv
<1>4. CASE DirsEnd
    BY <1>4, SumsBegin DEF DirsEnd
<1>5. CASE NextKey
    <2>1. at = "sum" /\ at' = at /\ paths' = paths
        BY <1>5 DEF NextKey
    <2>2. Shared' /\ \A d \in paths \cup {Top} : Counted(d)'
        BY <1>5, <2>1, CountedGrows, SharedGrows DEF SumInv
    <2> QED
        BY <2>1, <2>2 DEF SumInv
<1>6. CASE StatsEnd
    BY <1>6 DEF StatsEnd, SumInv, Counted, Shared
<1>7. CASE StatsFail \/ TakeStats \/ S3Restart
    BY <1>7 DEF StatsFail, TakeStats, S3Restart, Forget, SumInv
<1>8. ASSUME NEW k \in Keys, Put(k) \/ Delete(k) PROVE SumInv'
    <2>1. at' = at /\ at # "done" /\ cursor' = cursor /\ counts' = counts /\ paths' = paths
        BY <1>8 DEF Put, Delete
    <2>2. ASSUME at = "sum", NEW d \in paths \cup {Top} PROVE Counted(d)'
        <3>1. /\ UpTo(cursor, ever') \in SUBSET Keys /\ UpTo(cursor, stable) \in SUBSET Keys
              /\ UpTo(cursor, ever) \in SUBSET UpTo(cursor, ever')
              /\ UpTo(cursor, stable') \in SUBSET UpTo(cursor, stable)
            BY <1>8, <2>2 DEF Put, Delete, UpTo
        <3>2. /\ Cardinality(In(d, UpTo(cursor, ever))) <= Cardinality(In(d, UpTo(cursor, ever')))
              /\ Total(SizeOf, In(d, UpTo(cursor, ever))) <= Total(SizeOf, In(d, UpTo(cursor, ever')))
            BY <3>1, KeysGrow
        <3>3. /\ Cardinality(In(d, UpTo(cursor, stable'))) <= Cardinality(In(d, UpTo(cursor, stable)))
              /\ Total(SizeOf, In(d, UpTo(cursor, stable')))
                    <= Total(SizeOf, In(d, UpTo(cursor, stable)))
            BY <3>1, KeysGrow
        <3>4. /\ UpTo(cursor, stable') \in SUBSET Keys /\ UpTo(cursor, ever) \in SUBSET Keys
            BY <3>1
        <3>5. \A s \in SUBSET Keys : Cardinality(In(d, s)) \in Nat /\ Total(SizeOf, In(d, s)) \in Nat
            BY KeysFinite
        <3>6. counts[d].objects \in Nat /\ counts[d].bytes \in Nat
            OBVIOUS
        <3>7. Counted(d)
            BY <2>2 DEF SumInv
        <3> QED
            BY <2>1, <3>1, <3>2, <3>3, <3>4, <3>5, <3>6, <3>7 DEF Counted
    <2> QED
        BY <2>1, <2>2 DEF SumInv, Shared
<1>9. CASE UNCHANGED s3vars
    BY <1>9 DEF s3vars, SumInv, Counted, Shared
<1> QED
    BY <1>1, <1>2, <1>3, <1>4, <1>5, <1>6, <1>7, <1>8, <1>9
       DEF S3Next, StatsStep, BucketChanges

LEMMA S3Invariant == S3Spec => [](S3TypeOK /\ SumInv)
    BY InitS3Types, NextS3Types, InitSums, NextSums, PTL DEF S3Spec

(* For any bucket, however others use it during the listing, a call that   *)
(* succeeds counts what was there all the time, nothing twice and nothing  *)
(* that never was there.                                                   *)
THEOREM Sums == S3Spec => []SumsAreBounded
<1>1. ASSUME S3TypeOK, SumInv, at = "done" PROVE SumsAreBounded
    <2>1. UpTo(cursor, stable) = stable /\ UpTo(cursor, ever) = ever
        <3>1. cursor = NumKeys /\ stable \subseteq ever /\ ever \subseteq Keys
            BY <1>1 DEF SumInv, S3TypeOK
        <3>2. \A k \in ever : k <= cursor
            BY <3>1 DEF Keys
        <3> QED
            BY <3>1, <3>2 DEF UpTo
    <2> QED
        BY <1>1, <2>1 DEF SumInv, SumsAreBounded, Counted, Shared
<1>2. S3TypeOK /\ SumInv => SumsAreBounded
    BY <1>1 DEF SumsAreBounded
<1> QED
    BY <1>2, S3Invariant, PTL

-----------------------------------------------------------------------------
(* The run that calls them *)

(* A run uses the statistics as their specification says.                  *)
LEMMA RunMaps == MetricsNext => [S3Next]_s3vars
<1>1. ASSUME SetGauge \/ Publish \/ BeginRun \/ NextPhase \/ PhaseFails \/ PhasePanics \/ Report
      PROVE  UNCHANGED s3vars
    BY <1>1 DEF SetGauge, Publish, BeginRun, NextPhase, BeginPhase, PhaseFails, PhasePanics, Report
<1>2. ASSUME Call \/ PhaseSucceeds PROVE [S3Next]_s3vars
    BY <1>2 DEF Call, PhaseSucceeds, S3Next
<1>3. ASSUME Collect PROVE S3Next
    BY <1>3 DEF Collect, S3Next
<1>4. ASSUME Restart PROVE S3Next
    BY <1>4 DEF Restart, S3Next
<1> QED
    BY <1>1, <1>2, <1>3, <1>4 DEF MetricsNext, S3Next

THEOREM MetricsImplementsS3Stats == MetricsSpec => S3Spec
<1>1. MetricsInit => S3Init
    BY DEF MetricsInit
<1>2. [MetricsNext]_metricsVars => [S3Next]_s3vars
    BY RunMaps DEF metricsVars, s3vars
<1> QED
    BY <1>1, <1>2, PTL DEF MetricsSpec, S3Spec

(* The sums are right whatever the run that asks for them does.            *)
THEOREM SumsOfRun == MetricsSpec => []SumsAreBounded
    BY MetricsImplementsS3Stats, Sums, PTL

-----------------------------------------------------------------------------
(* The queue of Apply *)

Running(v) == Pair("running", [PhaseRunning |-> v], TRUE)
Overall(v) == Pair("overall", Status("overall", 0, v), TRUE)
Begun == Pair(phase, Status(phase, 1, 0), FALSE)
Failed == Pair(phase, Status(phase, 0, 0), TRUE)
Succeeded == Pair(phase, Status(phase, 0, phaseToCode[phase]), TRUE)
Collected == Pair("s3", Stats(counts[Top]), TRUE)

(* What Apply has left of one pair or of two.                              *)
One(a) == {<<a>>, <<>>}
Two(a, b) == {<<a, b>>, <<b>>, <<>>}

QueueInv ==
    /\ step = "idle" => \E v \in {0, phaseToCode["overall"]} : queue \in Two(Running(0), Overall(v))
    /\ step = "begin" => queue \in Two(Begun, Running(phaseToCode[phase]))
    /\ step = "work" => queue = <<>>
    /\ step = "failed" => queue \in One(Failed)
    /\ step = "succeeded" /\ phase = "backup" => queue \in One(Succeeded)
    /\ step = "succeeded" /\ phase = "s3stats" => at = "taken" /\ queue \in Two(Succeeded, Collected)

(* Pairs as Apply gets them.                                               *)
Pairable ==
    {p \in [series : Series, datum : UNION {DataOf(s) : s \in Series}, publish : BOOLEAN] :
        p.datum \in DataOf(p.series)}

LEMMA PairsAreTyped ==
    ASSUME S3TypeOK, phase \in {"backup", "s3stats"}
    PROVE  /\ \A v \in {0, phaseToCode[phase]} : Running(v) \in Pairable
           /\ \A v \in {0, phaseToCode["overall"]} : Overall(v) \in Pairable
           /\ Begun \in Pairable /\ Failed \in Pairable /\ Succeeded \in Pairable
           /\ Collected \in Pairable
<1>1. ASSUME NEW s \in Series, NEW x \in DataOf(s), NEW b \in BOOLEAN
      PROVE  Pair(s, x, b) \in Pairable
    BY <1>1, Zenon DEF Pair, Pairable
<1>2. phaseToCode[phase] \in Nat /\ phaseToCode["overall"] \in Nat
    BY DEF phaseToCode
<1>3. /\ "running" \in Series /\ "overall" \in Series /\ "s3" \in Series /\ phase \in Series
    BY DEF Series, StatusSeries
<1>4. \A v \in Nat : [PhaseRunning |-> v] \in DataOf("running")
    BY DEF DataOf, StatusSeries
<1>5. \A s \in StatusSeries : \A u, v \in Nat : Status(s, u, v) \in DataOf(s)
    BY DEF DataOf, Status
<1>6. Stats(counts[Top]) \in DataOf("s3")
    BY DEF DataOf, StatusSeries, Stats, S3TypeOK
<1>7. "overall" \in StatusSeries /\ phase \in StatusSeries
    BY DEF StatusSeries
<1> QED
    BY <1>1, <1>2, <1>3, <1>4, <1>5, <1>6, <1>7
       DEF Running, Overall, Begun, Failed, Succeeded, Collected

RunInv ==
    /\ S3TypeOK
    /\ step \in {"idle", "begin", "work", "succeeded", "failed"}
    /\ phase \in {"backup", "s3stats"}
    /\ QueueInv

LEMMA QueueForm ==
    ASSUME RunInv
    PROVE  \/ queue = <<>>
           \/ \E a \in Pairable : queue = <<a>>
           \/ \E a, b \in Pairable : queue = <<a, b>>
<1>1. CASE step = "idle"
    <2>1. PICK v \in {0, phaseToCode["overall"]} : queue \in Two(Running(0), Overall(v))
        BY <1>1 DEF RunInv, QueueInv
    <2>2. Running(0) \in Pairable /\ Overall(v) \in Pairable
        BY PairsAreTyped DEF RunInv
    <2> QED
        BY <2>1, <2>2, Zenon DEF Two
<1>2. CASE step = "begin"
    <2>1. Running(phaseToCode[phase]) \in Pairable /\ Begun \in Pairable
        BY PairsAreTyped DEF RunInv
    <2> QED
        BY <1>2, <2>1, Zenon DEF RunInv, QueueInv, Two
<1>3. CASE step = "work"
    BY <1>3 DEF RunInv, QueueInv
<1>4. CASE step = "failed"
    <2>1. Failed \in Pairable
        BY PairsAreTyped DEF RunInv
    <2> QED
        BY <1>4, <2>1, Zenon DEF RunInv, QueueInv, One
<1>5. CASE step = "succeeded"
    <2>1. Succeeded \in Pairable /\ Collected \in Pairable
        BY PairsAreTyped DEF RunInv
    <2>2. queue \in One(Succeeded) \/ queue \in Two(Succeeded, Collected)
        BY <1>5 DEF RunInv, QueueInv
    <2> QED
        BY <2>1, <2>2, Zenon DEF One, Two
<1> QED
    BY <1>1, <1>2, <1>3, <1>4, <1>5 DEF RunInv

LEMMA InitRun == MetricsInit => RunInv
    BY InitS3Types DEF MetricsInit, RunInv, QueueInv, Two

(* Publish takes the first pair away.                                      *)
LEMMA Tails ==
    ASSUME NEW a, NEW b
    PROVE  Tail(<<a>>) = <<>> /\ Tail(<<a, b>>) = <<b>> /\ <<a>> \o <<b>> = <<a, b>>
<1> DEFINE q == <<a>> \o <<b>>
<1>1. Tail(<<a>>) = <<>> /\ Tail(<<a, b>>) = <<b>>
    OBVIOUS
<1>2. <<a>> \in Seq({a, b}) /\ <<b>> \in Seq({a, b}) /\ Len(<<a>>) = 1 /\ Len(<<b>>) = 1
    OBVIOUS
<1>3. q \in Seq({a, b}) /\ Len(q) = 2 /\ q[1] = a /\ q[2] = b
    BY <1>2
<1> HIDE DEF q
<1>4. q = <<a, b>>
    BY <1>3
<1> QED
    BY <1>1, <1>4 DEF q

LEMMA TailsOfOne == ASSUME NEW a, NEW q \in One(a), q # <<>> PROVE Tail(q) \in One(a)
    BY Tails, Zenon DEF One
LEMMA TailsOfTwo == ASSUME NEW a, NEW b, NEW q \in Two(a, b), q # <<>> PROVE Tail(q) \in Two(a, b)
    BY Tails, Zenon DEF Two

LEMMA NextRun == RunInv /\ [MetricsNext]_metricsVars => RunInv'
<1> SUFFICES ASSUME RunInv, [MetricsNext]_metricsVars PROVE RunInv'
    OBVIOUS
<1>1. S3TypeOK'
    <2>1. [S3Next]_s3vars
        BY RunMaps DEF metricsVars, s3vars
    <2> QED
        BY <2>1, NextS3Types DEF RunInv
<1> USE DEF RunInv
<1>2. CASE SetGauge
    <2>1. UNCHANGED <<s3vars, step, phase, queue>>
        BY <1>2 DEF SetGauge
    <2> QED
        BY <1>1, <2>1 DEF QueueInv, Begun, Failed, Succeeded, Collected, s3vars
<1>3. CASE Publish
    <2>1. UNCHANGED <<s3vars, step, phase>> /\ queue # <<>> /\ queue' = Tail(queue)
        BY <1>3 DEF Publish
    <2>2. /\ Begun' = Begun /\ Failed' = Failed /\ Succeeded' = Succeeded /\ Collected' = Collected
        BY <2>1 DEF Begun, Failed, Succeeded, Collected, s3vars
    <2>3. at' = at
        BY <2>1 DEF s3vars
    <2> QED
        BY <1>1, <2>1, <2>2, <2>3, TailsOfOne, TailsOfTwo DEF QueueInv
<1>4. CASE BeginRun \/ NextPhase
    <2>1. step' = "begin" /\ phase' \in {"backup", "s3stats"} /\ queue' = <<Begun', Running(phaseToCode[phase'])>>
        BY <1>4 DEF BeginRun, NextPhase, BeginPhase, Apply, Begun, Running
    <2> QED
        BY <1>1, <2>1 DEF QueueInv, Two
<1>5. CASE Call
    BY <1>1, <1>5 DEF Call, QueueInv
<1>6. CASE Collect
    BY <1>1, <1>6 DEF Collect, runVars, QueueInv
<1>7. CASE PhaseFails
    <2>1. step' = "failed" /\ phase' = phase /\ queue' = <<Failed'>>
        BY <1>7 DEF PhaseFails, Apply, Failed
    <2> QED
        BY <1>1, <2>1 DEF QueueInv, One
<1>13. CASE PhasePanics
    <2>1. step' = "idle" /\ phase' = phase /\ queue' = <<>>
        BY <1>13 DEF PhasePanics, QueueInv
    <2> QED
        BY <1>1, <2>1 DEF QueueInv, Two
<1>8. CASE PhaseSucceeds
    <2>1. CASE phase = "s3stats"
        <3>1. counts' = counts /\ at' = "taken" /\ phase' = phase /\ step' = "succeeded"
            BY <1>8, <2>1 DEF PhaseSucceeds, TakeStats, Apply
        <3>2. queue' = <<Succeeded>> \o <<Collected>>
            BY <1>8, <2>1 DEF PhaseSucceeds, Apply, Succeeded, Collected
        <3>3. queue' = <<Succeeded', Collected'>>
            BY <3>1, <3>2, Tails, Zenon DEF Succeeded, Collected
        <3> QED
            BY <1>1, <2>1, <3>1, <3>3 DEF QueueInv, Two
    <2>2. CASE phase = "backup"
        <3>1. phase' = phase /\ step' = "succeeded" /\ queue' = <<Succeeded>> \o <<>>
            BY <1>8, <2>2 DEF PhaseSucceeds, Apply, Succeeded
        <3>2. queue' = <<Succeeded'>>
            BY <3>1 DEF Succeeded
        <3> QED
            BY <1>1, <2>2, <3>1, <3>2 DEF QueueInv, One
    <2> QED
        BY <2>1, <2>2
<1>9. CASE Report
    <2>1. PICK v \in {0, phaseToCode["overall"]} : queue' = <<Running(0), Overall(v)>>
        BY <1>9 DEF Report, Apply, Running, Overall
    <2>2. step' = "idle" /\ phase' = phase
        BY <1>9 DEF Report, Apply
    <2> QED
        BY <1>1, <2>1, <2>2 DEF QueueInv, Two
<1>10. CASE Restart
    BY <1>1, <1>10 DEF Restart, QueueInv, Two
<1>11. CASE BucketChanges /\ UNCHANGED runVars
    <2>1. at' = at /\ counts' = counts
        BY <1>11 DEF BucketChanges, Put, Delete
    <2> QED
        BY <1>1, <1>11, <2>1 DEF runVars, QueueInv, Begun, Failed, Succeeded, Collected
<1>12. CASE UNCHANGED metricsVars
    BY <1>1, <1>12 DEF metricsVars, runVars, s3vars, QueueInv, Begun, Failed, Succeeded, Collected
<1> QED
    BY <1>2, <1>3, <1>4, <1>5, <1>6, <1>7, <1>8, <1>9, <1>10, <1>11, <1>12, <1>13
       DEF MetricsNext

-----------------------------------------------------------------------------
(* The gauges *)

(* The first pair, and what is pending without it.                         *)
LEMMA FirstPair ==
    ASSUME RunInv, queue # <<>>
    PROVE  /\ Head(queue) \in Pairable /\ Len(queue) \in 1 .. 2
           /\ \A i \in 1 .. Len(queue) : queue[i] \in Pairable
           /\ \A s : Pending(s) <=>
                  \/ s = Head(queue).series
                  \/ \E i \in 1 .. Len(Tail(queue)) : Tail(queue)[i].series = s
<1>1. CASE \E a \in Pairable : queue = <<a>>
    <2>1. PICK a \in Pairable : queue = <<a>>
        BY <1>1
    <2>2. Tail(queue) = <<>> /\ Head(queue) = a /\ Len(queue) = 1 /\ queue[1] = a
        BY <2>1, Tails
    <2>3. Len(Tail(queue)) = 0 /\ \A i \in 1 .. 1 : i = 1
        BY <2>2
    <2>4. \A s : Pending(s) <=> queue[1].series = s
        BY <2>2, <2>3 DEF Pending
    <2>5. \A s : ~\E i \in 1 .. Len(Tail(queue)) : Tail(queue)[i].series = s
        <3>1. \A i \in 1 .. 0 : FALSE
            OBVIOUS
        <3> QED
            BY <2>3, <3>1, Zenon
    <2>6. \A i \in 1 .. Len(queue) : queue[i] \in Pairable
        BY <2>1, <2>2, <2>3
    <2>7. Head(queue) \in Pairable /\ Len(queue) \in 1 .. 2 /\ Head(queue) = queue[1]
        BY <2>1, <2>2
    <2> QED
        BY <2>4, <2>5, <2>6, <2>7
<1>2. CASE \E a, b \in Pairable : queue = <<a, b>>
    <2>1. PICK a \in Pairable, b \in Pairable : queue = <<a, b>>
        BY <1>2
    <2>2. /\ Head(queue) = a /\ Len(queue) = 2 /\ queue[1] = a /\ queue[2] = b
          /\ Len(Tail(queue)) = 1 /\ Tail(queue)[1] = b
        BY <2>1, Tails
    <2>3. (\A i \in 1 .. 1 : i = 1) /\ (\A i \in 1 .. 2 : i = 1 \/ i = 2)
        OBVIOUS
    <2>4. \A s : Pending(s) <=> queue[1].series = s \/ queue[2].series = s
        BY <2>2, <2>3 DEF Pending
    <2>5. \A s : (\E i \in 1 .. Len(Tail(queue)) : Tail(queue)[i].series = s) <=> b.series = s
        <3> DEFINE q == Tail(queue)
        <3>1. Len(q) = 1 /\ q[1] = b
            BY <2>2
        <3> HIDE DEF q
        <3>2. \A s : (\E i \in 1 .. Len(q) : q[i].series = s) <=> q[1].series = s
            BY <2>3, <3>1
        <3> QED
            BY <3>1, <3>2 DEF q
    <2>6. \A i \in 1 .. Len(queue) : queue[i] \in Pairable
        BY <2>1, <2>2, <2>3
    <2> QED
        BY <2>1, <2>2, <2>4, <2>5, <2>6
<1> QED
    BY <1>1, <1>2, QueueForm

LEMMA NothingPending == ASSUME queue = <<>>, NEW s PROVE ~Pending(s)
    BY DEF Pending

(* The gauges that are set have the numbers of the first pair.             *)
GaugeInv ==
    /\ DOMAIN gauges = Series /\ \A s \in Series : gauges[s] \in DataOf(s)
    /\ DOMAIN points = Series
    /\ queue = <<>> => set = {}
    /\ queue # <<>> => set \subseteq DOMAIN Head(queue).datum
    /\ queue # <<>> => \A f \in set : gauges[Head(queue).series][f] = Head(queue).datum[f]

LEMMA SetGaugeKeeps ==
    ASSUME RunInv, GaugeInv, SetGauge
    PROVE  /\ GaugeInv'
           /\ \A s \in Series : ~Pending(s) => gauges'[s] = gauges[s]
<1> DEFINE p == Head(queue)
<1>1. queue # <<>> /\ p \in Pairable
    BY FirstPair DEF SetGauge
<1>2. p.series \in Series /\ p.datum \in DataOf(p.series)
    BY <1>1 DEF Pairable
<1>3. PICK f \in DOMAIN p.datum \ set :
          set' = set \cup {f} /\ gauges' = [gauges EXCEPT ![p.series][f] = p.datum[f]]
    BY DEF SetGauge
<1>4. UNCHANGED <<queue, points>>
    BY DEF SetGauge
<1> HIDE DEF p
<1>5. ASSUME NEW g \in DataOf(p.series)
      PROVE  /\ [g EXCEPT ![f] = p.datum[f]] \in DataOf(p.series)
             /\ [g EXCEPT ![f] = p.datum[f]][f] = p.datum[f]
             /\ \A h \in DOMAIN p.datum \ {f} : [g EXCEPT ![f] = p.datum[f]][h] = g[h]
             /\ DOMAIN g = DOMAIN p.datum
    BY <1>2, <1>3, <1>5 DEF DataOf
<1>6. /\ DOMAIN gauges' = Series
      /\ gauges'[p.series] = [gauges[p.series] EXCEPT ![f] = p.datum[f]]
      /\ \A s \in Series \ {p.series} : gauges'[s] = gauges[s]
    BY <1>2, <1>3 DEF GaugeInv
<1>7. Pending(p.series)
    BY <1>1, FirstPair DEF p
<1>8. set \subseteq DOMAIN p.datum /\ \A h \in set : gauges[p.series][h] = p.datum[h]
    BY <1>1 DEF GaugeInv, p
<1>9. \A s \in Series : gauges'[s] \in DataOf(s)
    BY <1>2, <1>5, <1>6 DEF GaugeInv
<1>10. \A h \in set' : gauges'[p.series][h] = p.datum[h]
    BY <1>2, <1>3, <1>5, <1>6, <1>8 DEF GaugeInv
<1>11. p' = p /\ queue' # <<>> /\ set' \subseteq DOMAIN p.datum
    BY <1>1, <1>3, <1>4, <1>8 DEF p
<1>12. GaugeInv'
    BY <1>4, <1>6, <1>9, <1>10, <1>11 DEF GaugeInv, p
<1> QED
    BY <1>6, <1>7, <1>12

(* When a pair is done, the gauges of its series are its datum.            *)
LEMMA PairIsSet ==
    ASSUME RunInv, GaugeInv, Publish
    PROVE  gauges[Head(queue).series] = Head(queue).datum
<1> DEFINE p == Head(queue)
<1>1. queue # <<>> /\ p \in Pairable /\ set = DOMAIN p.datum
    BY FirstPair DEF Publish
<1>2. /\ p.series \in Series /\ p.datum \in DataOf(p.series)
      /\ \A f \in DOMAIN p.datum : gauges[p.series][f] = p.datum[f]
      /\ gauges[p.series] \in DataOf(p.series)
    BY <1>1 DEF GaugeInv, Pairable
<1> HIDE DEF p
<1>3. ASSUME NEW s, NEW g \in DataOf(s), NEW h \in DataOf(s), \A f \in DOMAIN h : g[f] = h[f]
      PROVE  g = h
    <2>1. CASE s \in StatusSeries
        <3>1. g \in [InProgress : Nat, Successful : Nat] /\ h \in [InProgress : Nat, Successful : Nat]
            BY <2>1 DEF DataOf
        <3>2. "InProgress" \in DOMAIN h /\ "Successful" \in DOMAIN h
            BY <3>1
        <3>3. g.InProgress = h.InProgress /\ g.Successful = h.Successful
            BY <1>3, <3>2
        <3> QED
            BY <3>1, <3>3
    <2>2. CASE s \notin StatusSeries /\ s = "s3"
        <3>1. g \in [Objects : Nat, BucketSize : Nat] /\ h \in [Objects : Nat, BucketSize : Nat]
            BY <2>2 DEF DataOf
        <3>2. "Objects" \in DOMAIN h /\ "BucketSize" \in DOMAIN h
            BY <3>1
        <3>3. g.Objects = h.Objects /\ g.BucketSize = h.BucketSize
            BY <1>3, <3>2
        <3> QED
            BY <3>1, <3>3
    <2>3. CASE s \notin StatusSeries /\ s # "s3"
        <3>1. g \in [PhaseRunning : Nat] /\ h \in [PhaseRunning : Nat]
            BY <2>3 DEF DataOf
        <3>2. "PhaseRunning" \in DOMAIN h
            BY <3>1
        <3>3. g.PhaseRunning = h.PhaseRunning
            BY <1>3, <3>2
        <3> QED
            BY <3>1, <3>3
    <2> QED
        BY <2>1, <2>2, <2>3
<1>4. gauges[p.series] = p.datum
    BY <1>2, <1>3
<1> QED
    BY <1>4 DEF p

LEMMA PublishKeeps ==
    ASSUME RunInv, GaugeInv, Publish
    PROVE  /\ GaugeInv' /\ gauges' = gauges
           /\ \A s : Pending(s) <=> s = Head(queue).series \/ Pending(s)'
<1>1. /\ queue # <<>> /\ queue' = Tail(queue) /\ set' = {} /\ gauges' = gauges
      /\ DOMAIN points' = DOMAIN points
    BY DEF Publish
<1>2. GaugeInv'
    BY <1>1 DEF GaugeInv
<1> QED
    BY <1>1, <1>2, FirstPair DEF Pending

LEMMA InitGauges == MetricsInit => GaugeInv
<1>1. \A s \in Series : Empty(s) \in DataOf(s)
    BY DEF Empty, DataOf, Status, Stats, Zero, Series, StatusSeries
<1> QED
    BY <1>1 DEF MetricsInit, GaugeInv

LEMMA NextGauges == RunInv /\ GaugeInv /\ [MetricsNext]_metricsVars => GaugeInv'
<1> SUFFICES ASSUME RunInv, GaugeInv, [MetricsNext]_metricsVars PROVE GaugeInv'
    OBVIOUS
<1>1. CASE SetGauge
    BY <1>1, SetGaugeKeeps
<1>2. CASE Publish
    BY <1>2, PublishKeeps
<1>3. CASE BeginRun \/ NextPhase \/ PhaseFails \/ PhaseSucceeds \/ Report
    <2>1. queue = <<>> /\ UNCHANGED <<set, gauges, points>>
        BY <1>3 DEF BeginRun, NextPhase, BeginPhase, PhaseFails, PhaseSucceeds, Report, Apply
    <2> QED
        BY <2>1 DEF GaugeInv
<1>4. CASE Restart
    <2>1. \A s \in Series : Empty(s) \in DataOf(s)
        BY DEF Empty, DataOf, Status, Stats, Zero, Series, StatusSeries
    <2> QED
        BY <1>4, <2>1 DEF Restart, GaugeInv
<1>5. CASE UNCHANGED <<queue, set, gauges, points>>
    BY <1>5 DEF GaugeInv
<1> QED
    BY <1>1, <1>2, <1>3, <1>4, <1>5
       DEF MetricsNext, Call, Collect, PhasePanics, runVars, metricsVars

LEMMA GaugesOfRun == MetricsSpec => [](RunInv /\ GaugeInv)
<1>1. MetricsInit => RunInv /\ GaugeInv
    BY InitRun, InitGauges
<1>2. RunInv /\ GaugeInv /\ [MetricsNext]_metricsVars => (RunInv /\ GaugeInv)'
    BY NextRun, NextGauges
<1> QED
    BY <1>1, <1>2, PTL DEF MetricsSpec

(* What the properties remember of points that get lost.                   *)
LostInv == lost \subseteq Series /\ mishaps \in 0 .. MaxMishaps

LEMMA InitLost == MetricsInit => LostInv
    BY MishapsAssumption DEF MetricsInit, LostInv

LEMMA NextLost == RunInv /\ LostInv /\ [MetricsNext]_metricsVars => LostInv'
<1> SUFFICES ASSUME RunInv, LostInv, [MetricsNext]_metricsVars PROVE LostInv'
    OBVIOUS
<1>1. CASE Publish
    <2>1. Head(queue).series \in Series
        BY <1>1, FirstPair DEF Publish, Pairable
    <2> QED
        BY <1>1, <2>1, MishapsAssumption DEF Publish, LostInv
<1>2. CASE Restart
    BY <1>2, MishapsAssumption DEF Restart, LostInv
<1>4. CASE PhasePanics
    BY <1>4 DEF PhasePanics, LostInv, RunInv, Series, StatusSeries
<1>3. CASE UNCHANGED <<lost, mishaps>>
    BY <1>3 DEF LostInv
<1> QED
    BY <1>1, <1>2, <1>3, <1>4
       DEF MetricsNext, SetGauge, BeginRun, NextPhase, BeginPhase, Call, Collect, PhaseFails,
           PhaseSucceeds, Report, Apply, runVars, metricsVars

(* The data keep their types.                                              *)
THEOREM MetricsTypes == MetricsSpec => []MetricsTypeOK
<1>1. RunInv /\ GaugeInv /\ LostInv => MetricsTypeOK
    <2> SUFFICES ASSUME RunInv, GaugeInv, LostInv PROVE MetricsTypeOK
        OBVIOUS
    <2>1. /\ Len(queue) <= 2
          /\ \A i \in 1 .. Len(queue) :
                queue[i].series \in Series /\ queue[i].datum \in DataOf(queue[i].series)
        <3>1. CASE queue = <<>>
            <4>1. Len(queue) = 0 /\ \A i \in 1 .. 0 : FALSE
                BY <3>1
            <4> QED
                BY <4>1
        <3>2. CASE queue # <<>>
            BY <3>2, FirstPair DEF Pairable
        <3> QED
            BY <3>1, <3>2
    <2> QED
        BY <2>1 DEF RunInv, GaugeInv, LostInv, MetricsTypeOK
<1>2. MetricsInit => LostInv
    BY InitLost
<1>3. RunInv /\ LostInv /\ [MetricsNext]_metricsVars => LostInv'
    BY NextLost
<1> QED
    BY <1>1, <1>2, <1>3, GaugesOfRun, PTL DEF MetricsSpec

-----------------------------------------------------------------------------
(* What the gauges say of the statistics *)

(* What is pending when Apply has been called.                             *)
LEMMA SeriesOfOne ==
    ASSUME NEW a, NEW q, q = <<a>>, NEW s
    PROVE  (\E i \in 1 .. Len(q) : q[i].series = s) <=> a.series = s
<1>1. Len(q) = 1 /\ q[1] = a /\ \A i \in 1 .. 1 : i = 1
    OBVIOUS
<1>2. (\E i \in 1 .. Len(q) : q[i].series = s) <=> q[1].series = s
    <2>1. 1 \in 1 .. 1
        OBVIOUS
    <2> QED
        BY <1>1, <2>1, Zenon
<1> QED
    BY <1>1, <1>2

LEMMA SeriesOfTwo ==
    ASSUME NEW a, NEW b, NEW q, q = <<a, b>>, NEW s
    PROVE  (\E i \in 1 .. Len(q) : q[i].series = s) <=> a.series = s \/ b.series = s
<1>1. Len(q) = 2 /\ q[1] = a /\ q[2] = b /\ \A i \in 1 .. 2 : i = 1 \/ i = 2
    OBVIOUS
<1>2. (\E i \in 1 .. Len(q) : q[i].series = s) <=> q[1].series = s \/ q[2].series = s
    <2>1. 1 \in 1 .. 2 /\ 2 \in 1 .. 2
        OBVIOUS
    <2> QED
        BY <1>1, <2>1, Zenon
<1> QED
    BY <1>1, <1>2

LEMMA PendsOne == ASSUME NEW a, queue' = <<a>>, NEW s PROVE Pending(s)' <=> a.series = s
<1> DEFINE q == queue'
<1>1. (\E i \in 1 .. Len(q) : q[i].series = s) <=> a.series = s
    <2> HIDE DEF q
    <2>1. q = <<a>>
        BY DEF q
    <2> QED
        BY <2>1, SeriesOfOne
<1> QED
    BY <1>1 DEF Pending

LEMMA PendsTwo ==
    ASSUME NEW a, NEW b, queue' = <<a, b>>, NEW s
    PROVE  Pending(s)' <=> a.series = s \/ b.series = s
<1> DEFINE q == queue'
<1>1. (\E i \in 1 .. Len(q) : q[i].series = s) <=> a.series = s \/ b.series = s
    <2> HIDE DEF q
    <2>1. q = <<a, b>>
        BY DEF q
    <2> QED
        BY <2>1, SeriesOfTwo
<1> QED
    BY <1>1 DEF Pending

(* Once a collection has been announced, its phase has no success.         *)
FreshInv ==
    /\ SuccessMeansFresh
    /\ phase = "s3stats" /\ (step = "work" \/ (step = "begin" /\ ~Pending("s3stats"))) =>
          gauges["s3stats"].Successful = 0

LEMMA InitFresh == MetricsInit => FreshInv
    BY DEF MetricsInit, FreshInv, SuccessMeansFresh, Series, StatusSeries, Empty, Status

(* The first pair, if it is of the S3 statistics.                          *)
LEMMA FirstOfStats ==
    ASSUME RunInv, queue # <<>>
    PROVE  /\ Head(queue).series = "s3" => at = "taken" /\ Head(queue).datum = Stats(counts[Top])
           /\ Head(queue).series = "s3stats" =>
                  \/ Head(queue).datum.Successful = 0
                  \/ step = "succeeded" /\ at = "taken" /\ Tail(queue) = <<Collected>>
<1> DEFINE p == Head(queue)
<1>1. \A v : Running(v).series = "running" /\ Overall(v).series = "overall"
    BY DEF Running, Overall, Pair
<1>2. /\ Begun.series = phase /\ Begun.datum.Successful = 0
      /\ Failed.series = phase /\ Failed.datum.Successful = 0
      /\ Succeeded.series = phase
      /\ Collected.series = "s3" /\ Collected.datum = Stats(counts[Top])
    BY DEF Begun, Failed, Succeeded, Collected, Pair, Status
<1>3. ASSUME NEW a, NEW b PROVE Head(<<a>>) = a /\ Head(<<a, b>>) = a /\ Tail(<<a, b>>) = <<b>>
    BY Tails
<1>4. CASE step = "idle"
    <2>1. PICK v \in {0, phaseToCode["overall"]} : queue \in Two(Running(0), Overall(v))
        BY <1>4 DEF RunInv, QueueInv
    <2>2. p \in {Running(0), Overall(v)}
        BY <1>3, <2>1 DEF Two
    <2> QED
        BY <1>1, <2>2
<1>5. CASE step = "begin"
    <2>1. p \in {Begun, Running(phaseToCode[phase])}
        BY <1>3, <1>5 DEF Two, RunInv, QueueInv
    <2> QED
        BY <1>1, <1>2, <2>1 DEF RunInv
<1>6. CASE step = "failed"
    <2>1. p = Failed
        BY <1>3, <1>6 DEF One, RunInv, QueueInv
    <2> QED
        BY <1>2, <2>1 DEF RunInv
<1>7. CASE step = "succeeded" /\ phase = "backup"
    <2>1. p = Succeeded
        BY <1>3, <1>7 DEF One, RunInv, QueueInv
    <2> QED
        BY <1>2, <1>7, <2>1
<1>8. CASE step = "succeeded" /\ phase = "s3stats"
    <2>1. at = "taken" /\ queue \in Two(Succeeded, Collected)
        BY <1>8 DEF RunInv, QueueInv
    <2>2. CASE queue = <<Succeeded, Collected>>
        <3>1. p = Succeeded /\ Tail(queue) = <<Collected>>
            BY <1>3, <2>2
        <3> QED
            BY <1>2, <1>8, <2>1, <3>1
    <2>3. CASE queue = <<Collected>>
        <3>1. p = Collected
            BY <1>3, <2>3
        <3> QED
            BY <1>2, <2>1, <3>1
    <2> QED
        BY <2>1, <2>2, <2>3 DEF Two
<1>9. step # "work"
    BY DEF RunInv, QueueInv
<1> QED
    BY <1>4, <1>5, <1>6, <1>7, <1>8, <1>9 DEF RunInv

LEMMA NextFresh == RunInv /\ GaugeInv /\ FreshInv /\ [MetricsNext]_metricsVars => FreshInv'
<1> SUFFICES ASSUME RunInv, GaugeInv, FreshInv, [MetricsNext]_metricsVars PROVE FreshInv'
    OBVIOUS
<1>1. "s3" \in Series /\ "s3stats" \in Series /\ "s3stats" \in StatusSeries
    BY DEF Series, StatusSeries
<1>2. CASE SetGauge
    <2>1. \A s \in Series : ~Pending(s) => gauges'[s] = gauges[s]
        BY <1>2, SetGaugeKeeps
    <2>2. UNCHANGED <<s3vars, step, phase, queue>>
        BY <1>2 DEF SetGauge
    <2>3. UNCHANGED <<at, counts>> /\ \A s : Pending(s)' <=> Pending(s)
        BY <2>2 DEF s3vars, Pending
    <2>4. step # "work"
        BY <1>2 DEF SetGauge, RunInv, QueueInv
    <2> QED
        BY <1>1, <2>1, <2>2, <2>3, <2>4 DEF FreshInv, SuccessMeansFresh
<1>3. CASE Publish
    <2> DEFINE p == Head(queue)
    <2>1. /\ gauges' = gauges /\ gauges[p.series] = p.datum
          /\ \A s : Pending(s) <=> s = p.series \/ Pending(s)'
        BY <1>3, PairIsSet, PublishKeeps
    <2>2. UNCHANGED <<s3vars, step, phase>> /\ queue # <<>> /\ queue' = Tail(queue)
        BY <1>3 DEF Publish
    <2>3. UNCHANGED <<at, counts>>
        BY <2>2 DEF s3vars
    <2>4. step # "work"
        BY <2>2 DEF RunInv, QueueInv
    <2>5. p.series = "s3" => at = "taken" /\ p.datum = Stats(counts[Top])
        BY <2>2, FirstOfStats
    <2>6. CASE p.series = "s3stats"
        <3>1. CASE p.datum.Successful = 0
            BY <2>1, <2>2, <2>3, <2>6, <3>1 DEF FreshInv, SuccessMeansFresh
        <3>2. CASE step = "succeeded" /\ at = "taken" /\ Tail(queue) = <<Collected>>
            <4>1. Pending("s3")'
                <5>1. Collected.series = "s3"
                    BY DEF Collected, Pair
                <5>2. queue' = <<Collected>>
                    BY <2>2, <3>2
                <5> QED
                    BY <5>1, <5>2, PendsOne
            <4> QED
                BY <2>2, <2>3, <3>2, <4>1 DEF FreshInv, SuccessMeansFresh
        <3> QED
            BY <2>2, <2>6, <3>1, <3>2, FirstOfStats
    <2>7. CASE p.series # "s3stats"
        <3>1. Pending("s3stats")' <=> Pending("s3stats")
            BY <2>1, <2>7
        <3>2. Pending("s3")' \/ p.series = "s3" \/ ~Pending("s3")
            BY <2>1
        <3> HIDE DEF p
        <3> QED
            BY <2>1, <2>2, <2>3, <2>4, <2>5, <3>1, <3>2 DEF FreshInv, SuccessMeansFresh
    <2> QED
        BY <2>6, <2>7
<1>4. CASE BeginRun \/ NextPhase \/ PhaseFails
    <2>1. /\ queue = <<>> /\ gauges' = gauges
          /\ step' \in {"begin", "failed"} /\ Pending(phase)'
          /\ \A s : Pending(s)' => s \in {phase', "running"}
        <3>1. CASE BeginRun \/ NextPhase
            <4>1. /\ queue' = <<Begun', Running(phaseToCode[phase'])>> /\ queue = <<>>
                  /\ gauges' = gauges /\ step' = "begin"
                BY <3>1 DEF BeginRun, NextPhase, BeginPhase, Apply, Begun, Running
            <4>2. Begun'.series = phase' /\ Running(phaseToCode[phase']).series = "running"
                BY DEF Begun, Running, Pair
            <4>3. PICK a, b : queue' = <<a, b>> /\ a.series = phase' /\ b.series = "running"
                BY <4>1, <4>2, Zenon
            <4>4. \A s : Pending(s)' <=> phase' = s \/ "running" = s
                BY <4>3, PendsTwo
            <4> QED
                BY <4>1, <4>4
        <3>2. CASE PhaseFails
            <4>1. /\ queue' = <<Failed>> /\ queue = <<>> /\ phase' = phase
                  /\ gauges' = gauges /\ step' = "failed"
                BY <3>2 DEF PhaseFails, Apply, Failed
            <4>2. Failed.series = phase
                BY DEF Failed, Pair
            <4>3. \A s : Pending(s)' <=> phase = s
                BY <4>1, <4>2, PendsOne
            <4> QED
                BY <4>1, <4>3
        <3> QED
            BY <1>4, <3>1, <3>2
    <2>2. UNCHANGED <<at, counts>>
        BY <1>4 DEF BeginRun, NextPhase, BeginPhase, PhaseFails, s3vars
    <2>3. ~Pending("s3") /\ ~Pending("s3stats")
        BY <2>1, NothingPending
    <2> QED
        BY <2>1, <2>2, <2>3 DEF FreshInv, SuccessMeansFresh
<1>5. CASE Call
    <2>1. UNCHANGED <<phase, queue, gauges>> /\ queue = <<>> /\ step = "begin" /\ step' = "work"
        BY <1>5 DEF Call
    <2>2. phase # "s3stats" => UNCHANGED <<at, counts>>
        BY <1>5 DEF Call, s3vars
    <2>3. ~Pending("s3") /\ ~Pending("s3stats") /\ ~Pending("s3")' /\ ~Pending("s3stats")'
        BY <2>1, NothingPending DEF Pending
    <2> QED
        BY <2>1, <2>2, <2>3 DEF FreshInv, SuccessMeansFresh
<1>6. CASE Collect
    BY <1>6 DEF Collect, runVars, FreshInv, SuccessMeansFresh
<1>7. CASE PhaseSucceeds
    <2>1. CASE phase = "s3stats"
        <3>1. step' = "succeeded" /\ queue' = <<Succeeded>> \o <<Collected>>
            BY <1>7, <2>1 DEF PhaseSucceeds, Apply, Succeeded, Collected
        <3>2. queue' = <<Succeeded, Collected>> /\ Succeeded.series = "s3stats"
            BY <2>1, <3>1, Tails, Zenon DEF Succeeded, Pair
        <3>3. PICK a, b : queue' = <<a, b>> /\ a.series = "s3stats"
            BY <3>2, Zenon
        <3>4. Pending("s3stats")'
            BY <3>3, PendsTwo
        <3> QED
            BY <3>1, <3>4 DEF FreshInv, SuccessMeansFresh
    <2>2. CASE phase = "backup"
        <3>1. /\ queue = <<>> /\ queue' = <<Succeeded>> /\ gauges' = gauges
              /\ phase' = phase /\ UNCHANGED s3vars
            BY <1>7, <2>2 DEF PhaseSucceeds, Apply, Succeeded
        <3>2. UNCHANGED <<at, counts>>
            BY <3>1 DEF s3vars
        <3>3. ~Pending("s3") /\ ~Pending("s3stats")
            BY <3>1, NothingPending
        <3> QED
            BY <2>2, <3>1, <3>2, <3>3 DEF FreshInv, SuccessMeansFresh
    <2> QED
        BY <2>1, <2>2 DEF RunInv
<1>8. CASE Report
    <2>1. /\ step' = "idle" /\ queue = <<>> /\ gauges' = gauges /\ UNCHANGED s3vars
        BY <1>8 DEF Report, Apply
    <2>2. UNCHANGED <<at, counts>> /\ ~Pending("s3") /\ ~Pending("s3stats")
        BY <2>1, NothingPending DEF s3vars
    <2> QED
        BY <2>1, <2>2 DEF FreshInv, SuccessMeansFresh
<1>9. CASE Restart
    <2>1. step' = "idle" /\ gauges'["s3stats"].Successful = 0
        BY <1>1, <1>9 DEF Restart, Empty, Status
    <2> QED
        BY <2>1 DEF FreshInv, SuccessMeansFresh
<1>12. CASE PhasePanics
    <2>1. step' = "idle" /\ UNCHANGED <<at, counts, queue, gauges>>
        BY <1>12 DEF PhasePanics, s3vars
    <2> QED
        BY <2>1 DEF FreshInv, SuccessMeansFresh, Pending
<1>10. CASE BucketChanges /\ UNCHANGED runVars
    <2>1. UNCHANGED <<at, counts, step, phase, queue, gauges>>
        BY <1>10 DEF runVars, BucketChanges, Put, Delete
    <2> QED
        BY <2>1 DEF FreshInv, SuccessMeansFresh, Pending
<1>11. CASE UNCHANGED metricsVars
    <2>1. UNCHANGED <<at, counts, step, phase, queue, gauges>>
        BY <1>11 DEF metricsVars, runVars, s3vars
    <2> QED
        BY <2>1 DEF FreshInv, SuccessMeansFresh, Pending
<1> QED
    BY <1>2, <1>3, <1>4, <1>5, <1>6, <1>7, <1>8, <1>9, <1>10, <1>11, <1>12
       DEF MetricsNext

(* Success of the phase s3stats means that the last collection was         *)
(* complete and that its numbers are in the gauges or on their way.        *)
THEOREM Fresh == MetricsSpec => []SuccessMeansFresh
<1>1. MetricsInit => FreshInv
    BY InitFresh
<1>2. RunInv /\ GaugeInv /\ FreshInv /\ [MetricsNext]_metricsVars => FreshInv'
    BY NextFresh
<1>3. FreshInv => SuccessMeansFresh
    BY DEF FreshInv
<1> QED
    BY <1>1, <1>2, <1>3, GaugesOfRun, PTL DEF MetricsSpec

-----------------------------------------------------------------------------
(* What InfluxDB knows *)

(* The newest point of a series has what its gauges say, unless it got     *)
(* lost, the next is on its way or a phase has been announced.             *)
InfluxInv ==
    \A s \in Series \ lost :
        points[s] # None /\ ~Pending(s) /\ ~(s = phase /\ step \in {"begin", "work"}) =>
            points[s] = PointOf(gauges[s])

(* The only pair that is not published announces the phase.                *)
LEMMA Unpublished ==
    ASSUME RunInv, queue # <<>>, ~Head(queue).publish
    PROVE  step = "begin" /\ Head(queue).series = phase
<1>1. \A v : Running(v).publish /\ Overall(v).publish
    BY DEF Running, Overall, Pair
<1>2. Failed.publish /\ Succeeded.publish /\ Collected.publish /\ Begun.series = phase
    BY DEF Failed, Succeeded, Collected, Begun, Pair
<1>3. ASSUME NEW a, NEW b PROVE Head(<<a>>) = a /\ Head(<<a, b>>) = a
    OBVIOUS
<1>4. CASE step = "idle"
    <2>1. PICK v \in {0, phaseToCode["overall"]} : queue \in Two(Running(0), Overall(v))
        BY <1>4 DEF RunInv, QueueInv
    <2>2. Head(queue) \in {Running(0), Overall(v)}
        BY <1>3, <2>1 DEF Two
    <2> QED
        BY <1>1, <2>2
<1>5. CASE step = "begin"
    <2>1. Head(queue) \in {Begun, Running(phaseToCode[phase])}
        BY <1>3, <1>5 DEF Two, RunInv, QueueInv
    <2> QED
        BY <1>1, <1>2, <1>5, <2>1
<1>6. CASE step = "failed"
    <2>1. Head(queue) = Failed
        BY <1>3, <1>6 DEF One, RunInv, QueueInv
    <2> QED
        BY <1>2, <2>1
<1>7. CASE step = "succeeded"
    <2>1. queue \in One(Succeeded) \/ queue \in Two(Succeeded, Collected)
        BY <1>7 DEF RunInv, QueueInv
    <2>2. Head(queue) \in {Succeeded, Collected}
        BY <1>3, <2>1 DEF One, Two
    <2> QED
        BY <1>2, <2>2
<1>8. step # "work"
    BY DEF RunInv, QueueInv
<1> QED
    BY <1>4, <1>5, <1>6, <1>7, <1>8 DEF RunInv

LEMMA InitInflux == MetricsInit => InfluxInv
    BY DEF MetricsInit, InfluxInv

LEMMA NextInflux ==
    RunInv /\ GaugeInv /\ LostInv /\ InfluxInv /\ [MetricsNext]_metricsVars => InfluxInv'
<1> SUFFICES ASSUME RunInv, GaugeInv, LostInv, InfluxInv, [MetricsNext]_metricsVars PROVE InfluxInv'
    OBVIOUS
<1>1. CASE SetGauge
    <2>1. \A s \in Series : ~Pending(s) => gauges'[s] = gauges[s]
        BY <1>1, SetGaugeKeeps
    <2>2. UNCHANGED <<step, phase, queue, points, lost>> /\ \A s : Pending(s)' <=> Pending(s)
        BY <1>1 DEF SetGauge, Pending
    <2> QED
        BY <2>1, <2>2 DEF InfluxInv
<1>2. CASE Publish
    <2> DEFINE p == Head(queue)
    <2>1. /\ gauges' = gauges /\ gauges[p.series] = p.datum
          /\ \A s : Pending(s) <=> s = p.series \/ Pending(s)'
        BY <1>2, PairIsSet, PublishKeeps
    <2>2. /\ queue # <<>> /\ UNCHANGED <<step, phase>>
          /\ \/ ~p.publish /\ UNCHANGED <<points, lost>>
             \/ points' = [points EXCEPT ![p.series] = PointOf(p.datum)] /\ lost' = lost \ {p.series}
             \/ lost' = lost \cup {p.series} /\ UNCHANGED points
        BY <1>2 DEF Publish
    <2>3. ~p.publish => step = "begin" /\ p.series = phase
        BY <2>2, Unpublished
    <2> HIDE DEF p
    <2>4. ASSUME NEW s \in Series \ lost', s # p.series,
                 points'[s] # None, ~Pending(s)', ~(s = phase' /\ step' \in {"begin", "work"})
          PROVE  points'[s] = PointOf(gauges'[s])
        <3>1. s \in Series \ lost /\ points'[s] = points[s] /\ ~Pending(s)
            BY <2>1, <2>2, <2>4 DEF GaugeInv
        <3> QED
            BY <2>1, <2>2, <2>4, <3>1 DEF InfluxInv
    <2>5. ASSUME p.series \in Series \ lost', ~(p.series = phase' /\ step' \in {"begin", "work"})
          PROVE  points'[p.series] = PointOf(gauges'[p.series])
        <3>1. points' = [points EXCEPT ![p.series] = PointOf(p.datum)]
            BY <2>2, <2>3, <2>5
        <3> QED
            BY <2>1, <2>5, <3>1 DEF GaugeInv
    <2> QED
        BY <2>4, <2>5 DEF InfluxInv
<1>3. CASE BeginRun \/ NextPhase
    <2>1. /\ queue = <<>> /\ UNCHANGED <<gauges, points, lost>>
          /\ step \in {"idle", "succeeded"} /\ step' = "begin"
        BY <1>3 DEF BeginRun, NextPhase, BeginPhase, Apply
    <2>2. \A s : ~Pending(s)
        BY <2>1, NothingPending
    <2> QED
        BY <2>1, <2>2 DEF InfluxInv
<1>4. CASE PhaseFails \/ PhaseSucceeds
    <2>1. queue = <<>> /\ phase' = phase /\ UNCHANGED <<gauges, points, lost>> /\ step = "work"
        BY <1>4 DEF PhaseFails, PhaseSucceeds, Apply
    <2>2. Pending(phase)'
        <3>1. Failed.series = phase /\ Succeeded.series = phase
            BY DEF Failed, Succeeded, Pair
        <3>2. queue' = <<Failed>> \/ queue' = <<Succeeded>> \/ queue' = <<Succeeded, Collected>>
            <4>1. CASE PhaseFails
                BY <4>1 DEF PhaseFails, Apply, Failed
            <4>2. CASE PhaseSucceeds /\ phase = "s3stats"
                <5>1. queue' = <<Succeeded>> \o <<Collected>>
                    BY <4>2 DEF PhaseSucceeds, Apply, Succeeded, Collected
                <5> QED
                    BY <5>1, Tails, Zenon
            <4>3. CASE PhaseSucceeds /\ phase # "s3stats"
                <5>1. queue' = <<Succeeded>> \o <<>>
                    BY <4>3 DEF PhaseSucceeds, Apply, Succeeded
                <5> QED
                    BY <5>1
            <4> QED
                BY <1>4, <4>1, <4>2, <4>3
        <3>3. PICK a, b : a.series = phase' /\ (queue' = <<a>> \/ queue' = <<a, b>>)
            BY <2>1, <3>1, <3>2, Zenon
        <3> QED
            BY <3>3, PendsOne, PendsTwo
    <2>3. \A s : ~Pending(s)
        BY <2>1, NothingPending
    <2> QED
        BY <2>1, <2>2, <2>3 DEF InfluxInv
<1>5. CASE Call
    <2>1. /\ queue = <<>> /\ UNCHANGED <<phase, queue, gauges, points, lost>>
          /\ step = "begin" /\ step' = "work"
        BY <1>5 DEF Call
    <2>2. \A s : ~Pending(s)
        BY <2>1, NothingPending
    <2> QED
        BY <2>1, <2>2 DEF InfluxInv
<1>6. CASE Report
    <2>1. /\ queue = <<>> /\ UNCHANGED <<gauges, points, lost, phase>>
          /\ step \in {"failed", "succeeded"}
        BY <1>6 DEF Report, Apply
    <2>2. \A s : ~Pending(s)
        BY <2>1, NothingPending
    <2> QED
        BY <2>1, <2>2 DEF InfluxInv
<1>7. CASE Restart
    BY <1>7 DEF Restart, InfluxInv
<1>9. CASE PhasePanics
    BY <1>9 DEF PhasePanics, InfluxInv, Pending
<1>8. CASE UNCHANGED <<step, phase, queue, gauges, points, lost>>
    BY <1>8 DEF InfluxInv, Pending
<1> QED
    BY <1>1, <1>2, <1>3, <1>4, <1>5, <1>6, <1>7, <1>8, <1>9
       DEF MetricsNext, Collect, runVars, metricsVars

(* When no run is at work, InfluxDB and Prometheus tell the same of each   *)
(* series whose newest datum has got through.                              *)
THEOREM Agrees == MetricsSpec => []InfluxAgrees
<1>1. MetricsInit => LostInv /\ InfluxInv
    BY InitLost, InitInflux
<1>2. RunInv /\ GaugeInv /\ LostInv /\ InfluxInv /\ [MetricsNext]_metricsVars => (LostInv /\ InfluxInv)'
    BY NextLost, NextInflux
<1>3. InfluxInv => InfluxAgrees
    BY NothingPending DEF InfluxInv, InfluxAgrees
<1> QED
    BY <1>1, <1>2, <1>3, GaugesOfRun, PTL DEF MetricsSpec

=============================================================================
