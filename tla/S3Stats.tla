------------------------------ MODULE S3Stats -------------------------------
(***************************************************************************)
(* Client.GetMetrics of internal/s3/s3.go: it asks whether the bucket is a *)
(* repository, otherwise which of its directories are, and then adds up    *)
(* the objects of a second listing, for the bucket and for each of these   *)
(* directories.  Other clients put and delete objects meanwhile.           *)
(*                                                                         *)
(* The S3 service is external: a listing passes the keys in their order    *)
(* and shows what is there when it comes by; a request may fail, because   *)
(* of the timeout for instance.                                            *)
(***************************************************************************)
EXTENDS Naturals, FiniteSets

CONSTANTS
    NumKeys,   \* keys are 1 .. NumKeys in the order of listings
    Dirs,      \* directories at the top of the bucket
    Top,       \* stands for the bucket itself
    DirOf,     \* DirOf[k]: the directory of a key, or Top
    KindOf,    \* KindOf[k]: "config", "keys" or "data"
    SizeOf     \* SizeOf[k]: the size of the object

Keys == 1 .. NumKeys

ASSUME KeysAssumption ==
    /\ NumKeys \in Nat /\ Top \notin Dirs /\ IsFiniteSet(Dirs)
    /\ DirOf \in [Keys -> Dirs \cup {Top}]
    /\ KindOf \in [Keys -> {"config", "keys", "data"}]
    /\ SizeOf \in [Keys -> Nat]

VARIABLES
    bucket,    \* the keys of the objects that are there
    at,        \* where GetMetrics stands
    dir,       \* the directory looksLikeRepo is asked about
    unseen,    \* directories the first listing has not passed
    paths,     \* those that look like repositories
    cursor,    \* the last key the second listing has passed
    counts,    \* objects and bytes, of the bucket and of every path
    (* what the properties remember *)
    stable,    \* objects that are there all through the second listing
    ever       \* objects that are there at some time of it

s3vars == <<bucket, at, dir, unseen, paths, cursor, counts, stable, ever>>

Zero == [d \in Dirs \cup {Top} |-> [objects |-> 0, bytes |-> 0]]

S3Init ==
    /\ bucket = {}
    /\ at = "idle" /\ dir = Top /\ unseen = {} /\ paths = {}
    /\ cursor = 0 /\ counts = Zero
    /\ stable = {} /\ ever = {}

-----------------------------------------------------------------------------
(* looksLikeRepo makes two requests, one after the other; PathExists takes *)
(* an error for a no.                                                      *)

Present(d, kind) == \E k \in bucket : DirOf[k] = d /\ KindOf[k] = kind

BeginStats ==
    /\ at \in {"idle", "taken", "error"}
    /\ at' = "config" /\ dir' = Top
    /\ unseen' = Dirs /\ paths' = {}
    /\ cursor' = 0 /\ counts' = Zero /\ stable' = {} /\ ever' = {}
    /\ bucket' \in SUBSET Keys

HasConfig ==
    /\ at = "config" /\ Present(dir, "config")
    /\ at' = "keys"
    /\ UNCHANGED <<bucket, dir, unseen, paths, cursor, counts, stable, ever>>

(* The second listing begins. *)
BeginSums ==
    /\ at' = "sum" /\ dir' = Top /\ unseen' = {}
    /\ stable' = bucket /\ ever' = bucket
    /\ UNCHANGED <<bucket, cursor, counts>>

(* It is a repository: the bucket, which needs no further look, or a path. *)
IsRepo ==
    /\ at = "keys" /\ Present(dir, "keys")
    /\ IF dir = Top
       THEN BeginSums /\ UNCHANGED paths
       ELSE /\ paths' = paths \cup {dir}
            /\ at' = "dirs"
            /\ UNCHANGED <<bucket, dir, unseen, cursor, counts, stable, ever>>

(* Something is not there or the request has failed. *)
IsNoRepo ==
    /\ at \in {"config", "keys"}
    /\ at' = "dirs"
    /\ UNCHANGED <<bucket, dir, unseen, paths, cursor, counts, stable, ever>>

(* The first listing shows a directory that has an object. *)
NextDir ==
    /\ at = "dirs"
    /\ \E d \in unseen :
          /\ unseen' = unseen \ {d} /\ dir' = d
          /\ at' = IF \E k \in bucket : DirOf[k] = d THEN "config" ELSE "dirs"
    /\ UNCHANGED <<bucket, paths, cursor, counts, stable, ever>>

DirsEnd == at = "dirs" /\ unseen = {} /\ BeginSums /\ UNCHANGED paths

-----------------------------------------------------------------------------
(* The sums *)

Add(c, k) == [objects |-> c.objects + 1, bytes |-> c.bytes + SizeOf[k]]

NextKey ==
    LET k == cursor + 1 IN
    /\ at = "sum" /\ cursor < NumKeys
    /\ cursor' = k
    /\ counts' = [d \in Dirs \cup {Top} |->
          IF k \in bucket /\ (d = Top \/ (d \in paths /\ d = DirOf[k]))
          THEN Add(counts[d], k) ELSE counts[d]]
    /\ UNCHANGED <<bucket, at, dir, unseen, paths, stable, ever>>

StatsEnd ==
    /\ at = "sum" /\ cursor = NumKeys
    /\ at' = "done"
    /\ UNCHANGED <<bucket, dir, unseen, paths, cursor, counts, stable, ever>>

(* Mutation: the listing that broke off is taken for complete. *)
StatsFailMut ==
    /\ at \in {"dirs", "sum"}
    /\ at' = "done"
    /\ UNCHANGED <<bucket, dir, unseen, paths, cursor, counts, stable, ever>>

(* What a call knows, but for its result, is gone with it. *)
Forget ==
    /\ bucket' = {} /\ dir' = Top /\ unseen' = {} /\ paths' = {}
    /\ cursor' = 0 /\ stable' = {} /\ ever' = {}

(* One of the listings ends with an error, and with it GetMetrics. *)
StatsFail ==
    /\ at \in {"dirs", "sum"}
    /\ at' = "error" /\ counts' = Zero /\ Forget

(* The caller has got the result. *)
TakeStats == at = "done" /\ at' = "taken" /\ Forget /\ UNCHANGED counts

StatsStep ==
    \/ HasConfig \/ IsRepo \/ IsNoRepo \/ NextDir \/ DirsEnd
    \/ NextKey \/ StatsEnd \/ StatsFail

(* External: somebody else uses the bucket, as far as a listing can see it *)
(* happen; what comes between two calls comes with BeginStats.             *)
Put(k) ==
    /\ at \in {"config", "keys", "dirs", "sum"} /\ k \notin bucket
    /\ bucket' = bucket \cup {k}
    /\ ever' = IF at = "sum" THEN ever \cup {k} ELSE ever
    /\ UNCHANGED <<at, dir, unseen, paths, cursor, counts, stable>>
Delete(k) ==
    /\ at \in {"config", "keys", "dirs", "sum"} /\ k \in bucket
    /\ bucket' = bucket \ {k}
    /\ stable' = IF at = "sum" THEN stable \ {k} ELSE stable
    /\ UNCHANGED <<at, dir, unseen, paths, cursor, counts, ever>>
BucketChanges == \E k \in Keys : Put(k) \/ Delete(k)

(* The process that calls it is started again. *)
S3Restart == at' = "idle" /\ counts' = Zero /\ Forget

S3Next == BeginStats \/ StatsStep \/ TakeStats \/ BucketChanges \/ S3Restart

S3Spec == S3Init /\ [][S3Next]_s3vars

-----------------------------------------------------------------------------
(* Properties *)

S3TypeOK ==
    /\ bucket \subseteq Keys /\ stable \subseteq ever /\ ever \subseteq Keys
    /\ at = "sum" => stable \subseteq bucket /\ bucket \subseteq ever
    /\ at \in {"idle", "config", "keys", "dirs", "sum", "done", "taken", "error"}
    /\ dir \in Dirs \cup {Top} /\ unseen \subseteq Dirs /\ paths \subseteq Dirs
    /\ cursor \in 0 .. NumKeys
    /\ counts \in [Dirs \cup {Top} -> [objects : Nat, bytes : Nat]]

(* f[x] summed up over the members x of s: the number of the pairs of an x *)
(* and one of f[x] numbers.                                                *)
Pairs(f, s) == UNION {{x} \X (1 .. f[x]) : x \in s}
Total(f, s) == Cardinality(Pairs(f, s))

(* Which keys of s belong to the bucket or to a directory.                 *)
In(d, s) == {k \in s : d = Top \/ DirOf[k] = d}

(* The sums of a call that has not failed leave out nothing that was there *)
(* all the time, count nothing twice and nothing that was never there,     *)
(* for the bucket and for each path, whoever uses the bucket meanwhile;    *)
(* and the paths do not claim more than the whole.                         *)
SumsAreBounded ==
    at = "done" =>
        /\ \A d \in paths \cup {Top} :
              /\ counts[d].objects >= Cardinality(In(d, stable))
              /\ counts[d].objects <= Cardinality(In(d, ever))
              /\ counts[d].bytes >= Total(SizeOf, In(d, stable))
              /\ counts[d].bytes <= Total(SizeOf, In(d, ever))
        /\ Total([d \in paths |-> counts[d].objects], paths) <= counts[Top].objects
        /\ Total([d \in paths |-> counts[d].bytes], paths) <= counts[Top].bytes
=============================================================================
