------------------------------- MODULE BCache -------------------------------
(***************************************************************************)
(* The buffer cache (bio.rs): a doubly linked list of buffers in the order *)
(* of their last release, behind the spinlock `lru`, each with the block   *)
(* it caches, a reference count, a valid flag and data behind a sleep-lock.*)
(*                                                                         *)
(* The clients are processes that read a block, may change it and either   *)
(* write it back or pin it (what LOG.write does), and that write a pinned  *)
(* block back and unpin it (what Log::install_trans does).  bpin and       *)
(* bunpin change the count without the `lru` lock, so that their load and  *)
(* store are two steps, and an update by another CPU in between is lost.   *)
(* A count that would then go below 0 wraps around in the code; a negative *)
(* number stands for it.                                                   *)
(***************************************************************************)
EXTENDS Integers, FiniteSets

CONSTANTS
  Procs,
  Blocks,
  NBUF,
  Values,    \* contents of a block
  MaxPins,   \* bound: blocks pinned at a time
  MaxLost,   \* bound: lost updates after which the model goes on
  None       \* no buffer, no block, no process

ASSUME BCacheAssumption ==
  /\ NBUF \in Nat /\ NBUF >= 2
  /\ MaxPins \in Nat /\ MaxLost \in Nat
  /\ IsFiniteSet(Procs)
  /\ None \notin Procs \union Blocks \union (1..NBUF)

Bufs == 1..NBUF

VARIABLES
  blk,      \* BufMeta.dev and blockno: the block a buffer caches
  refcnt,   \* BufMeta.refcnt
  next, prev, head, tail,   \* the list of BufMetaLru
  valid,    \* Buf.valid
  dlock,    \* who holds a buffer's data
  data,     \* BufData
  disk,     \* the blocks on the disk
  pc,       \* where a process is
  cur,      \* the buffer a process has a BufGuard for, or is getting one for
  want,     \* BufGuard.blockno
  tmp,      \* the count bpin or bunpin has loaded
  lost,     \* how often bpin or bunpin has overwritten another's update
  pinned,   \* blocks in the log's header
  latest    \* what was last stored in each block through a guard

listVars == <<next, prev, head, tail>>
ghostVars == <<lost, pinned, latest>>
vars == <<blk, refcnt, next, prev, head, tail, valid, dlock, data, disk, pc, cur,
          want, tmp, lost, pinned, latest>>

Init ==
  /\ blk = [b \in Bufs |-> None]
  /\ refcnt = [b \in Bufs |-> 0]
  /\ next = [b \in Bufs |-> IF b = NBUF THEN None ELSE b + 1]
  /\ prev = [b \in Bufs |-> IF b = 1 THEN None ELSE b - 1]
  /\ head = 1 /\ tail = NBUF
  /\ valid = [b \in Bufs |-> FALSE]
  /\ dlock = [b \in Bufs |-> None]
  /\ disk \in {[k \in Blocks |-> v] : v \in Values}
  /\ latest = disk
  /\ data \in {[b \in Bufs |-> v] : v \in Values}
  /\ pc = [p \in Procs |-> "idle"]
  /\ cur = [p \in Procs |-> None]
  /\ want = [p \in Procs |-> None]
  /\ tmp = [p \in Procs |-> 0]
  /\ lost = 0 /\ pinned = {}

Goto(p, loc) == pc' = [pc EXCEPT ![p] = loc]
At(p, loc) == pc[p] = loc

-----------------------------------------------------------------------------
(***************************************************************************)
(* The list, from either end.                                              *)
(***************************************************************************)

\* s is the buffers met by following link f from b until there is no next.
IsChain(s, f, b) ==
  /\ s[1] = b
  /\ \A i \in DOMAIN s : f[s[i]] = IF i + 1 \in DOMAIN s THEN s[i + 1] ELSE None

Chain(f, b) == CHOOSE s \in UNION {[1..n -> Bufs] : n \in 1..NBUF} : IsChain(s, f, b)

\* The first buffer of s that is in S.
First(s, S) ==
  LET hits == {i \in DOMAIN s : s[i] \in S}
  IN IF hits = {} THEN None ELSE s[CHOOSE i \in hits : \A j \in hits : i <= j]

\* Mutant: the most recently used buffer is not looked at.
FindSkipsHead(k) == First(Chain(next, next[head]), {b \in Bufs : blk[b] = k})

\* BufMetaLru::find: the first buffer from the head that caches k.
Find(k) == First(Chain(next, head), {b \in Bufs : blk[b] = k})

\* BufMetaLru::recycle: the first one from the tail without a reference.
Recyclable == First(Chain(prev, tail), {b \in Bufs : refcnt[b] = 0})

-----------------------------------------------------------------------------
(***************************************************************************)
(* bget and bread.                                                         *)
(***************************************************************************)
BgetFound(p, k) ==
  /\ At(p, "idle") /\ Find(k) # None
  /\ refcnt' = [refcnt EXCEPT ![Find(k)] = @ + 1]
  /\ cur' = [cur EXCEPT ![p] = Find(k)]
  /\ want' = [want EXCEPT ![p] = k]
  /\ Goto(p, "lock")
  /\ UNCHANGED <<blk, listVars, valid, dlock, data, disk, tmp, ghostVars>>

\* Mutant: a recycled buffer keeps its valid flag.
InvalidateNot(b) == UNCHANGED valid
Invalidate(b) == valid' = [valid EXCEPT ![b] = FALSE]

BgetRecycled(p, k) ==
  LET b == Recyclable
  IN /\ At(p, "idle") /\ Find(k) = None /\ Recyclable # None
     /\ blk' = [blk EXCEPT ![b] = k]
     /\ refcnt' = [refcnt EXCEPT ![b] = @ + 1]
     /\ Invalidate(b)
     /\ cur' = [cur EXCEPT ![p] = b]
     /\ want' = [want EXCEPT ![p] = k]
     /\ Goto(p, "lock")
     /\ UNCHANGED <<listVars, dlock, data, disk, tmp, ghostVars>>

\* panic!("bcache: no buffers")
BgetPanics(p, k) ==
  /\ At(p, "idle") /\ Find(k) = None /\ Recyclable = None
  /\ Goto(p, "panic")
  /\ UNCHANGED <<blk, refcnt, listVars, valid, dlock, data, disk, cur, want, tmp, ghostVars>>

\* The buffer's sleep-lock; bread goes to the disk if the data is not valid.
Bread(p) ==
  LET b == cur[p]
  IN /\ At(p, "lock") /\ dlock[b] = None
     /\ dlock' = [dlock EXCEPT ![b] = p]
     /\ Goto(p, IF valid[b] THEN "use" ELSE "read")
     /\ UNCHANGED <<blk, refcnt, listVars, valid, data, disk, cur, want, tmp, ghostVars>>

ReadDisk(p) ==
  LET b == cur[p]
  IN /\ At(p, "read")
     /\ data' = [data EXCEPT ![b] = disk[want[p]]]
     /\ valid' = [valid EXCEPT ![b] = TRUE]
     /\ Goto(p, "use")
     /\ UNCHANGED <<blk, refcnt, listVars, dlock, disk, cur, want, tmp, ghostVars>>

-----------------------------------------------------------------------------
(***************************************************************************)
(* With a guard: change the data, then bwrite or pin.                      *)
(***************************************************************************)
Modify(p, v) ==
  /\ At(p, "use")
  /\ data' = [data EXCEPT ![cur[p]] = v]
  /\ latest' = [latest EXCEPT ![want[p]] = v]
  /\ Goto(p, "dirty")
  /\ UNCHANGED <<blk, refcnt, listVars, valid, dlock, disk, cur, want, tmp, lost, pinned>>

Bwrite(p) ==
  /\ At(p, "dirty")
  /\ disk' = [disk EXCEPT ![want[p]] = data[cur[p]]]
  /\ Goto(p, "use")
  /\ UNCHANGED <<blk, refcnt, listVars, valid, dlock, data, cur, want, tmp, ghostVars>>

\* LOG.write of a block that the log has already.
Absorb(p) ==
  /\ At(p, "dirty") /\ want[p] \in pinned
  /\ Goto(p, "use")
  /\ UNCHANGED <<blk, refcnt, listVars, valid, dlock, data, disk, cur, want, tmp, ghostVars>>

\* The load and the store of bpin and bunpin.
LoadCount(p, loc) ==
  /\ tmp' = [tmp EXCEPT ![p] = refcnt[cur[p]]]
  /\ Goto(p, loc)
  /\ UNCHANGED refcnt

StoreCount(p, n) ==
  /\ refcnt' = [refcnt EXCEPT ![cur[p]] = n]
  /\ lost' = IF refcnt[cur[p]] = tmp[p] THEN lost ELSE lost + 1
  /\ tmp' = [tmp EXCEPT ![p] = 0]
  /\ Goto(p, "use")

\* Mutant: LOG.write does not pin.
BpinForgotten(p) ==
  /\ At(p, "dirty") /\ want[p] \notin pinned
  /\ Cardinality(pinned) < MaxPins
  /\ pinned' = pinned \union {want[p]}
  /\ Goto(p, "use")
  /\ UNCHANGED <<blk, refcnt, listVars, valid, dlock, data, disk, cur, want, tmp, lost, latest>>

\* LOG.write of a block that is new to the log.
Bpin(p) ==
  /\ At(p, "dirty") /\ want[p] \notin pinned
  /\ Cardinality(pinned) < MaxPins
  /\ pinned' = pinned \union {want[p]}
  /\ LoadCount(p, "bpin")
  /\ UNCHANGED <<blk, listVars, valid, dlock, data, disk, cur, want, lost, latest>>

\* install_trans writes a block home and unpins it.
Bunpin(p) ==
  /\ At(p, "use") /\ want[p] \in pinned
  /\ disk' = [disk EXCEPT ![want[p]] = data[cur[p]]]
  /\ pinned' = pinned \ {want[p]}
  /\ LoadCount(p, "bunpin")
  /\ UNCHANGED <<blk, listVars, valid, dlock, data, cur, want, lost, latest>>

PinStore(p) ==
  /\ \/ At(p, "bpin") /\ StoreCount(p, tmp[p] + 1)
     \/ At(p, "bunpin") /\ StoreCount(p, tmp[p] - 1)
  /\ UNCHANGED <<blk, listVars, valid, dlock, data, disk, cur, want, pinned, latest>>

-----------------------------------------------------------------------------
(***************************************************************************)
(* Drop of the guard: the data's lock, then brelse.                        *)
(***************************************************************************)
DropData(p) ==
  /\ At(p, "use")
  /\ dlock' = [dlock EXCEPT ![cur[p]] = None]
  /\ Goto(p, "brelse")
  /\ UNCHANGED <<blk, refcnt, listVars, valid, data, disk, cur, want, tmp, ghostVars>>

\* f with the link of b, if there is a b, set to c.
SetLink(f, b, c) == IF b = None THEN f ELSE [f EXCEPT ![b] = c]

NewTail(b) == IF tail = b /\ prev[b] # None THEN prev[b] ELSE tail

\* Take b out of the list and put it in front.
ToFront(b) ==
  LET n == SetLink(next, prev[b], next[b])
      v == SetLink(prev, next[b], prev[b])
  IN /\ tail' = NewTail(b)
     /\ next' = [n EXCEPT ![b] = head]
     /\ prev' = SetLink([v EXCEPT ![b] = None], head, b)
     /\ head' = b

Brelse(p) ==
  LET b == cur[p]
  IN /\ At(p, "brelse")
     /\ refcnt' = [refcnt EXCEPT ![b] = @ - 1]
     /\ IF refcnt[b] = 1 /\ head # b THEN ToFront(b) ELSE UNCHANGED listVars
     /\ cur' = [cur EXCEPT ![p] = None]
     /\ want' = [want EXCEPT ![p] = None]
     /\ Goto(p, "idle")
     /\ UNCHANGED <<blk, valid, dlock, data, disk, tmp, ghostVars>>

-----------------------------------------------------------------------------
GuardStep(p) ==
  \/ Bread(p) \/ ReadDisk(p) \/ Bwrite(p) \/ Absorb(p) \/ Bpin(p) \/ Bunpin(p)
  \/ PinStore(p) \/ DropData(p) \/ Brelse(p) \/ \E v \in Values : Modify(p, v)

Next ==
  /\ lost <= MaxLost
  /\ \E p \in Procs :
    \/ \E k \in Blocks : BgetFound(p, k) \/ BgetRecycled(p, k) \/ BgetPanics(p, k)
    \/ GuardStep(p)

Spec == Init /\ [][Next]_vars

-----------------------------------------------------------------------------
(***************************************************************************)
(* Properties.                                                             *)
(***************************************************************************)

\* Types of BufMetaLru, BufMeta, Buf and BufGuard.
TypeOK ==
  /\ blk \in [Bufs -> Blocks \union {None}]
  /\ refcnt \in [Bufs -> Int] /\ (lost = 0 => \A b \in Bufs : refcnt[b] >= 0)
  /\ next \in [Bufs -> Bufs \union {None}] /\ prev \in [Bufs -> Bufs \union {None}]
  /\ head \in Bufs /\ tail \in Bufs
  /\ valid \in [Bufs -> BOOLEAN]
  /\ dlock \in [Bufs -> Procs \union {None}]
  /\ data \in [Bufs -> Values]
  /\ disk \in [Blocks -> Values] /\ latest \in [Blocks -> Values]
  /\ pc \in [Procs -> {"idle", "lock", "read", "use", "dirty", "bpin", "bunpin",
                       "brelse", "panic"}]
  /\ cur \in [Procs -> Bufs \union {None}]
  /\ want \in [Procs -> Blocks \union {None}]
  /\ tmp \in [Procs -> Int] /\ lost \in Nat
  /\ pinned \subseteq Blocks

\* The list that brelse rewires has every buffer exactly once, and reads the
\* same from either end: find misses no cached block, recycle no free buffer.
ListOK ==
  \E s \in [1..NBUF -> Bufs] :
    /\ \A b \in Bufs : \E i \in 1..NBUF : s[i] = b
    /\ IsChain(s, next, head)
    /\ IsChain([i \in 1..NBUF |-> s[NBUF + 1 - i]], prev, tail)

\* A block is cached in one buffer at most, "a synchronization point for disk
\* blocks used by multiple processes" (bio.rs:4).
OneBuffer == \A b, c \in Bufs : b # c /\ blk[b] = blk[c] => blk[b] = None

\* Blocks whose pin is in the count: bpin adds it after the block has entered
\* the log, bunpin takes it after the block has left.
Storing(loc) == {want[p] : p \in {q \in Procs : At(q, loc)}}
Counted == (pinned \ Storing("bpin")) \union Storing("bunpin")

\* Unless an update was lost, the count of a buffer is the number of guards
\* and of pins on it, whatever find, recycle, brelse, bpin and bunpin do.
RefcntCounts ==
  lost = 0 => \A b \in Bufs :
    refcnt[b] = Cardinality({p \in Procs : cur[p] = b})
              + (IF blk[b] \in Counted THEN 1 ELSE 0)

\* Unless an update was lost, who has a guard has the block it asked for, as
\* it was last stored by anyone, on the disk or only in the cache.
ReadsLatest ==
  lost = 0 => \A p \in Procs : pc[p] \in {"use", "dirty", "bpin", "bunpin"} =>
    blk[cur[p]] = want[p] /\ data[cur[p]] = latest[want[p]]

\* Unless an update was lost, bget panics with "bcache: no buffers" only when
\* each buffer has a guard or a block of the log: recycle (bio.rs:217) misses
\* none, and no count outlives its guards and pins.
NoBuffersMeansInUse ==
  \A p \in Procs, k \in Blocks : BgetPanics(p, k) /\ lost = 0 =>
    \A b \in Bufs : blk[b] \in pinned \/ \E q \in Procs : cur[q] = b

PanicsWhenInUse == [][NoBuffersMeansInUse]_vars

\* "Record the block number and pin in the cache by increasing refcnt"
\* (log.rs:82): a block the log has is in the cache with its count above 0.
PinnedStays ==
  \A k \in pinned :
    \/ \E b \in Bufs : blk[b] = k /\ refcnt[b] > 0
    \/ \E p \in Procs : At(p, "bpin") /\ want[p] = k
=============================================================================
