------------------------------- MODULE Scrub -------------------------------
(***************************************************************************)
(* scrub: each file is overwritten in its place, pass after pass, and each *)
(* pass is forced to the disk before the next begins.  Meanwhile others    *)
(* may append to the file, a write may fail, and the machine may crash.    *)
(***************************************************************************)
EXTENDS Integers, Sequences, FiniteSets

CONSTANTS Byte,     \* what a file is made of
          passes,   \* the schedule: the three bytes of a pattern, or <<>> for a random pass
          Random,   \* what tc_rand gives
          Original, \* what the file holds
          MaxSize, MaxAppends

ScrubAssumption ==
  /\ passes \in Seq({<<>>} \cup [1..3 -> Byte \ {Original}]) /\ passes # <<>>
  /\ Random \subseteq Byte \ {Original} /\ Original \in Byte
  /\ MaxSize \in Nat /\ MaxAppends \in Nat

VARIABLES cache,    \* the file as other programs see it, and the buffer of fp written into it
          disk,     \* the file as it is on the disk
          st_size,  \* its size when fstat was called; -1 before
          i, pos, pati,
          appends,  \* how often it was appended to
          failed,   \* a write of the running pass has failed
          pc        \* "fstat", "write", "force", "done" or "crashed"

vars == <<cache, disk, st_size, i, pos, pati, appends, failed, pc>>

NPASSES == Len(passes)

Init ==
  /\ cache \in {[k \in 1..n |-> Original] : n \in 0..MaxSize} /\ disk = cache
  /\ st_size = -1 /\ i = 1 /\ pos = 0 /\ pati = 0
  /\ appends = 0 /\ failed = FALSE /\ pc = "fstat"

Fstat ==
  /\ pc = "fstat" /\ st_size' = Len(cache) /\ pc' = "write"
  /\ UNCHANGED <<cache, disk, i, pos, pati, appends, failed>>

More == pos < st_size

ByteOf(p) == p[pati + 1]

Bytes == IF passes[i] = <<>> THEN Random ELSE {ByteOf(passes[i])}

NextPati == pati' = IF passes[i] = <<>> THEN pati ELSE (pati + 1) % 3

Fputc ==
  /\ pc = "write" /\ More
  /\ \E b \in Bytes : cache' = [cache EXCEPT ![pos + 1] = b]
  /\ NextPati /\ pos' = pos + 1
  /\ UNCHANGED <<disk, st_size, i, appends, failed, pc>>

\* A block cannot be written; what fputc and fflush return is not looked at.
FputcFails ==
  /\ pc = "write" /\ More
  /\ NextPati /\ pos' = pos + 1 /\ failed' = TRUE
  /\ UNCHANGED <<cache, disk, st_size, i, appends, pc>>

EndPass ==
  /\ pc = "write" /\ ~More /\ pc' = "force"
  /\ UNCHANGED <<cache, disk, st_size, i, pos, pati, appends, failed>>

\* Mutant: only what the last pass wrote is forced to the disk.
ForceLast == disk' = IF i = NPASSES THEN cache ELSE disk

\* fflush, fsync and sync. That fsync fails is not modelled.
ForceAll == disk' = cache

Rewind == pos' = 0 /\ pati' = 0

Force ==
  /\ pc = "force" /\ ForceAll
  /\ IF i = NPASSES THEN pc' = "done" /\ UNCHANGED <<i, pos, pati>>
                    ELSE pc' = "write" /\ i' = i + 1 /\ Rewind
  /\ UNCHANGED <<cache, st_size, appends, failed>>

\* The system writes what it likes when it likes.
WriteBack ==
  /\ pc \in {"write", "force"}
  /\ \E k \in DOMAIN disk : disk[k] # cache[k] /\ disk' = [disk EXCEPT ![k] = cache[k]]
  /\ UNCHANGED <<cache, st_size, i, pos, pati, appends, failed, pc>>

\* Another program appends to the file, and forces that to the disk itself.
Appended ==
  /\ pc \in {"fstat", "write", "force"} /\ appends < MaxAppends
  /\ cache' = Append(cache, Original) /\ disk' = Append(disk, Original) /\ appends' = appends + 1
  /\ UNCHANGED <<st_size, i, pos, pati, failed, pc>>

Crash ==
  /\ pc \in {"fstat", "write", "force"} /\ pc' = "crashed" /\ cache' = disk
  /\ UNCHANGED <<disk, st_size, i, pos, pati, appends, failed>>

Done == pc \in {"done", "crashed"} /\ UNCHANGED vars

Next ==
  \/ Fstat \/ Fputc \/ FputcFails \/ EndPass \/ Force
  \/ WriteBack \/ Appended \/ Crash \/ Done
Spec == Init /\ [][Next]_vars

-----------------------------------------------------------------------------
TypeOK ==
  /\ cache \in Seq(Byte) /\ disk \in Seq(Byte) /\ Len(disk) = Len(cache) /\ st_size \in -1..Len(cache) /\ i \in 1..NPASSES
  /\ pos \in 0..(IF st_size < 0 THEN 0 ELSE st_size) /\ pati \in 0..2
  /\ appends \in 0..MaxAppends /\ failed \in BOOLEAN
  /\ pc \in {"fstat", "write", "force", "done", "crashed"}

\* The k-th byte may be what pass j writes there, with its pattern in phase.
Of(j, k, b) == IF passes[j] = <<>> THEN b \in Random ELSE b = passes[j][((k - 1) % 3) + 1]

\* At every moment, also after a crash, each byte on the disk is what the
\* running pass or the one before it wrote: a pass is on the disk as a whole
\* before the next one begins, so that none is lost in the cache.
Layered ==
  ~failed /\ st_size > 0 =>
    \A k \in 1..st_size :
      \/ Of(i, k, disk[k]) /\ (k <= pos \/ pc \in {"done", "crashed"})
      \/ i > 1 /\ Of(i - 1, k, disk[k])
      \/ i = 1 /\ disk[k] = Original

\* When all passes are done without a failure, the last of them is what is on
\* the disk, and nothing of the file as it was when the passes began is left.
Overwritten ==
  pc = "done" /\ ~failed => \A k \in 1..st_size : Of(NPASSES, k, disk[k]) /\ disk[k] # Original

\* What others append while the passes run is neither lost nor overwritten.
KeepsAppended == st_size >= 0 => \A k \in st_size + 1..Len(disk) : disk[k] = Original

-----------------------------------------------------------------------------
(***************************************************************************)
(* The invariant that the proofs need: which layer each byte of the cache  *)
(* and of the disk belongs to, at every point of a pass.                   *)
(***************************************************************************)
\* What the byte was before the running pass reached it.
Below(k, b) == IF i > 1 THEN Of(i - 1, k, b) ELSE b = Original

InPhase == passes[i] # <<>> => pati = pos % 3

Underway ==
  /\ pc = "fstat" => st_size = -1 /\ i = 1 /\ pos = 0
  /\ pc \in {"write", "force", "done"} => st_size >= 0
  /\ pc \in {"force", "done"} => pos = st_size
  /\ pc = "done" => i = NPASSES /\ disk = cache

CacheLayered ==
  ~failed /\ pc # "crashed" =>
    \A k \in 1..st_size : IF k <= pos THEN Of(i, k, cache[k]) ELSE Below(k, cache[k])

DiskLayered ==
  ~failed /\ pc # "crashed" => \A k \in 1..st_size : disk[k] = cache[k] \/ Below(k, disk[k])

\* What lies behind the size that fstat told is never touched.
BehindKept ==
  \A k \in 1..Len(disk) : k > st_size => cache[k] = Original /\ disk[k] = Original

IInv ==
  /\ TypeOK /\ InPhase /\ Underway /\ CacheLayered /\ DiskLayered /\ BehindKept
  /\ pc = "crashed" => Layered
=============================================================================
