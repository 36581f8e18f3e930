------------------------------- MODULE DiskRing -------------------------------
(***************************************************************************)
(* The delay buffer of src/src/buffer.rs: a preallocated file used as a    *)
(* ring of bytes, an in-memory index of the tags whose bytes are still in  *)
(* it, and a second index of the keyframes a delay cut may land on.        *)
(*                                                                         *)
(* One ingest task appends and trims; one reader per destination looks a   *)
(* tag up, and later asks for its bytes by sequence number.  Append, trim, *)
(* clear and read each hold the index lock from beginning to end, and the  *)
(* file is touched only under it.  The loops and the disk accesses inside  *)
(* a critical section are separate steps here, so that what the lock keeps *)
(* apart is visible.                                                       *)
(*                                                                         *)
(* Sequence headers and onMetaData never enter the ring (they go to slots  *)
(* of their own), so they are not among the tags here.                     *)
(***************************************************************************)
EXTENDS Integers, Sequences

CONSTANTS Capacity,  \* bytes in the file
          Tags,      \* tags a publisher may send: [len, ts, idr]
          Readers,   \* reading tasks
          Cutoffs,   \* timestamps trim is asked to cut at
          MaxSeq     \* bound on the tags appended in a behaviour

\* What a tag is to the cut search: no keyframe, the keyframe of a secondary
\* Enhanced Broadcasting track, or the primary track's keyframe.
Idr == {"none", "rung", "primary"}
Tag == [len : Nat, ts : Nat, idr : Idr]

ASSUME CapacityAssumption == Capacity \in Nat \ {0}
ASSUME TagsAssumption     == Tags \subseteq Tag
ASSUME CutoffsAssumption  == Cutoffs \subseteq Nat
ASSUME MaxSeqAssumption   == MaxSeq \in Nat

Ingest == "ingest"   \* the task of the publisher's connection
ASSUME ReadersAssumption  == Ingest \notin Readers

VARIABLES
  index,         \* metas of the readable tags, oldest first
  idrIndex,      \* metas of the primary keyframes among them
  nextSeq,       \* sequence number of the next tag
  writeCursor,   \* file offset of the next byte
  indexedBytes,  \* running total of the lengths in index
  file,          \* the bytes on disk
  lock,          \* who holds the index lock: {} or one task
  ingest,        \* where the ingest task is inside append or trim
  reader,        \* where each reader is, the tag it found, what it read
  log            \* history: every tag appended, and how many bytes preceded it

inner == <<index, idrIndex, nextSeq, writeCursor, indexedBytes>>
vars == <<inner, file, lock, ingest, reader, log>>

Cells == 0..(Capacity - 1)

\* A byte on disk is the k-th byte of the tag appended as number `of`; one
\* of no tag is what a failed write leaves behind, and what a new file holds.
Byte(of, k) == [of |-> of, k |-> k]
NoTag == -1

Meta(seq, offset, tag) == [seq |-> seq, offset |-> offset, len |-> tag.len,
                           ts |-> tag.ts, idr |-> tag.idr]

NoMeta == [seq |-> -1, offset |-> 0, len |-> 0, ts |-> 0, idr |-> "none"]
AtRest == [stage |-> "idle"]
Idle == [at |-> "idle", meta |-> NoMeta, from |-> NoMeta, bytes |-> <<>>]

\* Bytes appended before the next tag.
Written == IF log = <<>> THEN 0 ELSE log[Len(log)].before + log[Len(log)].tag.len

-----------------------------------------------------------------------------
Wrap(x) == x % Capacity

\* The cursor after len bytes.
NewCursor(off, len) == Wrap(off + len)

\* (Mutant: a range that wraps covers nothing at the start of the file.)
CoversNoWrap(start, len, pos) == len > 0 /\ start <= pos /\ pos < start + len

\* Does the range of `len` bytes from `start`, wrapping, cover offset `pos`?
Covers(start, len, pos) ==
  /\ len > 0
  /\ \/ start <= pos /\ pos < start + len
     \/ pos < start + len - Capacity

WriteOverlaps(off, len, meta) ==
  \/ Covers(off, len, meta.offset)
  \/ Covers(meta.offset, meta.len, off)

\* How far cell c is ahead of offset off.
Ahead(off, c) == Wrap(c + Capacity - off)

\* The file after the first n bytes of tag `of` are written at off.
Overwritten(off, n, of) ==
  [c \in Cells |-> IF Ahead(off, c) < n THEN Byte(of, Ahead(off, c)) ELSE file[c]]

\* The bytes of a meta's range, as the two reads of try_read_seq join them.
BytesAt(meta) == [k \in 1..meta.len |-> file[Wrap(meta.offset + k - 1)]]

\* The meta with sequence number s, found by its distance from the front.
Found(s) == /\ index # <<>>
            /\ s >= index[1].seq
            /\ s - index[1].seq < Len(index)
At(s) == index[s - index[1].seq + 1]

-----------------------------------------------------------------------------
Init == /\ index = <<>>
        /\ idrIndex = <<>>
        /\ nextSeq = 0
        /\ writeCursor = 0
        /\ indexedBytes = 0
        /\ file = [c \in Cells |-> Byte(NoTag, 0)]
        /\ lock = {}
        /\ ingest = AtRest
        /\ reader = [r \in Readers |-> Idle]
        /\ log = <<>>

\* (Mutant: an evicted keyframe stays in the keyframe index.)
PopFrontKeepsIdr ==
  /\ index' = Tail(index)
  /\ indexedBytes' = indexedBytes - index[1].len
  /\ UNCHANGED <<idrIndex, nextSeq, writeCursor>>

\* The front tag leaves the index, and the keyframe index with it.
PopFront ==
  /\ index' = Tail(index)
  /\ indexedBytes' = indexedBytes - index[1].len
  /\ idrIndex' = IF /\ index[1].idr # "none"
                    /\ idrIndex # <<>>
                    /\ idrIndex[1].seq = index[1].seq
                 THEN Tail(idrIndex)
                 ELSE idrIndex
  /\ UNCHANGED <<nextSeq, writeCursor>>

(***************************************************************************)
(* append: a tag over half the ring is refused; otherwise the lock is      *)
(* taken, every tag about to be overwritten leaves the index, the bytes    *)
(* are written, and the tag is indexed.                                    *)
(***************************************************************************)
BeginAppend(tag) ==
  /\ nextSeq < MaxSeq
  /\ ingest = AtRest
  /\ lock = {}
  /\ tag.len <= Capacity \div 2
  /\ lock' = {Ingest}
  /\ ingest' = [stage |-> "append", tag |-> tag]
  /\ UNCHANGED <<inner, file, reader, log>>

MustEvict == /\ index # <<>>
             /\ WriteOverlaps(writeCursor, ingest.tag.len, index[1])

Evict ==
  /\ ingest.stage = "append"
  /\ MustEvict
  /\ PopFront
  /\ UNCHANGED <<file, lock, ingest, reader, log>>

\* The write succeeds and the tag is indexed, before the lock is released.
Store ==
  /\ ingest.stage = "append"
  /\ ~MustEvict
  /\ LET tag  == ingest.tag
         meta == Meta(nextSeq, writeCursor, tag)
     IN  /\ file' = Overwritten(writeCursor, tag.len, Len(log))
         /\ index' = Append(index, meta)
         /\ idrIndex' = IF tag.idr = "primary" THEN Append(idrIndex, meta) ELSE idrIndex
         /\ nextSeq' = nextSeq + 1
         /\ writeCursor' = NewCursor(writeCursor, tag.len)
         /\ indexedBytes' = indexedBytes + tag.len
         /\ log' = Append(log, [tag |-> tag, before |-> Written])
  /\ lock' = lock \ {Ingest}
  /\ ingest' = AtRest
  /\ UNCHANGED reader

\* The write fails after n bytes: append returns the error.  What it evicted
\* stays evicted, and the cursor and the sequence number stay where they were.
FailToStore ==
  /\ ingest.stage = "append"
  /\ ~MustEvict
  /\ \E n \in 0..ingest.tag.len :
       file' = Overwritten(writeCursor, n, NoTag)
  /\ lock' = lock \ {Ingest}
  /\ ingest' = AtRest
  /\ UNCHANGED <<inner, reader, log>>

(***************************************************************************)
(* trim_older_than: drop leading tags older than the cutoff, stopping at   *)
(* the first one that is young enough or that a consumer still needs.      *)
(***************************************************************************)
BeginTrim(cutoff, minSeq) ==
  /\ ingest = AtRest
  /\ lock = {}
  /\ index # <<>>
  /\ lock' = {Ingest}
  /\ ingest' = [stage |-> "trim", cutoff |-> cutoff, minSeq |-> minSeq]
  /\ UNCHANGED <<inner, file, reader, log>>

MayTrim == /\ index # <<>>
           /\ index[1].seq < ingest.minSeq
           /\ index[1].ts < ingest.cutoff

TrimOne ==
  /\ ingest.stage = "trim"
  /\ MayTrim
  /\ PopFront
  /\ UNCHANGED <<file, lock, ingest, reader, log>>

EndTrim ==
  /\ ingest.stage = "trim"
  /\ ~MayTrim
  /\ lock' = lock \ {Ingest}
  /\ ingest' = AtRest
  /\ UNCHANGED <<inner, file, reader, log>>

\* (Mutant: numbers start over with each publisher.)
ClearRestartsSeq ==
  /\ lock = {}
  /\ index' = <<>>
  /\ idrIndex' = <<>>
  /\ indexedBytes' = 0
  /\ nextSeq' = 0
  /\ UNCHANGED <<writeCursor, file, lock, ingest, reader, log>>

\* (Mutant: the byte count survives.)
ClearKeepsBytes ==
  /\ lock = {}
  /\ index' = <<>>
  /\ idrIndex' = <<>>
  /\ UNCHANGED <<nextSeq, writeCursor, indexedBytes, file, lock, ingest, reader, log>>

\* clear: a new publisher starts with an empty index.  The sequence counter
\* and the cursor carry on.
Clear ==
  /\ lock = {}
  /\ index' = <<>>
  /\ idrIndex' = <<>>
  /\ indexedBytes' = 0
  /\ UNCHANGED <<nextSeq, writeCursor, file, lock, ingest, reader, log>>

(***************************************************************************)
(* A reader: find_by_seq gives it a meta, the pump paces, and only then    *)
(* try_read_seq looks the number up again and reads the bytes.             *)
(***************************************************************************)
Find(r, s) ==
  /\ reader[r].at = "idle"
  /\ lock = {}
  /\ Found(s)
  /\ reader' = [reader EXCEPT ![r] =
                [at |-> "found", meta |-> At(s), from |-> NoMeta, bytes |-> <<>>]]
  /\ UNCHANGED <<inner, file, lock, ingest, log>>

\* (Mutant: the lock is let go between the lookup and the disk.)
BeginReadUnlocked(r) ==
  /\ reader[r].at = "found"
  /\ lock = {}
  /\ Found(reader[r].meta.seq)
  /\ reader' = [reader EXCEPT ![r].at = "reading", ![r].from = At(reader[r].meta.seq)]
  /\ UNCHANGED <<inner, file, lock, ingest, log>>

BeginRead(r) ==
  /\ reader[r].at = "found"
  /\ lock = {}
  /\ Found(reader[r].meta.seq)
  /\ reader' = [reader EXCEPT ![r].at = "reading", ![r].from = At(reader[r].meta.seq)]
  /\ lock' = {r}
  /\ UNCHANGED <<inner, file, ingest, log>>

\* The tag left the window since it was found: the read answers None.
MissRead(r) ==
  /\ reader[r].at = "found"
  /\ lock = {}
  /\ ~Found(reader[r].meta.seq)
  /\ reader' = [reader EXCEPT ![r] = Idle]
  /\ UNCHANGED <<inner, file, lock, ingest, log>>

\* (Mutant: only the part before the end of the file is read.)
EndReadNoWrap(r) ==
  /\ reader[r].at = "reading"
  /\ LET from == reader[r].from
     IN  reader' = [reader EXCEPT ![r].at = "read",
           ![r].bytes = [k \in 1..from.len |-> IF from.offset + k > Capacity
                                              THEN Byte(NoTag, 0)
                                              ELSE file[from.offset + k - 1]]]
  /\ lock' = lock \ {r}
  /\ UNCHANGED <<inner, file, ingest, log>>

EndRead(r) ==
  /\ reader[r].at = "reading"
  /\ reader' = [reader EXCEPT ![r].at = "read", ![r].bytes = BytesAt(reader[r].from)]
  /\ lock' = lock \ {r}
  /\ UNCHANGED <<inner, file, ingest, log>>

\* A disk error while reading.
FailRead(r) ==
  /\ reader[r].at = "reading"
  /\ reader' = [reader EXCEPT ![r] = Idle]
  /\ lock' = lock \ {r}
  /\ UNCHANGED <<inner, file, ingest, log>>

\* The pump has sent the bytes and moves on.
UseBytes(r) ==
  /\ reader[r].at = "read"
  /\ reader' = [reader EXCEPT ![r] = Idle]
  /\ UNCHANGED <<inner, file, lock, ingest, log>>

Read(r) == \/ \E s \in 0..nextSeq : Find(r, s)
           \/ BeginRead(r)
           \/ MissRead(r)
           \/ EndRead(r)
           \/ FailRead(r)
           \/ UseBytes(r)

Next == \/ \E tag \in Tags : BeginAppend(tag)
        \/ Evict
        \/ Store
        \/ FailToStore
        \/ \E cutoff \in Cutoffs, minSeq \in 0..nextSeq : BeginTrim(cutoff, minSeq)
        \/ TrimOne
        \/ EndTrim
        \/ Clear
        \/ \E r \in Readers : Read(r)

Spec == Init /\ [][Next]_vars

-----------------------------------------------------------------------------
LogEntry == [tag : Tag, before : Nat]
ByteSet == [of : Nat \cup {NoTag}, k : Nat]
MetaSet == [seq : Nat, offset : Cells, len : Nat, ts : Nat, idr : Idr]

\* The variables hold values of their types.
TypeOK ==
  /\ index \in Seq(MetaSet)
  /\ idrIndex \in Seq(MetaSet)
  /\ nextSeq \in Nat
  /\ writeCursor \in Cells
  /\ indexedBytes \in Nat
  /\ file \in [Cells -> ByteSet]
  /\ lock \subseteq Readers \cup {Ingest}
  /\ log \in Seq(LogEntry)
  /\ ingest \in {AtRest} \cup [stage : {"append"}, tag : Tags]
                         \cup [stage : {"trim"}, cutoff : Nat, minSeq : Nat]
  /\ reader \in [Readers -> [at    : {"idle", "found", "reading", "read"},
                             meta  : MetaSet \cup {NoMeta},
                             from  : MetaSet \cup {NoMeta},
                             bytes : Seq(ByteSet)]]

\* Sequence numbers in the index are consecutive and end at the newest tag
\* ever appended: the lookups of find_by_seq and try_read_seq are an
\* addition, and a number is never used for two tags (clear keeps counting).
SeqsAreConsecutive ==
  /\ nextSeq = Len(log)
  /\ \A i \in 1..Len(index) : index[i].seq = nextSeq - Len(index) + i - 1

\* The bytes of a tag appended as number s, when nothing is missing.
WholeTag(s) == [k \in 1..log[s + 1].tag.len |-> Byte(s, k - 1)]

\* Every tag the index lists can be read back whole: no later append, none
\* that failed half way either, has written over a byte of it.
IndexedTagsAreIntact ==
  \A i \in 1..Len(index) : BytesAt(index[i]) = WholeTag(index[i].seq)

\* A reader's bytes are those of the tag it found before it waited, however
\* long the wait and whatever was appended, trimmed or cleared meanwhile: the
\* pump sends them under the timestamp and flags of the meta it found.
TagOf(m) == [len |-> m.len, ts |-> m.ts, idr |-> m.idr]
ReadsAreWhole ==
  \A r \in Readers :
    reader[r].at = "read" =>
      /\ reader[r].bytes = WholeTag(reader[r].meta.seq)
      /\ TagOf(reader[r].meta) = log[reader[r].meta.seq + 1].tag

\* The keyframe index is the primary keyframes of the index, in order, so a
\* cut never lands on a tag that is gone and never misses one that is there,
\* and partition_point searches a sorted array of sequence numbers.
KeyframesAreIndexed ==
  /\ {idrIndex[i] : i \in DOMAIN idrIndex}
       = {m \in {index[i] : i \in DOMAIN index} : m.idr = "primary"}
  /\ \A i, j \in DOMAIN idrIndex : i < j => idrIndex[i].seq < idrIndex[j].seq

\* The running byte count is the bytes from the front tag to the newest and
\* never exceeds the file: the u64 subtraction cannot underflow, and
\* is_saturated compares a true figure.
IndexedBytesIsExact ==
  /\ indexedBytes = IF index = <<>> THEN 0
                    ELSE Written - log[index[1].seq + 1].before
  /\ indexedBytes <= Capacity

\* The promise of TagWindow, the bytes read standing for the tag they are.
Handed(r) == IF reader[r].at = "read" /\ reader[r].bytes = WholeTag(reader[r].meta.seq)
             THEN [seq |-> reader[r].meta.seq,
                   tag |-> log[reader[r].meta.seq + 1].tag]
             ELSE IF reader[r].at = "read"
                  THEN [seq |-> NoTag, tag |-> <<>>]
                  ELSE [seq |-> 0, tag |-> <<>>]

Window == INSTANCE TagWindow WITH
            log   <- [i \in 1..Len(log) |-> log[i].tag],
            first <- IF index = <<>> THEN nextSeq ELSE index[1].seq,
            given <- [r \in Readers |-> Handed(r)]

\* Every behaviour of the byte-level buffer is one of the abstract window:
\* the window never moves back and a reader gets the tag it asked for.
ImplementsTagWindow == Window!Spec
=============================================================================
