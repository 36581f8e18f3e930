--------------------------- MODULE DiskRing_proofs ---------------------------
(***************************************************************************)
(* Proofs about DiskRing for every capacity, set of tags and readers.      *)
(*                                                                         *)
(* The argument: count bytes from the first one ever appended.  The tags   *)
(* in the index are the last ones of the log, laid end to end up to the    *)
(* byte count Written, and the oldest starts at most Capacity bytes before *)
(* it.  Two different bytes of such a window never share a cell, so what   *)
(* an append overwrites belongs to tags it has just evicted.               *)
(***************************************************************************)
EXTENDS DiskRing, TLAPS

\* The byte count at which the present lap of the file began, and the cell
\* of the byte numbered p when p is at most one lap back.
LapStart == Written - writeCursor
Place(p) == IF p >= LapStart THEN p - LapStart ELSE p - LapStart + Capacity

Before(s) == log[s + 1].before
Length(s) == log[s + 1].tag.len

\* The log lays tags end to end.
LogIsContiguous ==
  \A i \in 1..Len(log) :
    /\ log[i].before + log[i].tag.len <= Written
    /\ i < Len(log) => log[i + 1].before = log[i].before + log[i].tag.len
    /\ \A j \in 1..Len(log) : i < j => log[i].before + log[i].tag.len <= log[j].before

\* A meta describes the tag of the log with its number.
Describes(m) == /\ m.seq \in 0..(nextSeq - 1)
                /\ m.len = Length(m.seq)
                /\ m.ts = log[m.seq + 1].tag.ts
                /\ m.idr = log[m.seq + 1].tag.idr

\* The indexed tags lie in the last Capacity bytes, each at its place.
LaidOutAt(m) == /\ Describes(m)
                /\ Written <= Before(m.seq) + Capacity
                /\ m.offset = Place(Before(m.seq))
LaidOut == \A i \in 1..Len(index) : LaidOutAt(index[i])

\* The lock is held exactly by the task inside a critical section.
LockInv ==
  /\ ingest # AtRest => lock = {Ingest}
  /\ \A r \in Readers : reader[r].at = "reading" => lock = {r}

IngestInv == ingest.stage = "append" => ingest.tag.len <= Capacity

\* What a reader found stays what the log says; while it reads, its tag is
\* in the index; what it has read is the whole tag.
ReaderOK(r) ==
  /\ reader[r].at # "idle" => /\ reader[r].meta \in MetaSet
                              /\ Describes(reader[r].meta)
  /\ reader[r].at = "reading" => /\ Found(reader[r].meta.seq)
                                 /\ reader[r].from = At(reader[r].meta.seq)
  /\ reader[r].at = "read" => reader[r].bytes = WholeTag(reader[r].meta.seq)
ReaderInv == \A r \in Readers : ReaderOK(r)

\* The part of the invariant about the ring itself, and the part about the
\* tasks that use it.
RingType == /\ index \in Seq(MetaSet)
            /\ idrIndex \in Seq(MetaSet)
            /\ nextSeq \in Nat
            /\ writeCursor \in Cells
            /\ indexedBytes \in Nat
            /\ file \in [Cells -> ByteSet]
            /\ log \in Seq(LogEntry)

RingInv == /\ RingType
           /\ SeqsAreConsecutive
           /\ LogIsContiguous
           /\ LaidOut
           /\ IndexedTagsAreIntact
           /\ KeyframesAreIndexed
           /\ IndexedBytesIsExact

\* What the ingest task and a reader can be in the middle of.
IngestWork == {AtRest} \cup [stage : {"append"}, tag : Tags]
                       \cup [stage : {"trim"}, cutoff : Nat, minSeq : Nat]
ReaderEntries == [at    : {"idle", "found", "reading", "read"},
                  meta  : MetaSet \cup {NoMeta},
                  from  : MetaSet \cup {NoMeta},
                  bytes : Seq(ByteSet)]

TaskType == /\ lock \subseteq Readers \cup {Ingest}
            /\ ingest \in IngestWork
            /\ reader \in [Readers -> ReaderEntries]

TaskInv == /\ TaskType
           /\ LockInv
           /\ IngestInv
           /\ ReaderInv

IInv == RingInv /\ TaskInv

-----------------------------------------------------------------------------
\* Offsets never exceed twice the capacity, where wrapping is at most one
\* subtraction.
LEMMA WrapOnce ==
  \A x \in 0..(2 * Capacity - 1) :
    Wrap(x) = IF x < Capacity THEN x ELSE x - Capacity
<1>1. SUFFICES ASSUME NEW x \in 0..(2 * Capacity - 1)
               PROVE  Wrap(x) = IF x < Capacity THEN x ELSE x - Capacity
  OBVIOUS
<1>2. Capacity \in Nat /\ Capacity > 0
  BY CapacityAssumption
<1>3. CASE x < Capacity
  BY <1>2, <1>3 DEF Wrap
<1>4. CASE x >= Capacity
  BY <1>2, <1>4 DEF Wrap
<1>5. QED
  BY <1>2, <1>3, <1>4

\* Bytes written or read, at most a lap back, fall on cells.
LEMMA CellsAreWrapped ==
  \A x \in Nat : Wrap(x) \in Cells
BY CapacityAssumption DEF Wrap, Cells

\* The byte count is a number.
LEMMA WrittenIsNat ==
  ASSUME log \in Seq(LogEntry)
  PROVE  Written \in Nat
<1>1. CASE log = <<>>
  BY <1>1 DEF Written
<1>2. CASE log # <<>>
  <2>1. log[Len(log)] \in LogEntry
    BY <1>2
  <2>2. log[Len(log)].tag \in Tag /\ log[Len(log)].before \in Nat
    BY <2>1 DEF LogEntry
  <2>3. log[Len(log)].tag.len \in Nat
    BY <2>2 DEF Tag
  <2>4. QED
    BY <1>2, <2>2, <2>3 DEF Written
<1>3. QED
  BY <1>1, <1>2

\* Whatever touches neither the ring, the file nor the history keeps RingInv.
LEMMA RingUnchanged ==
  ASSUME RingInv, UNCHANGED <<inner, file, log>>
  PROVE  RingInv'
<1> USE DEF RingInv, inner
<1>1. Written' = Written
  BY DEF Written
<1>2. RingType' /\ SeqsAreConsecutive' /\ KeyframesAreIndexed'
  BY DEF RingType, SeqsAreConsecutive, KeyframesAreIndexed
<1>3. LogIsContiguous' /\ IndexedBytesIsExact'
  BY <1>1 DEF LogIsContiguous, IndexedBytesIsExact
<1>4. LaidOut'
  BY <1>1 DEF LaidOut, LaidOutAt, Describes, Before, Length, Place, LapStart
<1>5. IndexedTagsAreIntact'
  BY DEF IndexedTagsAreIntact, BytesAt, WholeTag
<1>6. QED
  BY <1>2, <1>3, <1>4, <1>5

-----------------------------------------------------------------------------
\* Dropping the oldest tag, to make room or to trim.
LEMMA PopFrontKeepsRing ==
  ASSUME RingInv, index # <<>>, PopFront, UNCHANGED <<file, log>>
  PROVE  RingInv'
<1> USE DEF RingInv
<1>1. /\ index \in Seq(MetaSet)
      /\ Len(index) \in Nat /\ Len(index) > 0
      /\ index' = Tail(index)
      /\ index' \in Seq(MetaSet)
      /\ Len(index') = Len(index) - 1
      /\ \A i \in 1..Len(index') : index'[i] = index[i + 1]
  BY DEF RingType, PopFront
<1>2. UNCHANGED <<nextSeq, writeCursor, file, log>>
  BY DEF PopFront
<1>3. Written' = Written /\ LapStart' = LapStart
  BY <1>2 DEF Written, LapStart
<1>4. \A i \in 1..Len(index) : index[i] \in MetaSet
  BY <1>1
<1>5. SeqsAreConsecutive'
  BY <1>1, <1>2 DEF SeqsAreConsecutive
<1>6. LogIsContiguous'
  BY <1>2, <1>3 DEF LogIsContiguous
<1>7. LaidOut'
  <2> SUFFICES ASSUME NEW i \in 1..Len(index')
               PROVE  LaidOutAt(index[i])'
    BY DEF LaidOut
  <2>1. i + 1 \in 1..Len(index) /\ index'[i] = index[i + 1]
    BY <1>1
  <2>2. QED
    BY <2>1, <1>2, <1>3 DEF LaidOut, LaidOutAt, Describes, Before, Length, Place, LapStart
<1>8. IndexedTagsAreIntact'
  <2> SUFFICES ASSUME NEW i \in 1..Len(index')
               PROVE  (BytesAt(index[i]) = WholeTag(index[i].seq))'
    BY DEF IndexedTagsAreIntact
  <2>1. i + 1 \in 1..Len(index) /\ index'[i] = index[i + 1]
    BY <1>1
  <2>2. BytesAt(index[i + 1]) = WholeTag(index[i + 1].seq)
    BY <2>1 DEF IndexedTagsAreIntact
  <2>3. QED
    BY <2>1, <2>2, <1>2 DEF BytesAt, WholeTag
<1>9. IndexedBytesIsExact' /\ indexedBytes' \in Nat
  <2>1. /\ index[1] \in MetaSet
        /\ Describes(index[1])
        /\ nextSeq = Len(log)
        /\ nextSeq \in Nat
        /\ index[1].seq = nextSeq - Len(index)
    BY <1>1, <1>4 DEF LaidOut, LaidOutAt, SeqsAreConsecutive, RingType
  <2>2. DEFINE s == index[1].seq + 1
  <2>3. s \in 1..Len(log) /\ s \in Nat
    BY <2>1 DEF Describes, RingType, MetaSet
  <2>4. /\ log[s].before \in Nat
        /\ log[s].tag.len \in Nat
        /\ index[1].len = log[s].tag.len
    <3>1. log[s] \in LogEntry
      BY <2>3 DEF RingType
    <3>2. log[s].tag \in Tag /\ log[s].before \in Nat
      BY <3>1 DEF LogEntry
    <3>3. log[s].tag.len \in Nat
      BY <3>2 DEF Tag
    <3>4. QED
      BY <3>2, <3>3, <2>1 DEF Describes, Length
  <2>5. indexedBytes' = Written - log[s].before - log[s].tag.len
    BY <1>1, <2>4 DEF PopFront, IndexedBytesIsExact
  <2>6. Written \in Nat
    BY WrittenIsNat DEF RingType
  <2>7. CASE index' = <<>>
    <3>1. s = Len(log)
      <4>1. Len(index) = 1
        BY <1>1, <2>7
      <4>2. QED
        BY <4>1, <2>1
    <3>2. Written = log[s].before + log[s].tag.len
      BY <3>1, <2>3 DEF Written
    <3>3. indexedBytes' = 0
      BY <3>2, <2>4, <2>5
    <3>4. QED
      BY <3>3, <2>7, CapacityAssumption DEF IndexedBytesIsExact
  <2>8. CASE index' # <<>>
    <3>1. s < Len(log)
      BY <2>1, <2>8, <1>1 DEF RingType
    <3>2. log[s + 1].before = log[s].before + log[s].tag.len
      BY <3>1, <2>3 DEF LogIsContiguous
    <3>3. index'[1].seq + 1 = s + 1
      <4>1. Len(index') > 0 /\ index'[1] = index[2] /\ 2 \in 1..Len(index)
        BY <1>1, <2>8
      <4>2. index[2].seq = nextSeq - Len(index) + 2 - 1
        BY <4>1 DEF SeqsAreConsecutive
      <4>3. QED
        BY <4>1, <4>2, <2>1, <1>1 DEF RingType
    <3>4. log[s].before + log[s].tag.len <= Written
      BY <2>3 DEF LogIsContiguous
    <3>5. indexedBytes' <= Capacity
      <4>1. indexedBytes <= Capacity /\ indexedBytes' = indexedBytes - log[s].tag.len
        BY <2>4, <1>1 DEF IndexedBytesIsExact, PopFront
      <4>2. indexedBytes \in Nat
        BY DEF RingType
      <4>3. QED
        BY <4>1, <4>2, <2>4, CapacityAssumption
    <3>6. indexedBytes' = Written' - log'[index'[1].seq + 1].before
      <4>1. log'[index'[1].seq + 1].before = log[s].before + log[s].tag.len
        BY <3>2, <3>3, <1>2
      <4>2. QED
        BY <4>1, <2>4, <2>5, <2>6, <1>3
    <3>7. indexedBytes' \in Nat
      BY <3>4, <2>4, <2>5, <2>6
    <3>8. QED
      BY <3>5, <3>6, <3>7, <2>8 DEF IndexedBytesIsExact
  <2>9. QED
    BY <2>7, <2>8
<1>10. idrIndex' \in Seq(MetaSet) /\ KeyframesAreIndexed'
  <2>1. idrIndex \in Seq(MetaSet) /\ index \in Seq(MetaSet) /\ nextSeq \in Nat
    BY DEF RingType
  <2>2. \A i, j \in 1..Len(index) : index[i].seq = index[j].seq => i = j
    BY <1>1, <2>1 DEF SeqsAreConsecutive
  <2>3. \A i \in 1..Len(index) : index[1].seq <= index[i].seq
    BY <1>1, <2>1 DEF SeqsAreConsecutive
  <2>4. \A k \in 1..Len(idrIndex) :
          idrIndex[k].idr = "primary" /\ \E i \in 1..Len(index) : idrIndex[k] = index[i]
    BY <2>1 DEF KeyframesAreIndexed
  <2>5. \A i \in 1..Len(index) :
          index[i].idr = "primary" => \E k \in 1..Len(idrIndex) : idrIndex[k] = index[i]
    BY <2>1 DEF KeyframesAreIndexed
  <2>6. CASE index[1].idr = "primary"
    <3>1. PICK k \in 1..Len(idrIndex) : idrIndex[k] = index[1]
      BY <2>5, <2>6, <1>1
    <3>2. idrIndex # <<>> /\ 1 \in 1..Len(idrIndex)
      BY <3>1, <2>1
    <3>3. PICK t \in 1..Len(index) : idrIndex[1] = index[t]
      BY <3>2, <2>4
    <3>4. idrIndex[1].seq <= idrIndex[k].seq
      <4>1. CASE k = 1
        BY <4>1, <1>1, <1>4, <3>1 DEF MetaSet
      <4>2. CASE 1 < k
        <5>1. idrIndex[1].seq < idrIndex[k].seq
          BY <4>2, <3>1, <3>2, <2>1 DEF KeyframesAreIndexed
        <5>2. idrIndex[1].seq \in Nat /\ idrIndex[k].seq \in Nat
          BY <3>1, <3>3, <1>1, <1>4 DEF MetaSet
        <5>3. QED
          BY <5>1, <5>2
      <4>3. QED
        BY <4>1, <4>2, <3>1
    <3>5. t = 1
      <4>1. index[t].seq = index[1].seq
        <5>1. index[t].seq \in Nat /\ index[1].seq \in Nat
          BY <1>1, <1>4, <3>3 DEF MetaSet
        <5>2. QED
          BY <5>1, <3>1, <3>3, <3>4, <2>3
      <4>2. QED
        BY <4>1, <2>2, <1>1
    <3>6. idrIndex' = Tail(idrIndex)
      BY <2>6, <3>2, <3>3, <3>5 DEF PopFront
    <3>7. /\ idrIndex' \in Seq(MetaSet)
          /\ Len(idrIndex') = Len(idrIndex) - 1
          /\ Len(idrIndex) \in Nat
          /\ \A x \in 1..Len(idrIndex') : idrIndex'[x] = idrIndex[x + 1]
      BY <3>2, <3>6, <2>1
    <3>8. \A x \in 1..Len(idrIndex') :
            idrIndex'[x].idr = "primary" /\ \E y \in 1..Len(index') : idrIndex'[x] = index'[y]
      <4> TAKE x \in 1..Len(idrIndex')
      <4>1. x + 1 \in 1..Len(idrIndex) /\ idrIndex'[x] = idrIndex[x + 1] /\ 1 < x + 1
        BY <3>7
      <4>2. PICK y \in 1..Len(index) : idrIndex[x + 1] = index[y]
        BY <4>1, <2>4
      <4>3. idrIndex[1].seq < idrIndex[x + 1].seq
        BY <4>1, <3>2, <2>1 DEF KeyframesAreIndexed
      <4>4. y # 1
        BY <4>2, <4>3, <3>3, <3>5, <1>1, <1>4 DEF MetaSet
      <4>5. y - 1 \in 1..Len(index') /\ index'[y - 1] = index[y]
        BY <4>4, <1>1
      <4>6. QED
        BY <4>1, <4>2, <4>5, <2>4
    <3>9. \A y \in 1..Len(index') :
            index'[y].idr = "primary" => \E x \in 1..Len(idrIndex') : idrIndex'[x] = index'[y]
      <4> SUFFICES ASSUME NEW y \in 1..Len(index'), index'[y].idr = "primary"
                   PROVE  \E x \in 1..Len(idrIndex') : idrIndex'[x] = index'[y]
        OBVIOUS
      <4>1. y + 1 \in 1..Len(index) /\ index'[y] = index[y + 1]
        BY <1>1
      <4>2. PICK x \in 1..Len(idrIndex) : idrIndex[x] = index[y + 1]
        BY <4>1, <2>5
      <4>3. x # 1
        BY <4>1, <4>2, <3>3, <3>5, <2>2, <1>1
      <4>4. x - 1 \in 1..Len(idrIndex') /\ idrIndex'[x - 1] = idrIndex[x]
        BY <4>3, <3>7
      <4>5. QED
        BY <4>1, <4>2, <4>4
    <3>10. \A x, y \in 1..Len(idrIndex') : x < y => idrIndex'[x].seq < idrIndex'[y].seq
      <4> SUFFICES ASSUME NEW x \in 1..Len(idrIndex'), NEW y \in 1..Len(idrIndex'), x < y
                   PROVE  idrIndex'[x].seq < idrIndex'[y].seq
        OBVIOUS
      <4>1. x + 1 \in 1..Len(idrIndex) /\ y + 1 \in 1..Len(idrIndex) /\ x + 1 < y + 1
        BY <3>7
      <4>2. idrIndex[x + 1].seq < idrIndex[y + 1].seq
        BY <4>1, <2>1 DEF KeyframesAreIndexed
      <4>3. QED
        BY <4>2, <3>7
    <3>11. DOMAIN idrIndex' = 1..Len(idrIndex') /\ DOMAIN index' = 1..Len(index')
      BY <3>7, <1>1
    <3>12. {idrIndex'[i] : i \in 1..Len(idrIndex')}
             = {m \in {index'[i] : i \in 1..Len(index')} : m.idr = "primary"}
      <4>1. ASSUME NEW x \in 1..Len(idrIndex')
            PROVE  idrIndex'[x] \in {m \in {index'[i] : i \in 1..Len(index')} : m.idr = "primary"}
        BY <3>8
      <4>2. ASSUME NEW y \in 1..Len(index'), index'[y].idr = "primary"
            PROVE  index'[y] \in {idrIndex'[i] : i \in 1..Len(idrIndex')}
        BY <4>2, <3>9
      <4>3. QED
        BY <4>1, <4>2
    <3>13. KeyframesAreIndexed'
      <4>1. {idrIndex'[i] : i \in DOMAIN idrIndex'}
              = {m \in {index'[i] : i \in DOMAIN index'} : m.idr = "primary"}
        BY <3>11, <3>12, Zenon
      <4>2. \A x, y \in DOMAIN idrIndex' : x < y => idrIndex'[x].seq < idrIndex'[y].seq
        BY <3>10, <3>11, Zenon
      <4>3. QED
        BY <4>1, <4>2, Zenon DEF KeyframesAreIndexed
    <3>14. QED
      BY <3>7, <3>13
  <2>7. CASE index[1].idr # "primary"
    <3>1. idrIndex' = idrIndex
      <4>1. SUFFICES ASSUME idrIndex # <<>>, idrIndex[1].seq = index[1].seq
                     PROVE  FALSE
        BY DEF PopFront
      <4>2. PICK i \in 1..Len(index) : idrIndex[1] = index[i] /\ idrIndex[1].idr = "primary"
        BY <4>1, <2>1, <2>4
      <4>3. i = 1
        BY <4>1, <4>2, <2>2, <1>1
      <4>4. QED
        BY <4>2, <4>3, <2>7
    <3>2. \A m : m.idr = "primary" =>
            ((\E i \in 1..Len(index) : index[i] = m)
               <=> (\E i \in 1..Len(index') : index'[i] = m))
      <4> SUFFICES ASSUME NEW m, m.idr = "primary"
                   PROVE  (\E i \in 1..Len(index) : index[i] = m)
                            <=> (\E i \in 1..Len(index') : index'[i] = m)
        OBVIOUS
      <4>1. ASSUME NEW i \in 1..Len(index), index[i] = m
            PROVE  \E j \in 1..Len(index') : index'[j] = m
        <5>1. i # 1
          BY <4>1, <2>7
        <5>2. i - 1 \in 1..Len(index') /\ index'[i - 1] = m
          BY <5>1, <4>1, <1>1
        <5>3. QED
          BY <5>2
      <4>2. ASSUME NEW i \in 1..Len(index'), index'[i] = m
            PROVE  \E j \in 1..Len(index) : index[j] = m
        BY <4>2, <1>1
      <4>3. QED
        BY <4>1, <4>2
    <3>3. DOMAIN index = 1..Len(index) /\ DOMAIN index' = 1..Len(index')
      BY <1>1
    <3>4. {m \in {index[i] : i \in DOMAIN index} : m.idr = "primary"}
            = {m \in {index'[i] : i \in DOMAIN index'} : m.idr = "primary"}
      BY <3>2, <3>3
    <3>5. QED
      BY <3>1, <3>4, <2>1 DEF KeyframesAreIndexed
  <2>8. QED
    BY <2>6, <2>7
<1>11. QED
  BY <1>1, <1>2, <1>5, <1>6, <1>7, <1>8, <1>9, <1>10 DEF RingType

-----------------------------------------------------------------------------
\* clear leaves nothing to go wrong.
LEMMA ClearKeepsRing ==
  ASSUME RingInv, Clear
  PROVE  RingInv'
<1> USE DEF RingInv
<1>1. /\ index' = <<>> /\ idrIndex' = <<>> /\ indexedBytes' = 0
      /\ UNCHANGED <<nextSeq, writeCursor, file, log>>
  BY DEF Clear
<1>2. Written' = Written
  BY <1>1 DEF Written
<1>3. Len(index') = 0 /\ DOMAIN index' = {} /\ DOMAIN idrIndex' = {}
  BY <1>1
<1>4. RingType'
  BY <1>1 DEF RingType
<1>5. SeqsAreConsecutive' /\ LogIsContiguous'
  BY <1>1, <1>2, <1>3 DEF SeqsAreConsecutive, LogIsContiguous
<1>6. LaidOut' /\ IndexedTagsAreIntact'
  BY <1>3 DEF LaidOut, IndexedTagsAreIntact
<1>7. KeyframesAreIndexed'
  BY <1>3 DEF KeyframesAreIndexed
<1>8. IndexedBytesIsExact'
  BY <1>1, CapacityAssumption DEF IndexedBytesIsExact
<1>9. QED
  BY <1>4, <1>5, <1>6, <1>7, <1>8

-----------------------------------------------------------------------------
\* The arithmetic of one lap: the byte numbered p, at most a lap back from
\* the cursor, is that many cells short of a whole lap ahead of it.
LEMMA AheadOfCursor ==
  ASSUME writeCursor \in Cells, Written \in Nat,
         NEW p \in Nat, p < Written, Written <= p + Capacity
  PROVE  /\ Wrap(Place(p)) = Place(p)
         /\ Place(p) \in Cells
         /\ Ahead(writeCursor, Place(p)) = p - Written + Capacity
<1>1. Capacity \in Nat /\ Capacity > 0 /\ writeCursor \in 0..(Capacity - 1)
  BY CapacityAssumption DEF Cells
<1>2. LapStart = Written - writeCursor /\ LapStart \in Int
  BY <1>1 DEF LapStart
<1>3. Place(p) \in Cells
  BY <1>1, <1>2 DEF Place, Cells
<1>4. Wrap(Place(p)) = Place(p)
  BY <1>1, <1>3, WrapOnce DEF Cells
<1>5. CASE p >= LapStart
  <2>1. Place(p) = p - LapStart
    BY <1>5 DEF Place
  <2>2. Place(p) + Capacity - writeCursor = p - Written + Capacity
    BY <2>1, <1>1, <1>2
  <2>3. p - Written + Capacity \in 0..(Capacity - 1)
    BY <1>1
  <2>4. QED
    BY <1>1, <1>3, <1>4, <2>2, <2>3, WrapOnce DEF Ahead
<1>6. CASE p < LapStart
  <2>1. Place(p) = p - LapStart + Capacity
    BY <1>6, <1>2 DEF Place
  <2>2. Place(p) + Capacity - writeCursor = p - Written + 2 * Capacity
    BY <2>1, <1>1, <1>2
  <2>3. p - Written + 2 * Capacity \in Capacity..(2 * Capacity - 1)
    BY <1>1
  <2>4. QED
    BY <1>1, <1>3, <1>4, <2>2, <2>3, WrapOnce DEF Ahead
<1>7. QED
  BY <1>2, <1>5, <1>6

\* The j-th byte after the one numbered b is j cells on, wrapping.
LEMMA PlaceOfByte ==
  ASSUME writeCursor \in Cells, Written \in Nat,
         NEW b \in Nat, NEW j \in Nat, b + j < Written, Written <= b + Capacity
  PROVE  Wrap(Place(b) + j) = Place(b + j)
<1>1. Capacity \in Nat /\ Capacity > 0 /\ writeCursor \in 0..(Capacity - 1)
  BY CapacityAssumption DEF Cells
<1>2. LapStart = Written - writeCursor /\ LapStart \in Int
  BY <1>1 DEF LapStart
<1>3. Place(b) + j \in 0..(2 * Capacity - 1)
  BY <1>1, <1>2 DEF Place
<1>4. Wrap(Place(b) + j) = IF Place(b) + j < Capacity
                           THEN Place(b) + j ELSE Place(b) + j - Capacity
  <2> DEFINE x == Place(b) + j
  <2>1. x \in 0..(2 * Capacity - 1)
    BY <1>3
  <2> HIDE DEF x
  <2>2. Wrap(x) = IF x < Capacity THEN x ELSE x - Capacity
    BY <2>1, WrapOnce
  <2>3. Place(b) \in Int
    BY <1>1, <1>2 DEF Place
  <2>4. QED
    BY <1>1, <2>1, <2>2, <2>3 DEF x
<1>5. QED
  BY <1>1, <1>2, <1>4 DEF Place

\* What write_overlaps leaves alone: if the front tag is not overlapped, the
\* write ends before the front tag's first byte comes round again.
LEMMA RoomAfterEviction ==
  ASSUME writeCursor \in Cells, Written \in Nat,
         NEW m \in MetaSet, NEW len \in Nat,
         Before(m.seq) \in Nat, Before(m.seq) <= Written,
         Written <= Before(m.seq) + Capacity, m.offset = Place(Before(m.seq)),
         ~WriteOverlaps(writeCursor, len, m)
  PROVE  Written + len <= Before(m.seq) + Capacity
<1>1. Capacity \in Nat /\ Capacity > 0 /\ writeCursor \in 0..(Capacity - 1)
  BY CapacityAssumption DEF Cells
<1> DEFINE b == Before(m.seq)
<1>2. LapStart = Written - writeCursor /\ LapStart \in Int /\ b \in Nat
  BY <1>1 DEF LapStart
<1>3. ~Covers(writeCursor, len, Place(b))
  BY DEF WriteOverlaps
<1>4. CASE len = 0
  BY <1>4, <1>1
<1>5. CASE len > 0 /\ b >= LapStart
  <2>1. Place(b) = b - LapStart
    BY <1>5 DEF Place
  <2>2. QED
    BY <2>1, <1>1, <1>2, <1>3, <1>5 DEF Covers
<1>6. CASE len > 0 /\ b < LapStart
  <2>1. Place(b) = b - LapStart + Capacity
    BY <1>2, <1>6 DEF Place
  <2>2. QED
    BY <2>1, <1>1, <1>2, <1>3, <1>6 DEF Covers
<1>7. QED
  BY <1>2, <1>4, <1>5, <1>6

\* What the invariant says of each indexed tag, in one place.
LEMMA IndexedTag ==
  ASSUME RingInv
  PROVE  \A i \in 1..Len(index) :
           /\ index[i] \in MetaSet
           /\ index[i].seq + 1 \in 1..Len(log)
           /\ Before(index[i].seq) \in Nat
           /\ index[i].len \in Nat
           /\ Before(index[i].seq) + index[i].len <= Written
           /\ Before(index[1].seq) <= Before(index[i].seq)
           /\ LaidOutAt(index[i])
<1> USE DEF RingInv
<1> SUFFICES ASSUME NEW i \in 1..Len(index)
             PROVE  /\ index[i] \in MetaSet
                    /\ index[i].seq + 1 \in 1..Len(log)
                    /\ Before(index[i].seq) \in Nat
                    /\ index[i].len \in Nat
                    /\ Before(index[i].seq) + index[i].len <= Written
                    /\ Before(index[1].seq) <= Before(index[i].seq)
                    /\ LaidOutAt(index[i])
  OBVIOUS
<1>1. /\ index[i] \in MetaSet /\ index[1] \in MetaSet /\ LaidOutAt(index[i])
      /\ LaidOutAt(index[1]) /\ nextSeq = Len(log) /\ Len(log) \in Nat
  BY DEF RingType, LaidOut, SeqsAreConsecutive
<1>2. /\ index[i].seq + 1 \in 1..Len(log) /\ index[1].seq + 1 \in 1..Len(log)
      /\ index[i].len = log[index[i].seq + 1].tag.len
  BY <1>1 DEF LaidOutAt, Describes, Length, MetaSet
<1>3. log[index[i].seq + 1] \in LogEntry /\ log[index[1].seq + 1] \in LogEntry
  BY <1>2 DEF RingType
<1>4. /\ Before(index[i].seq) \in Nat /\ Before(index[1].seq) \in Nat
      /\ log[index[1].seq + 1].tag \in Tag
  BY <1>3 DEF LogEntry, Before
<1>5. index[i].len \in Nat /\ log[index[1].seq + 1].tag.len \in Nat
  BY <1>1, <1>4 DEF MetaSet, Tag
<1>6. Before(index[i].seq) + index[i].len <= Written
  BY <1>2 DEF LogIsContiguous, Before
<1>7. i = 1 \/ index[1].seq + 1 < index[i].seq + 1
  <2>1. Len(index) \in Nat /\ 1 \in 1..Len(index) /\ nextSeq \in Nat
    BY DEF RingType
  <2>2. /\ index[1].seq = nextSeq - Len(index)
        /\ index[i].seq = nextSeq - Len(index) + i - 1
    BY <2>1 DEF SeqsAreConsecutive
  <2>3. QED
    BY <2>1, <2>2
<1>8. Before(index[1].seq) <= Before(index[i].seq)
  <2>1. CASE i = 1
    BY <2>1, <1>4
  <2>2. CASE index[1].seq + 1 < index[i].seq + 1
    <3>1. log[index[1].seq + 1].before + log[index[1].seq + 1].tag.len
            <= log[index[i].seq + 1].before
      BY <2>2, <1>2 DEF LogIsContiguous
    <3>2. QED
      BY <3>1, <1>4, <1>5 DEF Before
  <2>3. QED
    BY <2>1, <2>2, <1>7
<1>9. QED
  BY <1>1, <1>2, <1>4, <1>5, <1>6, <1>8

-----------------------------------------------------------------------------
\* A write of at most n bytes, when n bytes fit before the front tag comes
\* round, changes no byte of an indexed tag.
LEMMA WriteSparesIndexed ==
  ASSUME RingInv,
         NEW n \in 0..Capacity, NEW of,
         \A i \in 1..Len(index) : Written + n <= Before(index[i].seq) + Capacity,
         file' = Overwritten(writeCursor, n, of)
  PROVE  \A i \in 1..Len(index) : \A k \in 1..index[i].len :
           file'[Wrap(index[i].offset + k - 1)] = file[Wrap(index[i].offset + k - 1)]
<1> SUFFICES ASSUME NEW i \in 1..Len(index), NEW k \in 1..index[i].len
             PROVE  file'[Wrap(index[i].offset + k - 1)] = file[Wrap(index[i].offset + k - 1)]
  OBVIOUS
<1>1. writeCursor \in Cells /\ Written \in Nat /\ Capacity \in Nat
  BY WrittenIsNat, CapacityAssumption DEF RingInv, RingType
<1> DEFINE b == Before(index[i].seq)
           j == k - 1
<1>2. /\ b \in Nat /\ j \in Nat /\ index[i].offset = Place(b)
      /\ b + j < Written /\ Written <= b + Capacity /\ index[i].len \in Nat
  BY IndexedTag, <1>1 DEF LaidOutAt
<1>3. index[i].offset + k - 1 = Place(b) + j
  <2>1. Place(b) \in Int
    BY <1>1, <1>2, CapacityAssumption DEF Place, LapStart, Cells
  <2>2. QED
    BY <1>2, <2>1
<1>4. Wrap(index[i].offset + k - 1) = Place(b + j)
  BY <1>1, <1>2, <1>3, PlaceOfByte
<1>5. /\ Place(b + j) \in Cells
      /\ Ahead(writeCursor, Place(b + j)) = b + j - Written + Capacity
  <2>1. b + j \in Nat /\ Written <= (b + j) + Capacity
    BY <1>1, <1>2
  <2>2. QED
    BY <1>1, <1>2, <2>1, AheadOfCursor
<1>6. ~(Ahead(writeCursor, Place(b + j)) < n)
  BY <1>1, <1>2, <1>5
<1>7. QED
  BY <1>4, <1>5, <1>6 DEF Overwritten

\* The bytes of the write itself are where the new tag's meta says.
LEMMA WriteLands ==
  ASSUME writeCursor \in Cells, NEW n \in 0..Capacity, NEW of,
         file' = Overwritten(writeCursor, n, of)
  PROVE  \A k \in 1..n : file'[Wrap(writeCursor + k - 1)] = Byte(of, k - 1)
<1> SUFFICES ASSUME NEW k \in 1..n
             PROVE  file'[Wrap(writeCursor + k - 1)] = Byte(of, k - 1)
  OBVIOUS
<1>1. Capacity \in Nat /\ Capacity > 0 /\ writeCursor \in 0..(Capacity - 1)
  BY CapacityAssumption DEF Cells
<1> DEFINE c == Wrap(writeCursor + k - 1)
<1>2. writeCursor + k - 1 \in 0..(2 * Capacity - 1)
  BY <1>1
<1>3. c = IF writeCursor + k - 1 < Capacity
          THEN writeCursor + k - 1 ELSE writeCursor + k - 1 - Capacity
  <2> DEFINE x == writeCursor + k - 1
  <2>1. x \in 0..(2 * Capacity - 1)
    BY <1>2
  <2> HIDE DEF x
  <2>2. Wrap(x) = IF x < Capacity THEN x ELSE x - Capacity
    BY <2>1, WrapOnce
  <2>3. QED
    BY <1>1, <2>1, <2>2 DEF x
<1>4. c \in 0..(Capacity - 1) /\ c \in Cells
  BY <1>1, <1>3 DEF Cells
<1> HIDE DEF c
<1>5. c + Capacity - writeCursor \in 0..(2 * Capacity - 1)
  BY <1>1, <1>4
<1>6. Wrap(c + Capacity - writeCursor) = k - 1
  BY <1>1, <1>3, <1>5, WrapOnce
<1>7. file'[c] = Byte(of, k - 1)
  BY <1>1, <1>4, <1>6 DEF Overwritten, Ahead
<1>8. QED
  BY <1>7 DEF c

\* A write leaves a file of bytes.
LEMMA WriteIsWellTyped ==
  ASSUME file \in [Cells -> ByteSet], writeCursor \in Cells, NEW n,
         NEW of \in Nat \cup {NoTag}, file' = Overwritten(writeCursor, n, of)
  PROVE  file' \in [Cells -> ByteSet]
<1>1. \A c \in Cells : Ahead(writeCursor, c) \in Nat
  BY CapacityAssumption DEF Ahead, Cells, Wrap
<1>2. \A c \in Cells : Byte(of, Ahead(writeCursor, c)) \in ByteSet
  BY <1>1 DEF Byte, ByteSet
<1>3. \A c \in Cells : file[c] \in ByteSet
  OBVIOUS
<1>4. QED
  BY <1>2, <1>3 DEF Overwritten

\* When append stops evicting, the bytes to write fit before any indexed tag
\* comes round again.
LEMMA RoomForAll ==
  ASSUME RingInv, ingest.tag.len \in Nat, ~MustEvict
  PROVE  \A i \in 1..Len(index) :
           Written + ingest.tag.len <= Before(index[i].seq) + Capacity
<1> SUFFICES ASSUME NEW i \in 1..Len(index)
             PROVE  Written + ingest.tag.len <= Before(index[i].seq) + Capacity
  OBVIOUS
<1>1. /\ writeCursor \in Cells /\ Written \in Nat /\ Capacity \in Nat
      /\ Len(index) \in Nat /\ index # <<>>
  BY WrittenIsNat, CapacityAssumption DEF RingInv, RingType
<1>2. 1 \in 1..Len(index)
  BY <1>1
<1>3. /\ index[1] \in MetaSet /\ Before(index[1].seq) \in Nat
      /\ Before(index[1].seq) <= Written
      /\ Written <= Before(index[1].seq) + Capacity
      /\ index[1].offset = Place(Before(index[1].seq))
  <2>1. /\ index[1] \in MetaSet /\ Before(index[1].seq) \in Nat
        /\ index[1].len \in Nat
        /\ Before(index[1].seq) + index[1].len <= Written
        /\ LaidOutAt(index[1])
    BY <1>2, IndexedTag
  <2>2. Before(index[1].seq) <= Written
    BY <2>1, <1>1
  <2>3. QED
    BY <2>1, <2>2 DEF LaidOutAt
<1>4. ~WriteOverlaps(writeCursor, ingest.tag.len, index[1])
  BY <1>1 DEF MustEvict
<1>5. Written + ingest.tag.len <= Before(index[1].seq) + Capacity
  BY <1>1, <1>3, <1>4, RoomAfterEviction
<1>6. Before(index[1].seq) <= Before(index[i].seq) /\ Before(index[i].seq) \in Nat
  BY IndexedTag
<1>7. QED
  BY <1>1, <1>3, <1>5, <1>6

\* A failed write loses no indexed tag.
LEMMA FailToStoreKeepsRing ==
  ASSUME RingInv, ingest.tag.len \in Nat, ingest.tag.len <= Capacity, FailToStore
  PROVE  RingInv'
<1> USE DEF RingInv
<1>1. ~MustEvict /\ UNCHANGED <<index, idrIndex, nextSeq, writeCursor, indexedBytes, log>>
  BY DEF FailToStore, inner
<1>2. PICK n \in 0..ingest.tag.len : file' = Overwritten(writeCursor, n, NoTag)
  BY DEF FailToStore
<1>3. /\ n \in 0..Capacity
      /\ \A i \in 1..Len(index) : Written + n <= Before(index[i].seq) + Capacity
  <2>1. Written \in Nat /\ Capacity \in Nat
    BY WrittenIsNat, CapacityAssumption DEF RingType
  <2>2. \A i \in 1..Len(index) :
          /\ Before(index[i].seq) \in Nat
          /\ Written + ingest.tag.len <= Before(index[i].seq) + Capacity
    BY <1>1, RoomForAll, IndexedTag
  <2>3. QED
    BY <2>1, <2>2
<1>4. \A i \in 1..Len(index) : \A k \in 1..index[i].len :
        file'[Wrap(index[i].offset + k - 1)] = file[Wrap(index[i].offset + k - 1)]
  BY <1>2, <1>3, WriteSparesIndexed
<1>5. file' \in [Cells -> ByteSet]
  BY <1>2, WriteIsWellTyped DEF RingType
<1>6. Written' = Written
  BY <1>1 DEF Written
<1>7. RingType' /\ SeqsAreConsecutive' /\ KeyframesAreIndexed'
  BY <1>1, <1>5 DEF RingType, SeqsAreConsecutive, KeyframesAreIndexed
<1>8. LogIsContiguous' /\ IndexedBytesIsExact'
  BY <1>1, <1>6 DEF LogIsContiguous, IndexedBytesIsExact
<1>9. LaidOut'
  BY <1>1, <1>6 DEF LaidOut, LaidOutAt, Describes, Before, Length, Place, LapStart
<1>10. IndexedTagsAreIntact'
  <2> SUFFICES ASSUME NEW i \in 1..Len(index)
               PROVE  (BytesAt(index[i]) = WholeTag(index[i].seq))'
    BY <1>1 DEF IndexedTagsAreIntact
  <2>1. BytesAt(index[i]) = WholeTag(index[i].seq)
    BY DEF IndexedTagsAreIntact
  <2>2. BytesAt(index[i])' = BytesAt(index[i])
    BY <1>1, <1>4 DEF BytesAt
  <2>3. WholeTag(index[i].seq)' = WholeTag(index[i].seq)
    BY <1>1 DEF WholeTag
  <2>4. QED
    BY <2>1, <2>2, <2>3
<1>11. QED
  BY <1>7, <1>8, <1>9, <1>10

-----------------------------------------------------------------------------
\* Writing and indexing a tag keeps the ring in order.
LEMMA StoreKeepsRing ==
  ASSUME RingInv, ingest.tag \in Tag, ingest.tag.len <= Capacity, Store
  PROVE  RingInv'
<1> USE DEF RingInv
<1> DEFINE tag   == ingest.tag
           len   == tag.len
           meta  == Meta(nextSeq, writeCursor, tag)
           entry == [tag |-> tag, before |-> Written]
<1>1. /\ ~MustEvict
      /\ file' = Overwritten(writeCursor, len, Len(log))
      /\ index' = Append(index, meta)
      /\ idrIndex' = IF tag.idr = "primary" THEN Append(idrIndex, meta) ELSE idrIndex
      /\ nextSeq' = nextSeq + 1
      /\ writeCursor' = Wrap(writeCursor + len)
      /\ indexedBytes' = indexedBytes + len
      /\ log' = Append(log, entry)
  BY DEF Store, NewCursor
<1>2. /\ Capacity \in Nat /\ Capacity > 0 /\ Written \in Nat
      /\ writeCursor \in Cells /\ writeCursor \in 0..(Capacity - 1)
      /\ len \in 0..Capacity /\ len \in Nat /\ tag \in Tag /\ tag.idr \in Idr
      /\ nextSeq \in Nat /\ nextSeq = Len(log) /\ indexedBytes \in Nat
  BY WrittenIsNat, CapacityAssumption DEF RingType, SeqsAreConsecutive, Cells, Tag
<1>3. \A i \in 1..Len(index) : Written + len <= Before(index[i].seq) + Capacity
  BY <1>1, <1>2, RoomForAll
<1>4. meta \in MetaSet /\ entry \in LogEntry /\ meta.seq = nextSeq /\ meta.idr = tag.idr
      /\ meta.len = len /\ meta.offset = writeCursor /\ meta.ts = tag.ts
  BY <1>2 DEF Meta, MetaSet, LogEntry, Tag
<1> HIDE DEF meta, entry
<1>5. /\ index' \in Seq(MetaSet) /\ Len(index') = Len(index) + 1 /\ Len(index) \in Nat
      /\ \A i \in 1..Len(index) : index'[i] = index[i]
      /\ index'[Len(index) + 1] = meta
      /\ index' # <<>>
  <2>1. index \in Seq(MetaSet)
    BY DEF RingType
  <2>2. /\ index' \in Seq(MetaSet) /\ Len(index') = Len(index) + 1 /\ Len(index) \in Nat
        /\ \A i \in 1..Len(index) : index'[i] = index[i]
        /\ index'[Len(index) + 1] = meta
    BY <2>1, <1>1, <1>4
  <2>3. QED
    BY <2>2
<1>6. /\ log' \in Seq(LogEntry) /\ Len(log') = Len(log) + 1 /\ Len(log) \in Nat
      /\ \A i \in 1..Len(log) : log'[i] = log[i]
      /\ log'[Len(log) + 1] = entry
      /\ log' # <<>>
  BY <1>1, <1>4 DEF RingType
<1>7. entry.before = Written /\ entry.tag = tag
  BY DEF entry
<1>8. /\ Written' = Written + len
      /\ Written' \in Nat /\ Written <= Written'
  <2>1. Written' = Written + len
    BY <1>6, <1>7 DEF Written
  <2>2. QED
    BY <2>1, <1>2
<1>9. file' \in [Cells -> ByteSet]
  BY <1>1, <1>2, WriteIsWellTyped DEF RingType
<1>10. RingType'
  <2>1. writeCursor' \in Cells
    BY <1>1, <1>2, CellsAreWrapped
  <2>2. idrIndex' \in Seq(MetaSet)
    BY <1>1, <1>4 DEF RingType
  <2>3. nextSeq' \in Nat /\ indexedBytes' \in Nat
    BY <1>1, <1>2
  <2>4. QED
    BY <1>5, <1>6, <1>9, <2>1, <2>2, <2>3 DEF RingType
<1>11. SeqsAreConsecutive'
  <2>1. nextSeq' = Len(log')
    BY <1>1, <1>2, <1>6
  <2>2. \A i \in 1..Len(index) : index[i].seq = nextSeq - Len(index) + i - 1
    BY DEF SeqsAreConsecutive
  <2>3. \A i \in 1..Len(index') : index'[i].seq = nextSeq' - Len(index') + i - 1
    BY <1>1, <1>2, <1>4, <1>5, <2>2
  <2>4. QED
    BY <2>1, <2>3 DEF SeqsAreConsecutive
<1>12. LogIsContiguous'
  <2>1. \A i \in 1..Len(log) : log[i].before \in Nat /\ log[i].tag.len \in Nat
    <3> TAKE i \in 1..Len(log)
    <3>1. log[i] \in LogEntry
      BY DEF RingType
    <3>2. log[i].before \in Nat /\ log[i].tag \in Tag
      BY <3>1 DEF LogEntry
    <3>3. QED
      BY <3>2 DEF Tag
  <2>2. SUFFICES ASSUME NEW i \in 1..Len(log')
                 PROVE  /\ log'[i].before + log'[i].tag.len <= Written'
                        /\ i < Len(log') =>
                             log'[i + 1].before = log'[i].before + log'[i].tag.len
                        /\ \A j \in 1..Len(log') :
                             i < j => log'[i].before + log'[i].tag.len <= log'[j].before
    BY DEF LogIsContiguous
  <2>3. CASE i = Len(log) + 1
    BY <2>3, <1>2, <1>6, <1>7, <1>8
  <2>4. CASE i \in 1..Len(log)
    <3>1. /\ log'[i] = log[i]
          /\ log[i].before + log[i].tag.len <= Written
          /\ i < Len(log) => log[i + 1].before = log[i].before + log[i].tag.len
          /\ \A j \in 1..Len(log) :
               i < j => log[i].before + log[i].tag.len <= log[j].before
      BY <2>4, <1>6 DEF LogIsContiguous
    <3>2. log'[i].before + log'[i].tag.len <= Written'
      <4>1. /\ log'[i].before = log[i].before /\ log'[i].tag.len = log[i].tag.len
            /\ log[i].before \in Nat /\ log[i].tag.len \in Nat
        BY <3>1, <2>1, <2>4
      <4>2. log'[i].before + log'[i].tag.len <= Written
        BY <4>1, <3>1
      <4>3. Written <= Written' /\ Written \in Nat /\ Written' \in Nat
        BY <1>2, <1>8
      <4>4. QED
        BY <4>1, <4>2, <4>3
    <3>3. ASSUME i < Len(log')
          PROVE  log'[i + 1].before = log'[i].before + log'[i].tag.len
      <4>1. CASE i < Len(log)
        <5>1. i + 1 \in 1..Len(log) /\ log'[i + 1] = log[i + 1]
          BY <4>1, <2>4, <1>6
        <5>2. QED
          BY <5>1, <3>1, <4>1
      <4>2. CASE i = Len(log)
        <5>1. log'[i + 1].before = Written
          BY <4>2, <1>6, <1>7
        <5>2. Written = log[i].before + log[i].tag.len
          BY <4>2, <2>4 DEF Written
        <5>3. QED
          BY <5>1, <5>2, <3>1
      <4>3. QED
        BY <4>1, <4>2, <2>4, <1>6
    <3>4. ASSUME NEW j \in 1..Len(log'), i < j
          PROVE  log'[i].before + log'[i].tag.len <= log'[j].before
      <4>1. CASE j = Len(log) + 1
        BY <4>1, <3>1, <1>6, <1>7
      <4>2. CASE j \in 1..Len(log)
        BY <4>2, <3>1, <3>4, <1>6
      <4>3. QED
        BY <4>1, <4>2, <1>6
    <3>5. QED
      BY <3>2, <3>3, <3>4
  <2>5. QED
    BY <2>3, <2>4, <1>6
<1>13. LaidOut'
  <2>1. \/ LapStart' = LapStart /\ writeCursor' = writeCursor + len
        \/ /\ LapStart' = LapStart + Capacity
           /\ writeCursor' = writeCursor + len - Capacity
    <3>1. writeCursor + len \in 0..(2 * Capacity - 1)
      BY <1>2
    <3>2. Wrap(writeCursor + len) = IF writeCursor + len < Capacity
                                    THEN writeCursor + len
                                    ELSE writeCursor + len - Capacity
      <4> DEFINE x == writeCursor + len
      <4>1. x \in 0..(2 * Capacity - 1)
        BY <3>1
      <4> HIDE DEF x
      <4>2. Wrap(x) = IF x < Capacity THEN x ELSE x - Capacity
        BY <4>1, WrapOnce
      <4>3. QED
        BY <4>1, <4>2, <1>2 DEF x
    <3>3. /\ LapStart' = Written + len - writeCursor' /\ LapStart = Written - writeCursor
          /\ writeCursor' = Wrap(writeCursor + len)
      <4>1. LapStart' = Written' - writeCursor'
        BY DEF LapStart
      <4>2. writeCursor' \in Int
        BY <1>2, <1>10 DEF RingType, Cells
      <4>3. LapStart' = Written + len - writeCursor'
        BY <4>1, <4>2, <1>2, <1>8
      <4>4. QED
        BY <4>3, <1>1 DEF LapStart
    <3>4. QED
      BY <3>2, <3>3, <1>2
  <2>2. LapStart = Written - writeCursor /\ LapStart \in Int
    BY <1>2 DEF LapStart
  <2>3. LapStart' \in Int /\ writeCursor' \in 0..(Capacity - 1)
    BY <2>1, <2>2, <1>2, <1>10 DEF RingType, Cells
  <2>4. SUFFICES ASSUME NEW i \in 1..Len(index')
                 PROVE  LaidOutAt(index[i])'
    BY DEF LaidOut
  <2>5. CASE i = Len(index) + 1
    <3>1. index'[i] = meta /\ log'[meta.seq + 1] = entry /\ meta.seq \in 0..(nextSeq' - 1)
      BY <2>5, <1>1, <1>2, <1>4, <1>5, <1>6
    <3>2. Describes(index[i])'
      BY <3>1, <1>4, <1>7 DEF Describes, Length
    <3>3. Before(index[i].seq)' = Written
      BY <3>1, <1>7 DEF Before
    <3>4. writeCursor = IF Written >= LapStart' THEN Written - LapStart'
                        ELSE Written - LapStart' + Capacity
      <4>1. CASE LapStart' = LapStart
        BY <4>1, <2>2, <1>2
      <4>2. CASE /\ LapStart' = LapStart + Capacity
                 /\ writeCursor' = writeCursor + len - Capacity
        BY <4>2, <2>2, <1>2
      <4>3. QED
        BY <4>1, <4>2, <2>1
    <3>5. (index[i].offset = Place(Before(index[i].seq)))'
      BY <3>1, <3>3, <3>4, <1>4 DEF Place
    <3>6. (Written <= Before(index[i].seq) + Capacity)'
      BY <3>3, <1>2, <1>8
    <3>7. QED
      BY <3>2, <3>5, <3>6 DEF LaidOutAt
  <2>6. CASE i \in 1..Len(index)
    <3>1. /\ index'[i] = index[i] /\ index[i].seq + 1 \in 1..Len(log)
          /\ LaidOutAt(index[i]) /\ Before(index[i].seq) \in Nat
          /\ Before(index[i].seq) <= Written
      BY <2>6, <1>2, <1>5, IndexedTag
    <3>2. log'[index[i].seq + 1] = log[index[i].seq + 1]
      BY <3>1, <1>6
    <3>3. Describes(index[i])'
      <4>1. Describes(index[i])
        BY <3>1 DEF LaidOutAt
      <4>2. index[i].seq \in 0..(nextSeq' - 1)
        <5>1. index[i].seq \in 0..(nextSeq - 1)
          BY <4>1 DEF Describes
        <5>2. nextSeq' = nextSeq + 1
          BY <1>1
        <5>3. QED
          BY <5>1, <5>2, <1>2
      <4>3. QED
        BY <4>1, <4>2, <3>1, <3>2 DEF Describes, Length
    <3>4. Before(index[i].seq)' = Before(index[i].seq)
      BY <3>1, <3>2 DEF Before
    <3> DEFINE b == Before(index[i].seq)
    <3>5. Written + len <= b + Capacity
      BY <2>6, <1>3
    <3>6. b \in Nat /\ b <= Written
      BY <3>1
    <3> HIDE DEF b
    <3>7. (IF b >= LapStart' THEN b - LapStart' ELSE b - LapStart' + Capacity) = Place(b)
      <4>1. CASE b >= LapStart'
        <5>1. LapStart' = LapStart
          BY <4>1, <3>6, <2>1, <2>2, <2>3, <1>2
        <5>2. QED
          BY <4>1, <5>1 DEF Place
      <4>2. CASE b < LapStart'
        <5>1. CASE LapStart' = LapStart
          BY <4>2, <5>1, <3>6, <2>2 DEF Place
        <5>2. CASE LapStart' = LapStart + Capacity
          <6>1. b >= LapStart
            <7>1. writeCursor + len >= Capacity
              <8>1. LapStart' # LapStart
                BY <5>2, <2>2, <1>2
              <8>2. writeCursor' = writeCursor + len - Capacity
                BY <8>1, <2>1
              <8>3. writeCursor' >= 0
                BY <2>3
              <8>4. QED
                BY <8>2, <8>3, <1>2
            <7>2. QED
              BY <7>1, <3>5, <3>6, <2>2, <1>2
          <6>2. Place(b) = b - LapStart
            BY <6>1 DEF Place
          <6>3. b - LapStart' + Capacity = b - LapStart
            BY <5>2, <3>6, <2>2, <1>2
          <6>4. ~(b >= LapStart')
            BY <4>2, <3>6, <2>3
          <6>5. QED
            BY <6>2, <6>3, <6>4
        <5>3. QED
          BY <5>1, <5>2, <2>1
      <4>3. QED
        BY <4>1, <4>2, <3>6, <2>3
    <3>8. Place(Before(index[i].seq))' = Place(b)
      BY <3>4, <3>7 DEF Place, b
    <3>9. index[i].offset = Place(b)
      BY <3>1 DEF LaidOutAt, b
    <3>10. QED
      BY <3>1, <3>3, <3>4, <3>5, <3>8, <3>9, <1>8 DEF LaidOutAt, b
  <2>7. QED
    BY <2>5, <2>6, <1>5
<1>14. IndexedTagsAreIntact'
  <2>1. \A i \in 1..Len(index) : \A k \in 1..index[i].len :
          file'[Wrap(index[i].offset + k - 1)] = file[Wrap(index[i].offset + k - 1)]
    BY <1>1, <1>2, <1>3, WriteSparesIndexed
  <2>2. SUFFICES ASSUME NEW i \in 1..Len(index')
                 PROVE  (BytesAt(index[i]) = WholeTag(index[i].seq))'
    BY DEF IndexedTagsAreIntact
  <2>3. CASE i = Len(index) + 1
    <3>1. index'[i] = meta /\ log'[meta.seq + 1] = entry
      BY <2>3, <1>2, <1>4, <1>5, <1>6
    <3>2. \A k \in 1..len : file'[Wrap(writeCursor + k - 1)] = Byte(Len(log), k - 1)
      BY <1>1, <1>2, WriteLands
    <3>3. BytesAt(index[i])' = [k \in 1..len |-> file'[Wrap(writeCursor + k - 1)]]
      BY <3>1, <1>4 DEF BytesAt
    <3>4. WholeTag(index[i].seq)' = [k \in 1..len |-> Byte(Len(log), k - 1)]
      BY <3>1, <1>2, <1>4, <1>7 DEF WholeTag
    <3>5. QED
      BY <3>2, <3>3, <3>4
  <2>4. CASE i \in 1..Len(index)
    <3>1. index'[i] = index[i] /\ log'[index[i].seq + 1] = log[index[i].seq + 1]
      BY <2>4, <1>5, <1>6, IndexedTag
    <3>2. BytesAt(index[i])' = BytesAt(index[i])
      BY <3>1, <2>1, <2>4 DEF BytesAt
    <3>3. WholeTag(index[i].seq)' = WholeTag(index[i].seq)
      BY <3>1 DEF WholeTag
    <3>4. QED
      BY <3>2, <3>3, <2>4 DEF IndexedTagsAreIntact
  <2>5. QED
    BY <2>3, <2>4, <1>5
<1>15. KeyframesAreIndexed'
  <2>1. /\ idrIndex \in Seq(MetaSet) /\ index \in Seq(MetaSet)
        /\ \A x \in 1..Len(idrIndex) :
             /\ idrIndex[x].idr = "primary"
             /\ \E i \in 1..Len(index) : idrIndex[x] = index[i]
        /\ \A i \in 1..Len(index) :
             index[i].idr = "primary" => \E x \in 1..Len(idrIndex) : idrIndex[x] = index[i]
    <3>1. idrIndex \in Seq(MetaSet) /\ index \in Seq(MetaSet)
      BY DEF RingType
    <3>2. DOMAIN idrIndex = 1..Len(idrIndex) /\ DOMAIN index = 1..Len(index)
      BY <3>1
    <3>3. {idrIndex[x] : x \in 1..Len(idrIndex)}
            = {m \in {index[i] : i \in 1..Len(index)} : m.idr = "primary"}
      BY <3>2, Zenon DEF KeyframesAreIndexed
    <3>4. \A x \in 1..Len(idrIndex) :
            idrIndex[x] \in {m \in {index[i] : i \in 1..Len(index)} : m.idr = "primary"}
      BY <3>3
    <3>5. \A i \in 1..Len(index) :
            index[i].idr = "primary" => index[i] \in {idrIndex[x] : x \in 1..Len(idrIndex)}
      BY <3>3
    <3>6. QED
      BY <3>1, <3>4, <3>5
  <2>2. /\ DOMAIN index = 1..Len(index) /\ DOMAIN index' = 1..(Len(index) + 1)
        /\ DOMAIN idrIndex = 1..Len(idrIndex)
    BY <2>1, <1>5
  <2>3. CASE tag.idr = "primary"
    <3>1. /\ DOMAIN idrIndex' = 1..(Len(idrIndex) + 1) /\ Len(idrIndex) \in Nat
          /\ \A x \in 1..Len(idrIndex) : idrIndex'[x] = idrIndex[x]
          /\ idrIndex'[Len(idrIndex) + 1] = meta
      BY <2>1, <2>3, <1>1, <1>4
    <3>2. ASSUME NEW x \in 1..(Len(idrIndex) + 1)
          PROVE  idrIndex'[x] \in {m \in {index'[i] : i \in 1..(Len(index) + 1)} :
                                      m.idr = "primary"}
      <4>1. CASE x = Len(idrIndex) + 1
        BY <4>1, <3>1, <2>3, <1>4, <1>5
      <4>2. CASE x \in 1..Len(idrIndex)
        <5>1. PICK i \in 1..Len(index) : idrIndex[x] = index[i]
          BY <4>2, <2>1
        <5>2. idrIndex'[x] = index'[i] /\ i \in 1..(Len(index) + 1)
          BY <5>1, <4>2, <3>1, <1>5
        <5>3. idrIndex'[x].idr = "primary"
          BY <4>2, <3>1, <2>1
        <5>4. QED
          BY <5>2, <5>3
      <4>3. QED
        BY <4>1, <4>2, <3>1
    <3>3. ASSUME NEW i \in 1..(Len(index) + 1), index'[i].idr = "primary"
          PROVE  index'[i] \in {idrIndex'[x] : x \in 1..(Len(idrIndex) + 1)}
      <4>1. CASE i = Len(index) + 1
        BY <4>1, <3>1, <1>5
      <4>2. CASE i \in 1..Len(index)
        <5>1. PICK x \in 1..Len(idrIndex) : idrIndex[x] = index[i]
          BY <4>2, <3>3, <2>1, <1>5
        <5>2. idrIndex'[x] = index'[i] /\ x \in 1..(Len(idrIndex) + 1)
          BY <5>1, <4>2, <3>1, <1>5
        <5>3. QED
          BY <5>2
      <4>3. QED
        BY <4>1, <4>2, <1>5
    <3>4. {idrIndex'[x] : x \in 1..(Len(idrIndex) + 1)}
            = {m \in {index'[i] : i \in 1..(Len(index) + 1)} : m.idr = "primary"}
      BY <3>2, <3>3
    <3>5. ASSUME NEW x \in 1..(Len(idrIndex) + 1), NEW y \in 1..(Len(idrIndex) + 1), x < y
          PROVE  idrIndex'[x].seq < idrIndex'[y].seq
      <4>1. x \in 1..Len(idrIndex) /\ idrIndex'[x] = idrIndex[x]
        BY <3>1, <3>5
      <4>2. CASE y = Len(idrIndex) + 1
        <5>1. PICK i \in 1..Len(index) : idrIndex[x] = index[i]
          BY <4>1, <2>1
        <5>2. idrIndex[x].seq < nextSeq
          BY <5>1, <1>2, <1>5 DEF SeqsAreConsecutive
        <5>3. QED
          BY <4>1, <4>2, <5>2, <3>1, <1>4
      <4>3. CASE y \in 1..Len(idrIndex)
        BY <4>1, <4>3, <3>1, <3>5, <2>2 DEF KeyframesAreIndexed
      <4>4. QED
        BY <4>2, <4>3, <3>1
    <3>6. {idrIndex'[x] : x \in DOMAIN idrIndex'}
            = {m \in {index'[i] : i \in DOMAIN index'} : m.idr = "primary"}
      BY <3>1, <3>4, <2>2, Zenon
    <3>7. \A x, y \in DOMAIN idrIndex' : x < y => idrIndex'[x].seq < idrIndex'[y].seq
      BY <3>1, <3>5, Zenon
    <3>8. QED
      BY <3>6, <3>7, Zenon DEF KeyframesAreIndexed
  <2>4. CASE tag.idr # "primary"
    <3>1. idrIndex' = idrIndex
      BY <2>4, <1>1
    <3>2. {m \in {index[i] : i \in 1..Len(index)} : m.idr = "primary"}
            = {m \in {index'[i] : i \in 1..(Len(index) + 1)} : m.idr = "primary"}
      <4>1. ASSUME NEW i \in 1..Len(index)
            PROVE  index[i] \in {index'[j] : j \in 1..(Len(index) + 1)}
        BY <1>5
      <4>2. ASSUME NEW i \in 1..(Len(index) + 1), index'[i].idr = "primary"
            PROVE  index'[i] \in {index[j] : j \in 1..Len(index)}
        <5>1. i # Len(index) + 1
          BY <4>2, <2>4, <1>4, <1>5
        <5>2. i \in 1..Len(index)
          BY <5>1, <1>5
        <5>3. QED
          BY <5>2, <1>5
      <4>3. QED
        BY <4>1, <4>2
    <3>3. {m \in {index[i] : i \in DOMAIN index} : m.idr = "primary"}
            = {m \in {index'[i] : i \in DOMAIN index'} : m.idr = "primary"}
      BY <3>2, <2>2, Zenon
    <3>4. QED
      BY <3>1, <3>3 DEF KeyframesAreIndexed
  <2>5. QED
    BY <2>3, <2>4
<1>16. IndexedBytesIsExact'
  <2>1. indexedBytes' = Written' - log'[index'[1].seq + 1].before
    <3>1. CASE index = <<>>
      <4>1. index'[1] = meta /\ indexedBytes = 0
        BY <3>1, <1>5 DEF IndexedBytesIsExact
      <4>2. log'[index'[1].seq + 1].before = Written
        BY <4>1, <1>2, <1>4, <1>6, <1>7
      <4>3. QED
        BY <4>1, <4>2, <1>1, <1>2, <1>8
    <3>2. CASE index # <<>>
      <4>1. 1 \in 1..Len(index) /\ index'[1] = index[1]
        BY <3>2, <1>5
      <4>2. log'[index'[1].seq + 1] = log[index[1].seq + 1]
        BY <4>1, <1>6, IndexedTag
      <4>3. indexedBytes = Written - log[index[1].seq + 1].before
        BY <3>2 DEF IndexedBytesIsExact
      <4>4. log[index[1].seq + 1].before \in Nat
        BY <4>1, IndexedTag DEF Before
      <4>5. log'[index'[1].seq + 1].before = log[index[1].seq + 1].before
        BY <4>2
      <4>6. QED
        <5> DEFINE b == log[index[1].seq + 1].before
        <5>1. b \in Nat /\ indexedBytes = Written - b
          BY <4>3, <4>4
        <5>2. log'[index'[1].seq + 1].before = b
          BY <4>5
        <5> HIDE DEF b
        <5>3. indexedBytes' = Written + len - b
          BY <5>1, <1>1, <1>2
        <5>4. QED
          BY <5>1, <5>2, <5>3, <1>2, <1>8
    <3>3. QED
      BY <3>1, <3>2
  <2>2. indexedBytes' <= Capacity
    <3>1. 1 \in 1..Len(index')
      BY <1>5
    <3>2. /\ Written' <= Before(index[1].seq)' + Capacity
          /\ log'[index'[1].seq + 1] \in LogEntry
      <4>1. LaidOutAt(index[1])' /\ index'[1] \in MetaSet
        BY <3>1, <1>13, <1>5 DEF LaidOut
      <4>2. index'[1].seq + 1 \in 1..Len(log')
        BY <4>1, <1>11 DEF LaidOutAt, Describes, SeqsAreConsecutive, MetaSet
      <4>3. QED
        BY <4>1, <4>2, <1>6 DEF LaidOutAt
    <3>3. log'[index'[1].seq + 1].before \in Nat
      BY <3>2 DEF LogEntry
    <3>4. Before(index[1].seq)' = log'[index'[1].seq + 1].before
      BY DEF Before
    <3> DEFINE b == log'[index'[1].seq + 1].before
    <3>5. b \in Nat /\ Written' <= b + Capacity /\ indexedBytes' = Written' - b
      BY <2>1, <3>2, <3>3, <3>4
    <3> HIDE DEF b
    <3>6. QED
      BY <3>5, <1>2, <1>8
  <2>3. QED
    BY <2>1, <2>2, <1>5 DEF IndexedBytesIsExact
<1>17. QED
  BY <1>10, <1>11, <1>12, <1>13, <1>14, <1>15, <1>16

-----------------------------------------------------------------------------
\* A tag that has been appended stays what it was.
LEMMA LogIsStable ==
  ASSUME RingInv, (log' = log /\ nextSeq' = nextSeq) \/ Store,
         NEW m, Describes(m)
  PROVE  Describes(m)' /\ WholeTag(m.seq)' = WholeTag(m.seq)
<1>1. nextSeq = Len(log) /\ nextSeq \in Nat /\ log \in Seq(LogEntry)
  BY DEF RingInv, RingType, SeqsAreConsecutive
<1>2. m.seq \in 0..(nextSeq - 1) /\ m.seq + 1 \in 1..Len(log)
  BY <1>1 DEF Describes
<1>3. m.seq \in 0..(nextSeq' - 1)
  BY <1>1, <1>2 DEF Store
<1>4. log'[m.seq + 1] = log[m.seq + 1]
  <2>1. CASE log' = log
    BY <2>1
  <2>2. CASE Store
    BY <2>2, <1>1, <1>2 DEF Store
  <2>3. QED
    BY <2>1, <2>2
<1>5. Describes(m)'
  BY <1>3, <1>4 DEF Describes, Length
<1>6. WholeTag(m.seq)' = WholeTag(m.seq)
  BY <1>4 DEF WholeTag
<1>7. QED
  BY <1>5, <1>6

\* The meta found for a sequence number is the index entry with that number.
LEMMA FoundMeta ==
  ASSUME RingInv, NEW s \in Int, Found(s)
  PROVE  \E i \in 1..Len(index) : At(s) = index[i] /\ index[i].seq = s
<1>1. Len(index) \in Nat /\ Len(index) > 0 /\ nextSeq \in Nat /\ index # <<>>
  BY DEF RingInv, RingType, Found
<1>2. index[1].seq = nextSeq - Len(index)
  BY <1>1 DEF RingInv, SeqsAreConsecutive
<1> DEFINE i == s - index[1].seq + 1
<1>3. i \in 1..Len(index)
  BY <1>1, <1>2 DEF Found
<1>4. index[i].seq = s
  <2>1. index[i].seq = nextSeq - Len(index) + i - 1
    BY <1>3 DEF RingInv, SeqsAreConsecutive
  <2>2. QED
    BY <2>1, <1>1, <1>2
<1>5. QED
  BY <1>3, <1>4 DEF At

\* While the ingest task holds the lock no reader is inside a read, so the
\* readers keep what they have whatever the task does to the index.
LEMMA ReadersUndisturbed ==
  ASSUME RingInv, TaskInv, (log' = log /\ nextSeq' = nextSeq) \/ Store,
         lock = {Ingest} \/ lock = {} \/ UNCHANGED index, UNCHANGED reader
  PROVE  ReaderInv'
<1> SUFFICES ASSUME NEW r \in Readers
             PROVE  ReaderOK(r)'
  BY DEF ReaderInv
<1>1. ReaderOK(r)
  BY DEF TaskInv, ReaderInv
<1>2. reader[r].at # "idle" => /\ Describes(reader[r].meta)'
                               /\ WholeTag(reader[r].meta.seq)' = WholeTag(reader[r].meta.seq)
  BY <1>1, LogIsStable DEF ReaderOK
<1>3. reader[r].at = "reading" => UNCHANGED index
  BY ReadersAssumption DEF TaskInv, LockInv
<1>4. reader[r].at \in {"idle", "found", "reading", "read"}
  BY DEF TaskInv, TaskType, IngestWork, ReaderEntries
<1>5. QED
  BY <1>1, <1>2, <1>3, <1>4 DEF ReaderOK, Found, At

-----------------------------------------------------------------------------
\* The initial states satisfy the invariant.
LEMMA InitEstablishesIInv == Init => IInv
<1> SUFFICES ASSUME Init PROVE IInv
  OBVIOUS
<1> USE DEF Init
<1>1. /\ index = <<>> /\ idrIndex = <<>> /\ log = <<>>
      /\ Len(index) = 0 /\ DOMAIN index = {} /\ DOMAIN idrIndex = {} /\ Len(log) = 0
      /\ Written = 0
  BY DEF Written
<1>2. \A c \in Cells : Byte(NoTag, 0) \in ByteSet
  BY DEF Byte, ByteSet
<1>3. writeCursor \in Cells /\ Capacity \in Nat
  BY CapacityAssumption DEF Cells
<1>4. RingType
  BY <1>1, <1>2, <1>3 DEF RingType
<1>5. SeqsAreConsecutive /\ LogIsContiguous /\ LaidOut /\ IndexedTagsAreIntact
  BY <1>1 DEF SeqsAreConsecutive, LogIsContiguous, LaidOut, IndexedTagsAreIntact
<1>6. KeyframesAreIndexed
  BY <1>1 DEF KeyframesAreIndexed
<1>7. IndexedBytesIsExact
  BY <1>1, <1>3 DEF IndexedBytesIsExact
<1>8. \A r \in Readers : reader[r] = Idle
  OBVIOUS
<1>9. TaskType
  <2>1. Idle \in [at    : {"idle", "found", "reading", "read"},
                  meta  : MetaSet \cup {NoMeta},
                  from  : MetaSet \cup {NoMeta},
                  bytes : Seq(ByteSet)]
    BY DEF Idle
  <2>2. QED
    BY <2>1 DEF TaskType, IngestWork, ReaderEntries
<1>10. LockInv /\ IngestInv /\ ReaderInv
  BY <1>8 DEF LockInv, IngestInv, ReaderInv, ReaderOK, Idle, AtRest
<1>11. QED
  BY <1>4, <1>5, <1>6, <1>7, <1>9, <1>10 DEF IInv, RingInv, TaskInv

\* The ingest task's own state, by where it is.
LEMMA IngestStages ==
  ASSUME TaskInv
  PROVE  /\ ingest.stage = "append" => /\ ingest.tag \in Tags
                                       /\ ingest.tag \in Tag
                                       /\ ingest.tag.len \in Nat
                                       /\ ingest.tag.len <= Capacity
                                       /\ lock = {Ingest}
         /\ ingest.stage = "trim" => lock = {Ingest}
<1>1. ingest \in {AtRest} \cup [stage : {"append"}, tag : Tags]
                          \cup [stage : {"trim"}, cutoff : Nat, minSeq : Nat]
  BY DEF TaskInv, TaskType, IngestWork, ReaderEntries
<1>2. AtRest.stage = "idle"
  BY DEF AtRest
<1>3. ingest.stage = "append" => ingest.tag \in Tags /\ ingest.tag \in Tag
  BY <1>1, <1>2, TagsAssumption
<1>4. ingest.tag \in Tag => ingest.tag.len \in Nat
  BY DEF Tag
<1>5. ingest.stage \in {"append", "trim"} => lock = {Ingest}
  BY <1>2 DEF TaskInv, LockInv
<1>6. QED
  BY <1>3, <1>4, <1>5 DEF TaskInv, IngestInv

\* A step of the ingest task, inside or at the end of a critical section.
LEMMA IngestStep ==
  ASSUME RingInv, TaskInv, RingInv',
         lock = {Ingest}, lock' \in {{Ingest}, {}},
         (ingest' = ingest /\ lock' = lock) \/ ingest' = AtRest,
         (log' = log /\ nextSeq' = nextSeq) \/ Store,
         UNCHANGED reader
  PROVE  IInv'
<1>1. ReaderInv'
  BY ReadersUndisturbed
<1>2. TaskType'
  BY DEF TaskInv, TaskType, IngestWork, ReaderEntries
<1>3. \A r \in Readers : reader[r].at # "reading"
  BY ReadersAssumption DEF TaskInv, LockInv
<1>4. LockInv'
  BY <1>3 DEF TaskInv, LockInv
<1>5. IngestInv'
  BY DEF TaskInv, IngestInv, AtRest
<1>6. QED
  BY <1>1, <1>2, <1>4, <1>5 DEF IInv, TaskInv

\* A reader's step: only its own entry and the lock change.
LEMMA ReaderStep ==
  ASSUME RingInv, TaskInv, NEW r \in Readers, NEW e,
         UNCHANGED <<inner, file, ingest, log>>,
         reader' = [reader EXCEPT ![r] = e],
         e \in ReaderEntries,
         ReaderOK(r)',
         \/ lock = {} /\ lock' = {} /\ e.at # "reading"
         \/ lock = {} /\ lock' = {r} /\ e.at = "reading"
         \/ lock = {r} /\ lock' = {} /\ e.at # "reading"
         \/ UNCHANGED lock /\ e.at # "reading" /\ reader[r].at # "reading"
  PROVE  IInv'
<1>1. RingInv'
  BY RingUnchanged
<1>2. /\ reader'[r] = e
      /\ \A q \in Readers : q # r => reader'[q] = reader[q]
  BY DEF TaskInv, TaskType
<1>3. TaskType'
  <2>1. reader' \in [Readers -> ReaderEntries]
    BY DEF TaskInv, TaskType
  <2>2. ingest' = ingest /\ ingest \in IngestWork
    BY DEF TaskInv, TaskType
  <2>3. lock \subseteq Readers \cup {Ingest}
    BY DEF TaskInv, TaskType
  <2>4. lock' \in {lock, {}, {r}}
    OBVIOUS
  <2>5. lock' \subseteq Readers \cup {Ingest}
    BY ONLY <2>3, <2>4, r \in Readers
  <2>6. TaskType' = (/\ lock' \subseteq Readers \cup {Ingest}
                     /\ ingest' \in IngestWork
                     /\ reader' \in [Readers -> ReaderEntries])
    BY ONLY DEF TaskType, ReaderEntries, IngestWork
  <2>7. QED
    BY ONLY <2>1, <2>2, <2>5, <2>6
<1>4. ASSUME NEW q \in Readers, q # r
      PROVE  ReaderOK(q)'
  <2>1. ReaderOK(q) /\ reader'[q] = reader[q]
    BY <1>2, <1>4 DEF TaskInv, ReaderInv
  <2>2. UNCHANGED <<index, log, nextSeq>>
    BY DEF inner
  <2>3. ReaderOK(q)'
    BY ONLY <2>1, <2>2 DEF ReaderOK, Describes, Length, Found, At, WholeTag
  <2>4. QED
    BY <2>3
<1>5. ReaderInv'
  BY <1>4 DEF ReaderInv
<1>6. LockInv'
  BY <1>2, ReadersAssumption DEF TaskInv, LockInv
<1>7. IngestInv'
  BY DEF TaskInv, IngestInv
<1>8. QED
  BY <1>1, <1>3, <1>5, <1>6, <1>7 DEF IInv, TaskInv

-----------------------------------------------------------------------------
\* The ingest task takes the free lock, to append or to trim.
LEMMA BeginCriticalSection ==
  ASSUME RingInv, TaskInv, lock = {}, lock' = {Ingest},
         ingest' \in [stage : {"append"}, tag : Tags]
                      \cup [stage : {"trim"}, cutoff : Nat, minSeq : Nat],
         ingest'.stage = "append" => ingest'.tag.len <= Capacity,
         UNCHANGED <<inner, file, reader, log>>
  PROVE  IInv'
<1>1. RingInv'
  BY RingUnchanged
<1>2. ReaderInv'
  <2>1. UNCHANGED <<log, nextSeq>> /\ UNCHANGED reader
    BY DEF inner
  <2>2. QED
    BY <2>1, ReadersUndisturbed
<1>3. TaskType' /\ IngestInv'
  BY DEF TaskInv, TaskType, IngestWork, ReaderEntries, IngestInv
<1>4. LockInv'
  <2>1. \A r \in Readers : reader'[r].at # "reading"
    BY DEF TaskInv, LockInv
  <2>2. QED
    BY <2>1 DEF LockInv
<1>5. QED
  BY <1>1, <1>2, <1>3, <1>4 DEF IInv, TaskInv

\* Every step keeps the invariant.
LEMMA NextKeepsIInv == IInv /\ [Next]_vars => IInv'
<1> SUFFICES ASSUME IInv, [Next]_vars PROVE IInv'
  OBVIOUS
<1>0. RingInv /\ TaskInv
  BY DEF IInv
<1>1. ASSUME NEW tag \in Tags, BeginAppend(tag) PROVE IInv'
  <2>1. /\ tag \in Tag /\ tag.len \in Nat /\ tag.len <= Capacity \div 2
        /\ Capacity \in Nat /\ Capacity > 0
    BY <1>1, TagsAssumption, CapacityAssumption DEF BeginAppend, Tag
  <2>2. tag.len <= Capacity
    BY <2>1
  <2>3. ingest' \in [stage : {"append"}, tag : Tags] /\ ingest'.tag = tag
    BY <1>1, <2>1 DEF BeginAppend
  <2>4. QED
    BY <1>0, <1>1, <2>2, <2>3, BeginCriticalSection DEF BeginAppend
<1>2. CASE Evict
  <2>1. RingInv'
    BY <1>0, <1>2, PopFrontKeepsRing DEF Evict, MustEvict
  <2>2. QED
    BY <1>0, <1>2, <2>1, IngestStages, IngestStep DEF Evict, PopFront
<1>3. CASE Store
  <2>1. RingInv'
    BY <1>0, <1>3, IngestStages, StoreKeepsRing DEF Store
  <2>2. QED
    BY <1>0, <1>3, <2>1, IngestStages, IngestStep DEF Store
<1>4. CASE FailToStore
  <2>1. RingInv'
    BY <1>0, <1>4, IngestStages, FailToStoreKeepsRing DEF FailToStore
  <2>2. QED
    BY <1>0, <1>4, <2>1, IngestStages, IngestStep DEF FailToStore, inner
<1>5. ASSUME NEW cutoff \in Cutoffs, NEW minSeq \in 0..nextSeq, BeginTrim(cutoff, minSeq)
      PROVE  IInv'
  <2>1. ingest' \in [stage : {"trim"}, cutoff : Nat, minSeq : Nat] /\ ingest'.stage = "trim"
    BY <1>5, CutoffsAssumption DEF BeginTrim
  <2>2. QED
    BY <1>0, <1>5, <2>1, BeginCriticalSection DEF BeginTrim
<1>6. CASE TrimOne
  <2>1. RingInv'
    BY <1>0, <1>6, PopFrontKeepsRing DEF TrimOne, MayTrim
  <2>2. QED
    BY <1>0, <1>6, <2>1, IngestStages, IngestStep DEF TrimOne, PopFront
<1>7. CASE EndTrim
  <2>1. RingInv'
    BY <1>0, <1>7, RingUnchanged DEF EndTrim
  <2>2. QED
    BY <1>0, <1>7, <2>1, IngestStages, IngestStep DEF EndTrim, inner
<1>8. CASE Clear
  <2>1. RingInv'
    BY <1>0, <1>8, ClearKeepsRing
  <2>2. ReaderInv'
    BY <1>0, <1>8, ReadersUndisturbed DEF Clear
  <2>3. TaskType' /\ LockInv' /\ IngestInv'
    BY <1>0, <1>8 DEF Clear, TaskInv, TaskType, IngestWork, ReaderEntries, LockInv, IngestInv
  <2>4. QED
    BY <2>1, <2>2, <2>3 DEF IInv, TaskInv
<1>9. ASSUME NEW r \in Readers, Read(r) PROVE IInv'
  <2> DEFINE Entry == [at    : {"idle", "found", "reading", "read"},
                       meta  : MetaSet \cup {NoMeta},
                       from  : MetaSet \cup {NoMeta},
                       bytes : Seq(ByteSet)]
  <2>0. Entry = ReaderEntries
    BY DEF ReaderEntries
  <2>1. /\ reader \in [Readers -> Entry] /\ reader[r] \in Entry /\ ReaderOK(r)
        /\ Idle \in Entry
    BY <1>0 DEF TaskInv, TaskType, IngestWork, ReaderEntries, ReaderInv, Idle
  <2>2. ASSUME NEW s \in 0..nextSeq, Find(r, s) PROVE IInv'
    <3> DEFINE e == [at |-> "found", meta |-> At(s), from |-> NoMeta, bytes |-> <<>>]
    <3>1. PICK i \in 1..Len(index) : At(s) = index[i] /\ index[i].seq = s
      BY <1>0, <2>2, FoundMeta DEF Find, RingInv, RingType
    <3>2. At(s) \in MetaSet /\ Describes(At(s))
      BY <1>0, <3>1, IndexedTag DEF LaidOutAt
    <3>3. /\ reader' = [reader EXCEPT ![r] = e]
          /\ UNCHANGED <<inner, file, lock, ingest, log>> /\ lock = {}
      BY <2>2 DEF Find
    <3>4. e \in Entry /\ e.at = "found" /\ e.meta = At(s)
      BY <3>2
    <3>5. Describes(At(s))' /\ reader'[r] = e
      <4>1. (At(s))' = At(s)
        BY <3>3 DEF At, inner
      <4>2. QED
        BY <3>2, <3>3, <4>1, <2>1 DEF Describes, Length, inner
    <3> HIDE DEF e
    <3>6. ReaderOK(r)'
      <4>1. (At(s))' = At(s)
        BY <3>3 DEF At, inner
      <4>2. QED
        BY <3>2, <3>4, <3>5, <4>1 DEF ReaderOK, Describes, Length
    <3>7. QED
      BY <1>0, <3>3, <3>4, <3>6, <2>0, ReaderStep
  <2>3. CASE BeginRead(r)
    <3> DEFINE s == reader[r].meta.seq
               e == [reader[r] EXCEPT !.at = "reading", !.from = At(s)]
    <3>1. /\ reader' = [reader EXCEPT ![r] = e] /\ Found(s) /\ reader[r].at = "found"
          /\ lock = {} /\ lock' = {r} /\ UNCHANGED <<inner, file, ingest, log>>
      BY <2>3 DEF BeginRead
    <3>2. reader[r].meta \in MetaSet /\ Describes(reader[r].meta) /\ s \in Int
      BY <2>1, <3>1 DEF ReaderOK, MetaSet
    <3>3. PICK i \in 1..Len(index) : At(s) = index[i]
      BY <1>0, <3>1, <3>2, FoundMeta
    <3>4. At(s) \in MetaSet
      BY <1>0, <3>3, IndexedTag
    <3>5. /\ e \in Entry /\ e.at = "reading" /\ e.from = At(s) /\ e.meta = reader[r].meta
          /\ reader'[r] = e
      BY <2>1, <3>1, <3>4
    <3> HIDE DEF e
    <3>6. ReaderOK(r)'
      BY <3>1, <3>2, <3>5 DEF ReaderOK, Describes, Length, Found, At, inner
    <3>7. QED
      BY <1>0, <3>1, <3>5, <3>6, <2>0, ReaderStep
  <2>4. CASE MissRead(r)
    <3>1. ReaderOK(r)'
      BY <2>1, <2>4 DEF MissRead, ReaderOK, Idle
    <3>2. QED
      BY <1>0, <2>1, <2>4, <3>1, <2>0, ReaderStep DEF MissRead, Idle
  <2>5. CASE EndRead(r)
    <3> DEFINE e == [reader[r] EXCEPT !.at = "read", !.bytes = BytesAt(reader[r].from)]
    <3>1. /\ reader' = [reader EXCEPT ![r] = e] /\ reader[r].at = "reading"
          /\ lock' = lock \ {r} /\ UNCHANGED <<inner, file, ingest, log>>
      BY <2>5 DEF EndRead
    <3>2. /\ reader[r].meta \in MetaSet /\ Describes(reader[r].meta)
          /\ Found(reader[r].meta.seq) /\ reader[r].from = At(reader[r].meta.seq)
          /\ reader[r].meta.seq \in Int /\ lock = {r}
      <4>1. /\ reader[r].meta \in MetaSet /\ Describes(reader[r].meta)
            /\ Found(reader[r].meta.seq) /\ reader[r].from = At(reader[r].meta.seq)
        BY <2>1, <3>1 DEF ReaderOK
      <4>2. reader[r].meta.seq \in Int
        BY <4>1 DEF MetaSet
      <4>3. lock = {r}
        BY <1>0, <3>1 DEF TaskInv, LockInv
      <4>4. QED
        BY <4>1, <4>2, <4>3
    <3>3. PICK i \in 1..Len(index) : reader[r].from = index[i]
                                     /\ index[i].seq = reader[r].meta.seq
      BY <1>0, <3>2, FoundMeta
    <3>4. BytesAt(reader[r].from) = WholeTag(reader[r].meta.seq)
      BY <1>0, <3>3 DEF RingInv, IndexedTagsAreIntact
    <3>5. BytesAt(reader[r].from) \in Seq(ByteSet)
      <4>1. reader[r].from \in MetaSet /\ reader[r].from.len \in Nat
        BY <1>0, <3>3, IndexedTag
      <4>2. reader[r].from.offset \in Nat
        BY <4>1, CapacityAssumption DEF MetaSet, Cells
      <4>3. \A k \in 1..reader[r].from.len : file[Wrap(reader[r].from.offset + k - 1)] \in ByteSet
        <5> TAKE k \in 1..reader[r].from.len
        <5>1. reader[r].from.offset + k - 1 \in Nat
          BY <4>1, <4>2
        <5>2. Wrap(reader[r].from.offset + k - 1) \in Cells
          BY <5>1, CellsAreWrapped
        <5>3. QED
          BY <1>0, <5>2 DEF RingInv, RingType
      <4>4. QED
        BY <4>1, <4>3 DEF BytesAt
    <3>6. /\ e \in Entry /\ e.at = "read" /\ e.meta = reader[r].meta
          /\ e.bytes = WholeTag(reader[r].meta.seq) /\ reader'[r] = e
      BY <2>1, <3>1, <3>4, <3>5
    <3> HIDE DEF e
    <3>7. ReaderOK(r)'
      <4>1. UNCHANGED <<log, nextSeq>>
        BY <3>1 DEF inner
      <4>2. QED
        BY <4>1, <3>2, <3>6 DEF ReaderOK, Describes, Length, WholeTag
    <3>8. QED
      BY <1>0, <3>1, <3>2, <3>6, <3>7, <2>0, ReaderStep
  <2>6. CASE FailRead(r)
    <3>1. ReaderOK(r)'
      BY <2>1, <2>6 DEF FailRead, ReaderOK, Idle
    <3>2. lock = {r}
      BY <1>0, <2>6 DEF FailRead, TaskInv, LockInv
    <3>3. QED
      BY <1>0, <2>1, <2>6, <3>1, <3>2, <2>0, ReaderStep DEF FailRead, Idle
  <2>7. CASE UseBytes(r)
    <3>1. ReaderOK(r)'
      BY <2>1, <2>7 DEF UseBytes, ReaderOK, Idle
    <3>2. QED
      BY <1>0, <2>1, <2>7, <3>1, <2>0, ReaderStep DEF UseBytes, Idle
  <2>8. QED
    BY <1>9, <2>2, <2>3, <2>4, <2>5, <2>6, <2>7 DEF Read
<1>10. CASE UNCHANGED vars
  <2>1. RingInv'
    BY <1>0, <1>10, RingUnchanged DEF vars
  <2>2. UNCHANGED <<log, nextSeq, index, reader, lock, ingest>>
    BY <1>10 DEF vars, inner
  <2>3. ReaderInv'
    BY <1>0, <2>2, ReadersUndisturbed
  <2>4. TaskType' /\ LockInv' /\ IngestInv'
    BY <1>0, <2>2 DEF TaskInv, TaskType, IngestWork, ReaderEntries, LockInv, IngestInv
  <2>5. QED
    BY <2>1, <2>3, <2>4 DEF IInv, TaskInv
<1>11. QED
  BY <1>1, <1>2, <1>3, <1>4, <1>5, <1>6, <1>7, <1>8, <1>9, <1>10 DEF Next

-----------------------------------------------------------------------------
\* The ring, its lock and its readers stay as the invariant describes them.
THEOREM InductiveInvariant == Spec => []IInv
<1>1. QED
  BY InitEstablishesIInv, NextKeepsIInv, PTL DEF Spec

\* Every variable of the buffer keeps its type.
THEOREM TypeCorrectness == Spec => []TypeOK
<1>1. IInv => TypeOK
  BY DEF IInv, RingInv, RingType, TaskInv, TaskType, IngestWork, ReaderEntries, TypeOK
<1>2. QED
  BY <1>1, InductiveInvariant, PTL

\* find_by_seq and try_read_seq may add a distance to the front: sequence
\* numbers in the index are consecutive, and none is ever used twice.
THEOREM SeqsStayConsecutive == Spec => []SeqsAreConsecutive
<1>1. IInv => SeqsAreConsecutive
  BY DEF IInv, RingInv
<1>2. QED
  BY <1>1, InductiveInvariant, PTL

\* No append, whole or failed half way, ever writes over a byte of a tag the
\* index still lists.
THEOREM IndexedTagsStayIntact == Spec => []IndexedTagsAreIntact
<1>1. IInv => IndexedTagsAreIntact
  BY DEF IInv, RingInv
<1>2. QED
  BY <1>1, InductiveInvariant, PTL

\* A pump is handed the whole tag it found, or nothing.
THEOREM ReadsStayWhole == Spec => []ReadsAreWhole
<1>1. IInv => ReadsAreWhole
  <2> SUFFICES ASSUME IInv, NEW r \in Readers, reader[r].at = "read"
               PROVE  /\ reader[r].bytes = WholeTag(reader[r].meta.seq)
                      /\ TagOf(reader[r].meta) = log[reader[r].meta.seq + 1].tag
    BY DEF ReadsAreWhole
  <2>1. ReaderOK(r) /\ log \in Seq(LogEntry) /\ nextSeq = Len(log)
    BY DEF IInv, TaskInv, ReaderInv, RingInv, RingType, SeqsAreConsecutive
  <2> DEFINE m == reader[r].meta
  <2>2. Describes(m) /\ m.seq + 1 \in 1..Len(log)
    BY <2>1 DEF ReaderOK, Describes
  <2>3. log[m.seq + 1] \in LogEntry
    BY <2>1, <2>2
  <2>4. log[m.seq + 1].tag \in Tag
    BY <2>3 DEF LogEntry
  <2>5. TagOf(m) = log[m.seq + 1].tag
    BY <2>2, <2>4 DEF TagOf, Describes, Length, Tag
  <2>6. QED
    BY <2>1, <2>5 DEF ReaderOK
<1>2. QED
  BY <1>1, InductiveInvariant, PTL

\* The cut search sees every primary keyframe that is still in the buffer,
\* in order, and no other.
THEOREM KeyframesStayIndexed == Spec => []KeyframesAreIndexed
<1>1. IInv => KeyframesAreIndexed
  BY DEF IInv, RingInv
<1>2. QED
  BY <1>1, InductiveInvariant, PTL

\* The byte count the saturation test uses is exact and fits the file.
THEOREM IndexedBytesStayExact == Spec => []IndexedBytesIsExact
<1>1. IInv => IndexedBytesIsExact
  BY DEF IInv, RingInv
<1>2. QED
  BY <1>1, InductiveInvariant, PTL
-----------------------------------------------------------------------------
(* The refinement.  Evicting, trimming and clearing forget, storing adds, a  *)
(* whole read gives, its end lets go; the rest does not show.                *)

Appended == [i \in 1..Len(log) |-> log[i].tag]
Front    == IF index = <<>> THEN nextSeq ELSE index[1].seq

\* What a reader of an intact ring has been handed.
LEMMA HandedWhole ==
  ASSUME IInv, NEW r \in Readers
  PROVE  Handed(r) = IF reader[r].at = "read"
                     THEN [seq |-> reader[r].meta.seq, tag |-> log[reader[r].meta.seq + 1].tag]
                     ELSE Window!Nothing
<1>1. reader[r].at = "read" => reader[r].bytes = WholeTag(reader[r].meta.seq)
  BY DEF IInv, TaskInv, ReaderInv, ReaderOK
<1>2. QED
  BY <1>1 DEF Handed, Window!Nothing

\* The same after a step.
LEMMA HandedWholeNext ==
  ASSUME IInv', NEW r \in Readers
  PROVE  Handed(r)' = IF reader'[r].at = "read"
                      THEN [seq |-> reader'[r].meta.seq,
                            tag |-> log'[reader'[r].meta.seq + 1].tag]
                      ELSE Window!Nothing
<1>1. (reader[r].at = "read" => reader[r].bytes = WholeTag(reader[r].meta.seq))'
  BY DEF IInv, TaskInv, ReaderInv, ReaderOK
<1>2. QED
  BY <1>1 DEF Handed, Window!Nothing

\* A reader that is left alone keeps what it was handed.
LEMMA HandedStays ==
  ASSUME IInv, IInv', NEW r \in Readers, reader'[r] = reader[r],
         (log' = log /\ nextSeq' = nextSeq) \/ Store
  PROVE  Handed(r)' = Handed(r)
<1>1. CASE reader[r].at = "read"
  <2>1. Describes(reader[r].meta) /\ RingInv
    BY <1>1 DEF IInv, TaskInv, ReaderInv, ReaderOK
  <2>2. nextSeq = Len(log) /\ nextSeq \in Nat /\ log \in Seq(LogEntry)
    BY <2>1 DEF RingInv, RingType, SeqsAreConsecutive
  <2>3. reader[r].meta.seq + 1 \in 1..Len(log)
    BY <2>1, <2>2 DEF Describes
  <2>4. log'[reader[r].meta.seq + 1] = log[reader[r].meta.seq + 1]
    BY <2>2, <2>3 DEF Store
  <2>5. QED
    BY <1>1, <2>4, HandedWhole, HandedWholeNext
<1>2. CASE reader[r].at # "read"
  BY <1>2, HandedWhole, HandedWholeNext
<1>3. QED
  BY <1>1, <1>2

\* A front that leaves the index leaves the window.
LEMMA PopFrontForgets ==
  ASSUME RingInv, index # <<>>, PopFront, log' = log
  PROVE  Front' \in (Front + 1)..Len(log)
<1>1. /\ index \in Seq(MetaSet) /\ Len(index) \in Nat /\ Len(index) > 0
      /\ index' = Tail(index) /\ Len(index') = Len(index) - 1
      /\ \A i \in 1..Len(index') : index'[i] = index[i + 1]
      /\ nextSeq' = nextSeq /\ nextSeq = Len(log) /\ nextSeq \in Nat
  BY DEF RingInv, RingType, PopFront, SeqsAreConsecutive
<1>2. index[1].seq = nextSeq - Len(index)
  BY <1>1 DEF RingInv, SeqsAreConsecutive
<1>3. Describes(index[1])
  <2>1. 1 \in 1..Len(index)
    BY <1>1
  <2>2. QED
    BY <2>1 DEF RingInv, LaidOut, LaidOutAt
<1>4. CASE Len(index) = 1
  <2>1. index' = <<>>
    BY <1>1, <1>4
  <2>2. QED
    BY <1>1, <1>2, <1>3, <1>4, <2>1 DEF Front, Describes
<1>5. CASE Len(index) > 1
  <2>1. index' # <<>> /\ index'[1] = index[2]
    <3>1. Len(index') > 0 /\ 1 \in 1..Len(index')
      BY <1>1, <1>5
    <3>2. Len(<<>>) = 0
      OBVIOUS
    <3>3. index' # <<>>
      BY <3>1, <3>2
    <3>4. index'[1] = index[1 + 1]
      BY ONLY <1>1, <3>1
    <3>5. QED
      BY <3>3, <3>4
  <2>2. index[2].seq = nextSeq - Len(index) + 1
    BY <1>1, <1>5 DEF RingInv, SeqsAreConsecutive
  <2>3. QED
    BY <1>1, <1>2, <1>5, <2>1, <2>2 DEF Front
<1>6. QED
  BY <1>1, <1>4, <1>5

\* A step that leaves the log alone and moves the front forward forgets.
LEMMA Forgets ==
  ASSUME IInv, IInv', UNCHANGED <<log, nextSeq, reader>>, Front' \in (Front + 1)..Len(log)
  PROVE  Window!Next
<1>1. \A r \in Readers : Handed(r)' = Handed(r)
  BY HandedStays DEF IInv, TaskInv, TaskType
<1>2. Appended' = Appended /\ Len(Appended) = Len(log)
  BY DEF Appended, IInv, RingInv, RingType
<1>3. [r \in Readers |-> Handed(r)]' = [r \in Readers |-> Handed(r)]
  BY <1>1
<1>4. Window!Forget
  BY <1>2, <1>3 DEF Window!Forget, Front, Appended
<1>5. QED
  BY <1>4 DEF Window!Next

\* A step of the ring that moves neither the front nor the log, nor hands out a tag.
LEMMA DoesNotShow ==
  ASSUME IInv, IInv', UNCHANGED <<log, nextSeq>>, Front' = Front,
         \A r \in Readers : Handed(r)' = Handed(r)
  PROVE  UNCHANGED Window!vars
<1>1. [r \in Readers |-> Handed(r)]' = [r \in Readers |-> Handed(r)]
  OBVIOUS
<1>2. QED
  BY <1>1 DEF Window!vars, Front

\* Storing a tag adds it to the log and leaves the front where it was.
LEMMA StoreAdds ==
  ASSUME IInv, IInv', Store
  PROVE  Window!Next
<1>1. /\ index \in Seq(MetaSet) /\ log \in Seq(LogEntry) /\ nextSeq = Len(log)
      /\ ingest.tag \in Tags
  BY IngestStages DEF IInv, RingInv, RingType, SeqsAreConsecutive, Store
<1>2. Appended' = Append(Appended, ingest.tag)
  <2>1. /\ Len(log') = Len(log) + 1 /\ Len(log) \in Nat
        /\ \A i \in 1..Len(log) : log'[i] = log[i]
        /\ log'[Len(log) + 1].tag = ingest.tag
    BY <1>1 DEF Store
  <2>2. Len(Appended) = Len(log) /\ \A i \in 1..Len(log) : Appended[i] = log[i].tag
    BY <1>1 DEF Appended
  <2>3. Append(Appended, ingest.tag)
          = [i \in 1..(Len(log) + 1) |-> IF i <= Len(log) THEN Appended[i] ELSE ingest.tag]
    BY <2>1, <2>2 DEF Appended
  <2>4. QED
    BY <2>1, <2>2, <2>3 DEF Appended
<1>3. Front' = Front
  <2>1. index' # <<>>
    BY <1>1 DEF Store
  <2>2. CASE index = <<>>
    BY <1>1, <2>1, <2>2 DEF Store, Front, Meta
  <2>3. CASE index # <<>>
    BY <1>1, <2>1, <2>3 DEF Store, Front
  <2>4. QED
    BY <2>2, <2>3
<1>4. \A r \in Readers : Handed(r)' = Handed(r)
  BY HandedStays DEF Store
<1>5. [r \in Readers |-> Handed(r)]' = [r \in Readers |-> Handed(r)]
  BY <1>4
<1>6. PICK tag \in Tags : tag = ingest.tag
  BY <1>1
<1>7. Window!Add(tag)
  BY <1>2, <1>3, <1>5, <1>6 DEF Window!Add, Appended, Front
<1>8. QED
  BY <1>7 DEF Window!Next

\* A whole read gives the reader its tag while it is in the window.
LEMMA EndReadGives ==
  ASSUME IInv, IInv', NEW r \in Readers, EndRead(r)
  PROVE  Window!Next
<1> DEFINE s == reader[r].meta.seq
<1>1. /\ Found(s) /\ Describes(reader[r].meta) /\ log \in Seq(LogEntry) /\ nextSeq = Len(log)
      /\ reader[r].meta \in MetaSet
  BY DEF EndRead, IInv, TaskInv, ReaderInv, ReaderOK, RingInv, RingType, SeqsAreConsecutive
<1>2. UNCHANGED <<log, nextSeq, index>>
  BY DEF EndRead, inner
<1>3. s \in Front..(Len(log) - 1) /\ s \in 0..Len(log) /\ s + 1 \in 1..Len(log)
  BY <1>1 DEF Found, Front, Describes, MetaSet
<1>4. /\ reader'[r].at = "read" /\ reader'[r].meta = reader[r].meta
      /\ \A q \in Readers : q # r => reader'[q] = reader[q]
  BY DEF EndRead, IInv, TaskInv, TaskType, ReaderEntries
<1>5. \A q \in Readers : q # r => Handed(q)' = Handed(q)
  BY <1>2, <1>4, HandedStays
<1>6. Handed(r)' = [seq |-> s, tag |-> log[s + 1].tag]
  BY <1>2, <1>4, HandedWholeNext
<1>7. Appended[s + 1] = log[s + 1].tag /\ Len(Appended) = Len(log)
  BY <1>1, <1>3 DEF Appended
<1>8. [q \in Readers |-> Handed(q)]'
        = [[q \in Readers |-> Handed(q)] EXCEPT ![r] = [seq |-> s, tag |-> Appended[s + 1]]]
  BY <1>5, <1>6, <1>7
<1>9. Appended' = Appended /\ Front' = Front
  BY <1>2 DEF Appended, Front
<1>10. Window!Give(r, s)
  BY <1>3, <1>7, <1>8, <1>9 DEF Window!Give, Appended, Front
<1>11. s \in 0..Len(Appended)
  BY <1>3, <1>7
<1>12. QED
  BY <1>10, <1>11 DEF Window!Next, Appended

\* A step of a reader shows when it is handed a tag and when it lets go of it.
LEMMA ReadShows ==
  ASSUME IInv, IInv', NEW r \in Readers, Read(r)
  PROVE  [Window!Next]_(Window!vars)
<1>1. reader \in [Readers -> ReaderEntries]
  BY DEF IInv, TaskInv, TaskType
<1>2. ASSUME UNCHANGED <<inner, log>>, \A q \in Readers : q # r => reader'[q] = reader[q],
             reader[r].at # "read", reader'[r].at # "read"
      PROVE  UNCHANGED Window!vars
  <2>1. UNCHANGED <<log, nextSeq, index>>
    BY <1>2 DEF inner
  <2>2. \A q \in Readers : q # r => Handed(q)' = Handed(q)
    BY <1>2, <2>1, HandedStays
  <2>3. Handed(r)' = Handed(r)
    BY <1>2, HandedWhole, HandedWholeNext
  <2>4. Front' = Front
    BY <2>1 DEF Front
  <2>5. QED
    BY <2>1, <2>2, <2>3, <2>4, DoesNotShow
<1>3. ASSUME NEW s \in 0..nextSeq, Find(r, s) PROVE UNCHANGED Window!vars
  BY <1>1, <1>2, <1>3 DEF Find
<1>4. CASE BeginRead(r)
  <2>1. reader'[r].at = "reading"
    BY <1>1, <1>4 DEF BeginRead, ReaderEntries
  <2>2. QED
    BY <1>1, <1>2, <1>4, <2>1 DEF BeginRead
<1>5. CASE MissRead(r) \/ FailRead(r)
  BY <1>1, <1>2, <1>5 DEF MissRead, FailRead, Idle
<1>6. CASE EndRead(r)
  BY <1>6, EndReadGives
<1>7. CASE UseBytes(r)
  <2>1. /\ UNCHANGED <<log, nextSeq, index>> /\ reader'[r] = Idle
        /\ \A q \in Readers : q # r => reader'[q] = reader[q]
    BY <1>1, <1>7 DEF UseBytes, inner
  <2>2. \A q \in Readers : q # r => Handed(q)' = Handed(q)
    BY <2>1, HandedStays
  <2>3. Handed(r)' = Window!Nothing
    BY <2>1, HandedWholeNext DEF Idle
  <2>4. [q \in Readers |-> Handed(q)]' = [[q \in Readers |-> Handed(q)] EXCEPT ![r] = Window!Nothing]
    BY <2>2, <2>3
  <2>5. Window!LetGo(r)
    BY <2>1, <2>4 DEF Window!LetGo
  <2>6. QED
    BY <2>5 DEF Window!Next
<1>8. QED
  BY <1>3, <1>4, <1>5, <1>6, <1>7 DEF Read

\* Every step of the ring is a step of the window, or does not show in it.
LEMMA StepShows ==
  ASSUME IInv, IInv', [Next]_vars
  PROVE  [Window!Next]_(Window!vars)
<1>0. RingInv /\ nextSeq = Len(log) /\ nextSeq \in Nat /\ index \in Seq(MetaSet)
  BY DEF IInv, RingInv, RingType, SeqsAreConsecutive
<1>1. ASSUME UNCHANGED <<log, nextSeq, index, reader>> PROVE UNCHANGED Window!vars
  <2>1. \A r \in Readers : Handed(r)' = Handed(r)
    BY <1>1, HandedStays
  <2>2. QED
    BY <1>1, <2>1, DoesNotShow DEF Front
<1>2. CASE Evict \/ TrimOne
  BY <1>0, <1>2, PopFrontForgets, Forgets DEF Evict, TrimOne, MustEvict, MayTrim, PopFront
<1>3. CASE Clear
  <2>1. CASE index = <<>>
    BY <1>1, <1>3, <2>1 DEF Clear
  <2>2. CASE index # <<>>
    <3>1. Front' = nextSeq
      BY <1>3 DEF Clear, Front
    <3>2. index[1].seq = nextSeq - Len(index) /\ Len(index) > 0 /\ Len(index) \in Nat
      BY <1>0, <2>2 DEF RingInv, SeqsAreConsecutive
    <3>3. Front + 1 <= nextSeq /\ Front \in Int
      BY <1>0, <2>2, <3>2 DEF Front
    <3>4. QED
      BY <1>0, <1>3, <3>1, <3>3, Forgets DEF Clear
  <2>3. QED
    BY <2>1, <2>2
<1>4. CASE Store
  BY <1>4, StoreAdds
<1>5. CASE (\E tag \in Tags : BeginAppend(tag)) \/ FailToStore \/ EndTrim
           \/ (\E cutoff \in Cutoffs, minSeq \in 0..nextSeq : BeginTrim(cutoff, minSeq))
           \/ UNCHANGED vars
  BY <1>1, <1>5 DEF BeginAppend, FailToStore, EndTrim, BeginTrim, inner, vars
<1>6. ASSUME NEW r \in Readers, Read(r) PROVE [Window!Next]_(Window!vars)
  BY <1>6, ReadShows
<1>7. QED
  BY <1>2, <1>3, <1>4, <1>5, <1>6 DEF Next

\* The file of bytes keeps the promise of the window: what is readable is a suffix of
\* what was appended, it only moves forward, and a pump is handed the tag it asked for.
THEOREM RingImplementsWindow == Spec => ImplementsTagWindow
<1>1. Init => Window!Init
  <2> SUFFICES ASSUME Init PROVE Window!Init
    OBVIOUS
  <2>1. Appended = <<>> /\ Front = 0
    BY DEF Init, Appended, Front
  <2>2. \A r \in Readers : Handed(r) = Window!Nothing
    BY DEF Init, Handed, Idle, Window!Nothing
  <2>3. QED
    BY <2>1, <2>2 DEF Window!Init, Appended, Front
<1>2. IInv /\ IInv' /\ [Next]_vars => [Window!Next]_(Window!vars)
  BY StepShows
<1>3. QED
  BY <1>1, <1>2, InductiveInvariant, PTL DEF Spec, ImplementsTagWindow, Window!Spec
=============================================================================
