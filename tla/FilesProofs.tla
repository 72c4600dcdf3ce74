----------------------------- MODULE FilesProofs -----------------------------
(* For every buffer size, every file and every sequence of calls that seeks  *)
(* only in the buffered block, the buffer of src-lib/Files.mod and the DOS   *)
(* file pointer under it cannot be told from an array of bytes.              *)
EXTENDS Files, SequenceTheorems, TLAPS

-----------------------------------------------------------------------------
(* The invariant.  Coherent relates a File record f to the bytes d on disk   *)
(* and the DOS file pointer p; it is stated for any of the three, because    *)
(* a flush and a fetch pass through states no variable ever holds.           *)

Tags == {-1} \cup {BufSize * k : k \in 0..MaxSize}

FileRecord == [buf : [1..BufSize -> Bytes \cup {Junk}], bufTag : Tags,
               bufSize : 0..BufSize, dirty : BOOLEAN,
               pos : 0..MaxSize, size : {-1} \cup 0..MaxSize]

\* Nothing has been buffered yet.
Unbuffered(d, p, f) ==
    /\ f.pos = 0 /\ p = 0
    /\ f.size = Len(d)
    /\ f.bufSize = 0 /\ f.dirty = FALSE

\* A clean block is what the disk holds, and DOS stands at its end.
Clean(d, p, f) ==
    /\ p = f.bufTag + f.bufSize
    /\ f.size = Len(d)
    /\ \A i \in 1..f.bufSize : f.buf[i] = d[f.bufTag + i]

\* The block reaches to its limit or to the end of the file.
Buffered(d, p, f) ==
    /\ f.bufTag <= f.pos /\ f.pos <= f.bufTag + BufSize
    /\ f.bufTag <= Len(d) /\ Len(d) <= f.size
    /\ f.bufTag + f.bufSize <= f.size
    /\ f.size = Len(d) \/ f.size = f.bufTag + f.bufSize
    /\ f.bufSize = BufSize \/ f.bufTag + f.bufSize = f.size
    /\ \A i \in 1..f.bufSize : f.buf[i] \in Bytes
    /\ ~f.dirty => Clean(d, p, f)

Coherent(d, p, f) ==
    /\ f.size \in 0..MaxSize /\ f.pos <= f.size
    /\ f.bufTag = -1 => Unbuffered(d, p, f)
    /\ f.bufTag # -1 => Buffered(d, p, f)

Types == /\ disk \in Seq(Bytes) /\ Len(disk) <= MaxSize
         /\ fpos \in 0..MaxSize
         /\ open \in BOOLEAN
         /\ F \in FileRecord
         /\ want \in 0..MaxLen
         /\ src \in Seq(Bytes) /\ Len(src) <= MaxLen
         /\ got \in Seq(Bytes)

\* A transfer in progress stays inside the file or the bound on files.
Transfer == /\ want > 0 => open /\ F.pos + want <= F.size /\ src = <<>>
            /\ src # <<>> => open /\ F.pos + Len(src) <= MaxSize

IInv == Types /\ (open => Coherent(disk, fpos, F)) /\ Transfer

\* The bytes a program sees through the record f.
Shown(d, f) ==
    [i \in 1..f.size |-> IF f.bufTag # -1 /\ f.bufTag < i /\ i <= f.bufTag + f.bufSize
                         THEN f.buf[i - f.bufTag]
                         ELSE IF i <= Len(d) THEN d[i] ELSE Junk]

USE FilesAssumption

-----------------------------------------------------------------------------
(* Positions and blocks.                                                     *)

LEMMA Remainder == ASSUME NEW k \in Nat, NEW r \in 0..BufSize-1
                   PROVE  (BufSize * k + r) % BufSize = r
  BY SMTT(60)

LEMMA BlockOf == ASSUME NEW p \in Nat
                 PROVE  /\ p % BufSize \in 0..BufSize-1
                        /\ \E k \in 0..p : p - (p % BufSize) = BufSize * k
  BY SMTT(60)

(* A position between the ends of a block is in it or starts the next one.   *)
LEMMA NextBlock ==
    ASSUME NEW t \in Tags, t # -1, NEW p \in t..t+BufSize
    PROVE  IF p < t + BufSize THEN p % BufSize = p - t ELSE p % BufSize = 0
  <1>1. PICK k \in 0..MaxSize : t = BufSize * k BY DEF Tags
  <1>2. t \in Nat /\ k \in Nat BY <1>1
  <1>3. CASE p < t + BufSize
    <2>1. p - t \in 0..BufSize-1 /\ p = BufSize * k + (p - t) BY <1>1, <1>2, <1>3
    <2> HIDE <1>1
    <2>2. (BufSize * k + (p - t)) % BufSize = p - t BY <1>2, <2>1, Remainder
    <2> QED BY <1>3, <2>1, <2>2
  <1>4. CASE ~(p < t + BufSize)
    <2>1. p = BufSize * (k + 1) + 0 BY <1>1, <1>2, <1>4
    <2>2. (BufSize * (k + 1) + 0) % BufSize = 0 BY <1>2, Remainder
    <2> QED BY <1>4, <2>1, <2>2
  <1> QED BY <1>3, <1>4

LEMMA TagType == ASSUME NEW t \in Tags PROVE t \in Int /\ t >= -1 /\ (t # -1 => t \in Nat)
  BY DEF Tags

LEMMA Fields ==
    ASSUME NEW f \in FileRecord
    PROVE  /\ f.buf \in [1..BufSize -> Bytes \cup {Junk}]
           /\ f.bufTag \in Tags /\ f.bufTag \in Int /\ f.bufTag >= -1
           /\ f.bufSize \in 0..BufSize /\ f.dirty \in BOOLEAN
           /\ f.pos \in 0..MaxSize /\ f.size \in {-1} \cup 0..MaxSize
           /\ f.bufSize \in Int /\ f.pos \in Nat
           /\ f = [buf |-> f.buf, bufTag |-> f.bufTag, bufSize |-> f.bufSize,
                   dirty |-> f.dirty, pos |-> f.pos, size |-> f.size]
  <1>1. f.bufTag \in Tags BY DEF FileRecord
  <1> QED BY <1>1, TagType DEF FileRecord

LEMMA RecordType ==
    ASSUME Types
    PROVE  /\ F.buf \in [1..BufSize -> Bytes \cup {Junk}]
           /\ F.bufTag \in Tags /\ F.bufTag \in Int /\ F.bufTag >= -1
           /\ F.bufSize \in 0..BufSize /\ F.dirty \in BOOLEAN
           /\ F.pos \in 0..MaxSize /\ F.size \in {-1} \cup 0..MaxSize
           /\ F.bufSize \in Int /\ F.pos \in Nat
           /\ F = [buf |-> F.buf, bufTag |-> F.bufTag, bufSize |-> F.bufSize,
                   dirty |-> F.dirty, pos |-> F.pos, size |-> F.size]
  BY Fields DEF Types

(* The block of the position is the buffered one, or the one behind it.      *)
LEMMA Position ==
    ASSUME Types, Coherent(disk, fpos, F)
    PROVE  /\ Off \in 0..BufSize-1 /\ Tag \in Tags \ {-1} /\ Tag \in Nat
           /\ F.pos = Tag + Off
           /\ F.bufTag = -1 => Tag = 0 /\ Off = 0
           /\ F.bufTag # -1 /\ Tag # F.bufTag => Tag = F.bufTag + BufSize /\ Off = 0
  <1>1. F.pos % BufSize \in 0..BufSize-1 BY RecordType, BlockOf
  <1>2. PICK k \in 0..F.pos : F.pos - (F.pos % BufSize) = BufSize * k BY RecordType, BlockOf
  <1>3. Tag \in Tags \ {-1} /\ Tag \in Nat
    <2>1. Tag = BufSize * k BY <1>2 DEF Tag
    <2>2. Tag \in Nat BY <2>1, RecordType
    <2>3. k \in 0..MaxSize BY RecordType
    <2> QED BY <2>1, <2>2, <2>3 DEF Tags
  <1>4. F.pos = Tag + Off BY <1>1, RecordType DEF Tag, Off
  <1>5. ASSUME F.bufTag = -1 PROVE Tag = 0 /\ Off = 0
    <2>1. F.pos = 0 BY <1>5 DEF Coherent, Unbuffered
    <2> QED BY <1>1, <1>3, <1>4, <2>1 DEF Off
  <1>6. ASSUME F.bufTag # -1, Tag # F.bufTag PROVE Tag = F.bufTag + BufSize /\ Off = 0
    <2>1. F.pos \in F.bufTag..F.bufTag+BufSize BY <1>6, RecordType DEF Coherent, Buffered
    <2>2. IF F.pos < F.bufTag + BufSize THEN Off = F.pos - F.bufTag ELSE Off = 0
      BY <1>6, <2>1, RecordType, NextBlock DEF Off
    <2>3. F.pos = F.bufTag + BufSize
      <3>1. SUFFICES ASSUME F.pos < F.bufTag + BufSize PROVE FALSE BY <2>1, RecordType
      <3> QED BY <1>3, <1>4, <1>6, <2>2, <3>1, RecordType
    <2>4. Off = 0 BY <2>2, <2>3, RecordType
    <2> QED BY <1>3, <1>4, <2>3, <2>4, RecordType
  <1> QED BY <1>1, <1>3, <1>4, <1>5, <1>6 DEF Off

-----------------------------------------------------------------------------
(* The bytes a program sees, and what a flush makes of the disk.             *)

LEMMA SameBytes ==
    ASSUME NEW S, NEW n \in Nat, NEW s \in Seq(S), Len(s) = n,
           NEW t, t \in [1..n -> S], \A i \in 1..n : s[i] = t[i]
    PROVE  s = t
  OBVIOUS

LEMMA Slice ==
    ASSUME NEW S, NEW s \in Seq(S), NEW p \in Nat, NEW c \in Nat, p + c <= Len(s)
    PROVE  /\ SubSeq(s, p + 1, p + c) \in Seq(S)
           /\ Len(SubSeq(s, p + 1, p + c)) = c
           /\ \A i \in 1..c : SubSeq(s, p + 1, p + c)[i] = s[p + i]
           /\ SubSeq(s, p + 1, p + c) = [i \in 1..c |-> s[p + i]]
  <1> DEFINE m == p + 1
             n == p + c
             t == SubSeq(s, m, n)
  <1>1. m \in Int /\ n \in Int /\ Len(s) \in Nat /\ n - m + 1 = c OBVIOUS
  <1>2. \A i \in m..n : s[i] \in S BY <1>1
  <1>3. (m <= n <=> c >= 1) /\ \A i \in 1..c : m + i - 1 = p + i OBVIOUS
  <1> HIDE DEF m, n
  <1>4. /\ t \in Seq(S)
        /\ Len(t) = IF m <= n THEN n - m + 1 ELSE 0
        /\ \A i \in 1..n-m+1 : t[i] = s[m + i - 1]
    BY <1>1, <1>2, SubSeqProperties
  <1> HIDE DEF t
  <1>5. Len(t) = c BY <1>1, <1>3, <1>4
  <1>6. \A i \in 1..c : t[i] = s[p + i] BY <1>1, <1>3, <1>4
  <1>7. t = [i \in 1..c |-> s[p + i]] BY <1>4, <1>5, <1>6
  <1> QED BY <1>4, <1>5, <1>6, <1>7 DEF t, m, n

(* What a program sees is a sequence of the file's length.                   *)
LEMMA ShownOf ==
    ASSUME NEW d \in Seq(Bytes), NEW p, NEW f \in FileRecord, Coherent(d, p, f)
    PROVE  /\ Shown(d, f) \in [1..f.size -> Bytes]
           /\ Shown(d, f) \in Seq(Bytes) /\ Len(Shown(d, f)) = f.size
  <1> DEFINE e(i) == IF f.bufTag # -1 /\ f.bufTag < i /\ i <= f.bufTag + f.bufSize
                     THEN f.buf[i - f.bufTag]
                     ELSE IF i <= Len(d) THEN d[i] ELSE Junk
  <1>1. f.size \in Nat BY DEF Coherent
  <1>2. \A i \in 1..f.size : e(i) \in Bytes
    <2> SUFFICES ASSUME NEW i \in 1..f.size PROVE e(i) \in Bytes OBVIOUS
    <2>1. CASE f.bufTag # -1 /\ f.bufTag < i /\ i <= f.bufTag + f.bufSize
      <3>1. i - f.bufTag \in 1..f.bufSize BY <2>1, Fields
      <3> QED BY <2>1, <3>1 DEF Coherent, Buffered
    <2>2. CASE ~(f.bufTag # -1 /\ f.bufTag < i /\ i <= f.bufTag + f.bufSize)
      <3>1. i <= Len(d) BY <1>1, <2>2, Fields DEF Coherent, Buffered, Unbuffered
      <3> QED BY <2>2, <3>1
    <2> QED BY <2>1, <2>2
  <1>3. Shown(d, f) = [i \in 1..f.size |-> e(i)] BY DEF Shown
  <1> HIDE DEF e
  <1>4. [i \in 1..f.size |-> e(i)] \in [1..f.size -> Bytes] BY <1>2
  <1> QED BY <1>1, <1>3, <1>4

LEMMA ShownType ==
    ASSUME Types, Coherent(disk, fpos, F)
    PROVE  /\ Shown(disk, F) \in [1..F.size -> Bytes]
           /\ Shown(disk, F) \in Seq(Bytes) /\ Len(Shown(disk, F)) = F.size
  BY ShownOf DEF Types

(* A flush writes the block where it belongs: the disk then holds the file.  *)
LEMMA FlushedFile ==
    ASSUME Types, Coherent(disk, fpos, F)
    PROVE  /\ Flushed.disk = Shown(disk, F)
           /\ Flushed.fpos = IF F.bufTag = -1 THEN 0 ELSE F.bufTag + F.bufSize
           /\ Flushed.F = [F EXCEPT !.dirty = FALSE]
  <1>1. CASE Flushes
    <2>1. Buffered(disk, fpos, F) /\ F.bufTag # -1 BY <1>1 DEF Coherent, Flushes
    <2> DEFINE b(i) == IF i <= BufSize THEN F.buf[i] ELSE Junk
    <2>2. BufBytes = [i \in 1..F.bufSize |-> b(i)] BY DEF BufBytes
    <2>3. F.bufSize \in Nat /\ F.bufSize <= BufSize BY RecordType
    <2>4. \A i \in 1..F.bufSize : b(i) = F.buf[i] /\ b(i) \in Bytes
      BY <2>1, <2>3 DEF Buffered
    <2> HIDE DEF b
    <2>5. /\ BufBytes \in Seq(Bytes) /\ Len(BufBytes) = F.bufSize
          /\ \A i \in 1..F.bufSize : BufBytes[i] = F.buf[i]
      BY <2>2, <2>3, <2>4
    <2>6. /\ F.bufTag + F.bufSize \in Nat /\ Len(disk) \in Nat /\ F.size \in Nat
          /\ F.bufTag \in Nat
      BY <2>1, <2>3, RecordType DEF Types, Coherent
    <2>7. (IF F.bufTag + Len(BufBytes) > Len(disk) THEN F.bufTag + Len(BufBytes)
           ELSE Len(disk)) = F.size
      BY <2>1, <2>3, <2>5, <2>6 DEF Buffered
    <2>8. Written(disk, F.bufTag, BufBytes)
            = [i \in 1..F.size |->
                  IF F.bufTag < i /\ i <= F.bufTag + F.bufSize THEN BufBytes[i - F.bufTag]
                  ELSE IF i <= Len(disk) THEN disk[i] ELSE Junk]
      BY <2>5, <2>7 DEF Written
    <2>9. \A i \in 1..F.size : F.bufTag < i /\ i <= F.bufTag + F.bufSize
             => BufBytes[i - F.bufTag] = F.buf[i - F.bufTag]
      BY <2>3, <2>5, <2>6
    <2>10. Written(disk, F.bufTag, BufBytes) = Shown(disk, F)
      BY <2>1, <2>8, <2>9 DEF Shown
    <2> QED BY <1>1, <2>1, <2>10 DEF Flushed
  <1>2. CASE ~Flushes /\ F.bufTag = -1
    <2>1. Unbuffered(disk, fpos, F) BY <1>2 DEF Coherent
    <2>2. Shown(disk, F) = [i \in 1..Len(disk) |-> disk[i]]
      BY <1>2, <2>1 DEF Shown, Unbuffered, Types
    <2>3. Shown(disk, F) = disk BY <2>2 DEF Types
    <2>4. F = [F EXCEPT !.dirty = FALSE] BY <2>1, RecordType DEF Unbuffered
    <2> QED BY <1>2, <2>1, <2>3, <2>4 DEF Flushed, Unbuffered
  <1>3. CASE ~Flushes /\ F.bufTag # -1
    <2>1. Clean(disk, fpos, F) /\ ~F.dirty
      BY <1>3 DEF Coherent, Buffered, Flushes
    <2>2. \A i \in 1..F.size : Shown(disk, F)[i] = disk[i]
      <3> SUFFICES ASSUME NEW i \in 1..F.size PROVE Shown(disk, F)[i] = disk[i] OBVIOUS
      <3>1. CASE F.bufTag < i /\ i <= F.bufTag + F.bufSize
        <4>1. i - F.bufTag \in 1..F.bufSize BY <3>1, RecordType
        <4>2. F.bufTag + (i - F.bufTag) = i BY RecordType
        <4>3. F.buf[i - F.bufTag] = disk[i] BY <2>1, <4>1, <4>2 DEF Clean
        <4> QED BY <1>3, <3>1, <4>3 DEF Shown
      <3>2. CASE ~(F.bufTag < i /\ i <= F.bufTag + F.bufSize)
        <4>1. i <= Len(disk) BY <2>1 DEF Clean, Types
        <4> QED BY <3>2, <4>1 DEF Shown
      <3> QED BY <3>1, <3>2
    <2>3. Shown(disk, F) = disk
      <3>1. disk \in Seq(Bytes) /\ Len(disk) = F.size /\ F.size \in Nat
        BY <2>1 DEF Clean, Types, Coherent
      <3>2. Shown(disk, F) \in [1..F.size -> Bytes] BY ShownType
      <3> QED BY <2>2, <3>1, <3>2, SameBytes
    <2>4. F = [F EXCEPT !.dirty = FALSE] BY <2>1, RecordType
    <2> QED BY <1>3, <2>1, <2>3, <2>4 DEF Flushed, Clean
  <1> QED BY <1>1, <1>2, <1>3

(* A fetch leaves the file as it is and buffers the block of the position:   *)
(* DOS reads from its own file pointer, which stands there.                  *)
LEMMA FetchedBlock ==
    ASSUME Types, Coherent(disk, fpos, F), NEW g, g = Fetched(Tag)
    PROVE  /\ g.disk \in Seq(Bytes) /\ Len(g.disk) <= MaxSize
           /\ g.fpos \in 0..MaxSize
           /\ g.F \in FileRecord
           /\ g.F.bufTag = Tag /\ g.F.pos = F.pos /\ g.F.size = F.size
           /\ Coherent(g.disk, g.fpos, g.F)
           /\ Shown(g.disk, g.F) = Shown(disk, F)
  <1>1. CASE Tag = F.bufTag
    <2>1. g = [disk |-> disk, fpos |-> fpos, F |-> F] BY <1>1 DEF Fetched
    <2> QED BY <1>1, <2>1 DEF Types
  <1>2. CASE Tag # F.bufTag
    <2> DEFINE d == Flushed.disk
               n == IF Tag >= Len(d) THEN 0 ELSE Least(BufSize, Len(d) - Tag)
               buf == [i \in 1..BufSize |-> IF i <= n THEN d[Tag + i] ELSE F.buf[i]]
    <2>1. /\ d = Shown(disk, F) /\ d \in Seq(Bytes) /\ Len(d) = F.size
          /\ F.size \in 0..MaxSize /\ F.pos <= F.size
      BY FlushedFile, ShownType DEF Coherent
    <2>2. /\ Off \in 0..BufSize-1 /\ Tag \in Tags \ {-1} /\ Tag \in Nat
          /\ F.pos = Tag + Off
      BY Position
    <2> HIDE DEF d, n
    <2>a. Tag <= F.size BY <2>1, <2>2
    <2> USE DEF d, n
    <2>3. Flushed.fpos = Tag
      <3>1. CASE F.bufTag = -1 BY <3>1, FlushedFile, Position
      <3>2. CASE F.bufTag # -1
        <4>1. Tag = F.bufTag + BufSize /\ Buffered(disk, fpos, F)
          BY <1>2, <3>2, Position DEF Coherent
        <4>2. F.bufSize = BufSize
          BY <2>1, <2>2, <4>1, RecordType DEF Buffered
        <4> QED BY <3>2, <4>1, <4>2, FlushedFile
      <3> QED BY <3>1, <3>2
    <2>4. /\ n \in 0..BufSize /\ Tag + n <= F.size
          /\ n = BufSize \/ Tag + n = F.size
      BY <2>1, <2>2, <2>a DEF Least
    <2>5. g = [disk |-> d, fpos |-> Tag + n,
               F |-> [F EXCEPT
                         !.buf = [i \in 1..BufSize |-> IF i <= n THEN d[Tag + i] ELSE @[i]],
                         !.bufTag = Tag, !.bufSize = n, !.dirty = FALSE]]
      BY <1>2, <2>3 DEF Fetched
    <2> HIDE DEF d, n
    <2>8. g.disk = d /\ g.fpos = Tag + n BY <2>5
    <2>9. g.F = [buf |-> buf, bufTag |-> Tag, bufSize |-> n, dirty |-> FALSE,
                 pos |-> F.pos, size |-> F.size]
      <3>1. g.F = [F EXCEPT !.buf = buf, !.bufTag = Tag, !.bufSize = n, !.dirty = FALSE]
        BY <2>5
      <3> HIDE DEF buf
      <3> QED BY <3>1, RecordType
    <2>10. \A i \in 1..n : d[Tag + i] \in Bytes
      BY <2>1, <2>2, <2>4
    <2>11. buf \in [1..BufSize -> Bytes \cup {Junk}]
      BY <2>4, <2>10, RecordType
    <2>12. \A i \in 1..n : buf[i] = d[Tag + i] BY <2>4
    <2> HIDE DEF buf
    <2>13. g.F \in FileRecord
      BY <2>1, <2>2, <2>4, <2>9, <2>11, RecordType DEF FileRecord
    <2>14. Clean(d, Tag + n, g.F) BY <2>1, <2>9, <2>12 DEF Clean
    <2>15. Buffered(d, Tag + n, g.F)
      <3>1. Tag <= F.pos /\ F.pos <= Tag + BufSize BY <2>2
      <3>2. \A i \in 1..n : buf[i] \in Bytes BY <2>10, <2>12
      <3>3. Tag <= Len(d) /\ Len(d) <= F.size BY <2>1, <2>a
      <3> QED BY <2>1, <2>4, <2>9, <2>14, <3>1, <3>2, <3>3 DEF Buffered
    <2>18. Coherent(d, Tag + n, g.F)
      BY <2>1, <2>2, <2>9, <2>15 DEF Coherent
    <2>16. Shown(d, g.F) = d
      <3>1. Shown(d, g.F) = [i \in 1..F.size |-> IF Tag < i /\ i <= Tag + n
                                                 THEN buf[i - Tag] ELSE d[i]]
        BY <2>1, <2>2, <2>9 DEF Shown
      <3>2. \A i \in 1..F.size : Tag < i /\ i <= Tag + n => buf[i - Tag] = d[i]
        <4> SUFFICES ASSUME NEW i \in 1..F.size, Tag < i /\ i <= Tag + n
                     PROVE  buf[i - Tag] = d[i]
          OBVIOUS
        <4>1. i - Tag \in 1..n /\ Tag + (i - Tag) = i BY <2>2, <2>4
        <4> QED BY <2>12, <4>1
      <3>3. Shown(d, g.F) = [i \in 1..F.size |-> d[i]] BY <3>1, <3>2
      <3> QED BY <2>1, <3>3
    <2>17. Tag + n \in 0..MaxSize BY <2>1, <2>2, <2>4
    <2> QED BY <2>1, <2>8, <2>9, <2>13, <2>18, <2>16, <2>17
  <1> QED BY <1>1, <1>2

-----------------------------------------------------------------------------
(* The chunks of a transfer.                                                 *)

(* A turn of BlockRead's loop delivers at least one byte, from the block     *)
(* just fetched, and these are bytes of the file.                            *)
LEMMA ReadTurn ==
    ASSUME IInv, ReadChunk
    PROVE  \E g \in {Fetched(Tag)} : \E chunk \in 1..want :
              /\ F.pos + chunk <= F.size
              /\ disk' = g.disk /\ fpos' = g.fpos
              /\ F' = [g.F EXCEPT !.pos = F.pos + chunk]
              /\ F.pos + chunk <= Tag + BufSize
              /\ want' = want - chunk
              /\ got' = got \o SubSeq(Shown(disk, F), F.pos + 1, F.pos + chunk)
              /\ open /\ UNCHANGED <<open, src>>
  <1> DEFINE g == Fetched(Tag)
             chunk == Least(g.F.bufSize - Off, want)
  <1>1. /\ open /\ want \in Nat \ {0} /\ F.pos + want <= F.size
        /\ Types /\ Coherent(disk, fpos, F)
    BY DEF IInv, Transfer, Types, ReadChunk
  <1>2. /\ g.F \in FileRecord /\ g.F.bufTag = Tag /\ g.F.pos = F.pos
        /\ g.F.size = F.size /\ Coherent(g.disk, g.fpos, g.F)
        /\ Shown(g.disk, g.F) = Shown(disk, F)
    BY <1>1, FetchedBlock
  <1>3. /\ Off \in 0..BufSize-1 /\ Tag \in Tags \ {-1} /\ Tag \in Nat
        /\ F.pos = Tag + Off
    BY <1>1, Position
  <1>a. F.size \in 0..MaxSize /\ F.pos \in Nat BY <1>1, RecordType DEF Coherent
  <1>4. g.F.bufSize \in 0..BufSize /\ g.F.buf \in [1..BufSize -> Bytes \cup {Junk}]
    BY <1>2, Fields
  <1>5. Buffered(g.disk, g.fpos, g.F) BY <1>2, <1>3 DEF Coherent
  <1> HIDE DEF g
  <1>6. g.F.bufSize = BufSize \/ Tag + g.F.bufSize = F.size
    BY <1>2, <1>5 DEF Buffered
  <1>7. Off < g.F.bufSize BY <1>1, <1>3, <1>4, <1>6, <1>a
  <1>8. /\ chunk \in 1..want /\ Off + chunk <= g.F.bufSize
        /\ F.pos + chunk <= F.size /\ F.pos + chunk <= Tag + BufSize
    <2>1. chunk \in 1..want /\ chunk <= g.F.bufSize - Off
      BY <1>1, <1>3, <1>4, <1>7 DEF Least
    <2> HIDE DEF chunk
    <2>2. chunk \in Nat /\ want \in Nat /\ g.F.bufSize \in Nat /\ Off \in Nat
      BY <1>1, <1>3, <1>4, <2>1
    <2>3. Off + chunk <= g.F.bufSize BY <2>1, <2>2
    <2>4. F.pos + chunk <= F.size BY <1>1, <1>a, <2>1, <2>2
    <2>5. F.pos + chunk <= Tag + BufSize BY <1>3, <1>4, <2>2, <2>3
    <2> QED BY <2>1, <2>3, <2>4, <2>5
  <1>b. chunk \in Nat BY <1>1, <1>8
  <1>9. /\ disk' = g.disk /\ fpos' = g.fpos
        /\ F' = [g.F EXCEPT !.pos = @ + chunk]
        /\ want' = want - chunk
        /\ got' = got \o SubSeq(g.F.buf, Off + 1, Off + chunk)
        /\ UNCHANGED <<open, src>>
    <2>1. ~(Off >= g.F.bufSize) BY <1>3, <1>4, <1>7
    <2> QED BY <2>1 DEF ReadChunk, Available, g
  <1> HIDE DEF chunk
  <1>10. SubSeq(g.F.buf, Off + 1, Off + chunk)
           = SubSeq(Shown(disk, F), F.pos + 1, F.pos + chunk)
    <2>1. \A i \in 1..chunk : Shown(disk, F)[F.pos + i] = g.F.buf[Off + i]
      <3> SUFFICES ASSUME NEW i \in 1..chunk
                   PROVE  Shown(disk, F)[F.pos + i] = g.F.buf[Off + i]
        OBVIOUS
      <3>1. /\ F.pos + i \in 1..F.size /\ Tag < F.pos + i
            /\ F.pos + i <= Tag + g.F.bufSize /\ (F.pos + i) - Tag = Off + i
        <4>1. /\ i \in Nat \ {0} /\ i <= chunk /\ Off \in Nat /\ Tag \in Nat
              /\ g.F.bufSize \in Nat /\ F.size \in Nat /\ F.pos \in Nat
          BY <1>3, <1>4, <1>a, <1>b
        <4>2. F.pos + i <= F.size BY <1>8, <1>b, <4>1
        <4>3. Off + i <= g.F.bufSize BY <1>8, <1>b, <4>1
        <4> QED BY <1>3, <4>1, <4>2, <4>3
      <3>2. Shown(g.disk, g.F)[F.pos + i] = g.F.buf[(F.pos + i) - Tag]
        BY <1>2, <1>3, <3>1 DEF Shown
      <3> QED BY <1>2, <3>1, <3>2
    <2>2. SubSeq(g.F.buf, Off + 1, Off + chunk) = [i \in 1..chunk |-> g.F.buf[Off + i]]
      <3> DEFINE b == g.F.buf
                 o == Off
      <3>1. b \in Seq(Bytes \cup {Junk}) /\ Len(b) = BufSize BY <1>4
      <3>2. o \in Nat /\ o + chunk <= Len(b) BY <1>3, <1>4, <1>8, <1>b, <3>1
      <3> HIDE DEF b, o
      <3>3. SubSeq(b, o + 1, o + chunk) = [i \in 1..chunk |-> b[o + i]]
        <4> DEFINE u == SubSeq(b, o + 1, o + chunk)
        <4>1. u \in Seq(Bytes \cup {Junk}) BY <1>b, <3>1, <3>2, Slice
        <4>2. Len(u) = chunk BY <1>b, <3>1, <3>2, Slice
        <4>3. \A i \in 1..chunk : u[i] = b[o + i] BY <1>b, <3>1, <3>2, Slice
        <4> HIDE DEF u
        <4>4. u = [i \in 1..chunk |-> b[o + i]] BY <1>b, <4>1, <4>2, <4>3
        <4> QED BY <4>4 DEF u
      <3> QED BY <3>3 DEF b, o
    <2>3. SubSeq(Shown(disk, F), F.pos + 1, F.pos + chunk)
            = [i \in 1..chunk |-> Shown(disk, F)[F.pos + i]]
      <3> DEFINE t == Shown(disk, F)
      <3>1. t \in Seq(Bytes) /\ Len(t) = F.size BY <1>1, ShownType
      <3> HIDE DEF t
      <3>4. SubSeq(t, F.pos + 1, F.pos + chunk) = [i \in 1..chunk |-> t[F.pos + i]]
        <4>1. F.pos + chunk <= Len(t) /\ F.pos \in Nat BY <3>1, <1>a, <1>8
        <4> HIDE DEF t
        <4> DEFINE p == F.pos
        <4>2. p \in Nat /\ p + chunk <= Len(t) BY <4>1
        <4> HIDE DEF p
        <4>3. SubSeq(t, p + 1, p + chunk) = [i \in 1..chunk |-> t[p + i]]
          BY <3>1, <1>b, <4>2, Slice
        <4> QED BY <4>3 DEF p
      <3> QED BY <3>4 DEF t
    <2> QED BY <2>1, <2>2, <2>3
  <1> QED BY <1>1, <1>2, <1>8, <1>9, <1>10 DEF g

(* A turn of BlockWrite's loop stores at least one byte in the block.        *)
LEMMA WriteTurn ==
    ASSUME IInv, WriteChunk
    PROVE  \E g \in {Fetched(Tag)} : \E chunk \in 1..Len(src) :
              /\ Off + chunk <= BufSize
              /\ disk' = g.disk /\ fpos' = g.fpos
              /\ F' = [g.F EXCEPT
                          !.buf = [i \in 1..BufSize |-> IF Off < i /\ i <= Off + chunk
                                                        THEN src[i - Off] ELSE g.F.buf[i]],
                          !.dirty = TRUE,
                          !.bufSize = IF Off + chunk > g.F.bufSize THEN Off + chunk
                                      ELSE g.F.bufSize,
                          !.pos = F.pos + chunk,
                          !.size = IF F.pos + chunk > F.size THEN F.pos + chunk ELSE F.size]
              /\ src' = SubSeq(src, chunk + 1, Len(src))
              /\ open /\ UNCHANGED <<open, want, got>>
  <1> DEFINE g == Fetched(Tag)
             chunk == Least(BufSize - Off, Len(src))
  <1>1. /\ open /\ Types /\ Coherent(disk, fpos, F) /\ src # <<>>
        /\ src \in Seq(Bytes)
    BY DEF IInv, Transfer, WriteChunk, Types
  <1>2. Len(src) \in Nat /\ Len(src) > 0 BY <1>1
  <1>3. Off \in 0..BufSize-1 BY <1>1, Position
  <1>4. chunk \in 1..Len(src) /\ Off + chunk <= BufSize BY <1>2, <1>3 DEF Least
  <1> QED BY <1>1, <1>4 DEF WriteChunk, Grown

-----------------------------------------------------------------------------
(* The invariant holds.                                                      *)

LEMMA FreshType ==
    ASSUME NEW n \in 0..MaxSize
    PROVE  Fresh(n) \in FileRecord
  <1>1. -1 \in Tags BY DEF Tags
  <1> QED BY <1>1 DEF Fresh, FileRecord

LEMMA FreshCoherent ==
    ASSUME NEW d \in Seq(Bytes), Len(d) <= MaxSize
    PROVE  Fresh(Len(d)) \in FileRecord /\ Coherent(d, 0, Fresh(Len(d)))
  <1>1. Len(d) \in 0..MaxSize OBVIOUS
  <1> DEFINE f == Fresh(Len(d))
  <1>2. /\ f \in FileRecord /\ f.bufTag = -1 /\ f.bufSize = 0 /\ f.dirty = FALSE
        /\ f.pos = 0 /\ f.size = Len(d)
    BY <1>1, FreshType DEF Fresh
  <1> HIDE DEF f
  <1>3. Unbuffered(d, 0, f) /\ f.size \in 0..MaxSize /\ f.pos <= f.size
    BY <1>1, <1>2 DEF Unbuffered
  <1>4. f \in FileRecord /\ Coherent(d, 0, f) BY <1>2, <1>3 DEF Coherent
  <1> QED BY <1>4 DEF f

LEMMA InitInv == Init => IInv
  <1> SUFFICES ASSUME Init PROVE IInv OBVIOUS
  <1>1. PICK k \in 0..MaxSize : disk \in [1..k -> Bytes] BY DEF Init, Data
  <1>2. disk \in Seq(Bytes) /\ Len(disk) <= MaxSize BY <1>1
  <1>3. F \in FileRecord BY FreshType DEF Init
  <1>4. src \in Seq(Bytes) /\ Len(src) = 0 /\ got \in Seq(Bytes) BY DEF Init
  <1>5. /\ want = 0 /\ want \in 0..MaxLen /\ fpos \in 0..MaxSize
        /\ ~open /\ open \in BOOLEAN /\ src = <<>>
    <2>1. open = FALSE BY DEF Init
    <2>2. ~open /\ open \in BOOLEAN BY <2>1
    <2> QED BY <2>2 DEF Init
  <1>6. Types BY <1>2, <1>3, <1>4, <1>5 DEF Types
  <1>7. Transfer BY <1>5 DEF Transfer
  <1> QED BY <1>5, <1>6, <1>7 DEF IInv

LEMMA BlockReadInv == ASSUME NEW len \in 1..MaxLen PROVE IInv /\ BlockRead(len) => IInv'
  <1> SUFFICES ASSUME IInv, BlockRead(len) PROVE IInv' OBVIOUS
  <1>1. open /\ src = <<>> /\ Types /\ Coherent(disk, fpos, F)
    BY DEF IInv, BlockRead, Idle
  <1>2. F.pos \in Nat /\ F.size \in Nat /\ F.pos <= F.size
    BY <1>1, RecordType DEF Coherent
  <1>3. Clipped(len) \in 0..MaxLen /\ F.pos + Clipped(len) <= F.size
    BY <1>2 DEF Clipped
  <1>4. got' \in Seq(Bytes) BY DEF BlockRead
  <1> QED BY <1>1, <1>3, <1>4 DEF BlockRead, IInv, Types, Transfer

LEMMA BlockWriteInv == ASSUME NEW s \in Data(MaxLen) PROVE IInv /\ BlockWrite(s) => IInv'
  <1> SUFFICES ASSUME IInv, BlockWrite(s) PROVE IInv' OBVIOUS
  <1>1. PICK k \in 0..MaxLen : s \in [1..k -> Bytes] BY DEF Data
  <1>2. s \in Seq(Bytes) /\ Len(s) <= MaxLen BY <1>1
  <1>3. got' \in Seq(Bytes) BY DEF BlockWrite
  <1>4. F.pos + Len(s) <= MaxSize /\ src' = s /\ open /\ want = 0 /\ want' = 0
    BY DEF BlockWrite, Idle
  <1> QED BY <1>2, <1>3, <1>4 DEF BlockWrite, IInv, Types, Transfer

LEMMA ReadChunkInv == IInv /\ ReadChunk => IInv'
  <1> SUFFICES ASSUME IInv, ReadChunk PROVE IInv' OBVIOUS
  <1>1. Types /\ open /\ Coherent(disk, fpos, F) /\ want > 0 /\ src = <<>>
        /\ F.pos + want <= F.size
    BY DEF IInv, Transfer, ReadChunk
  <1>2. PICK g \in {Fetched(Tag)} : \E chunk \in 1..want :
              /\ F.pos + chunk <= F.size
              /\ disk' = g.disk /\ fpos' = g.fpos
              /\ F' = [g.F EXCEPT !.pos = F.pos + chunk]
              /\ F.pos + chunk <= Tag + BufSize
              /\ want' = want - chunk
              /\ got' = got \o SubSeq(Shown(disk, F), F.pos + 1, F.pos + chunk)
              /\ open /\ UNCHANGED <<open, src>>
    BY ReadTurn
  <1>3. PICK chunk \in 1..want :
              /\ F.pos + chunk <= F.size
              /\ disk' = g.disk /\ fpos' = g.fpos
              /\ F' = [g.F EXCEPT !.pos = F.pos + chunk]
              /\ F.pos + chunk <= Tag + BufSize
              /\ want' = want - chunk
              /\ got' = got \o SubSeq(Shown(disk, F), F.pos + 1, F.pos + chunk)
              /\ open /\ UNCHANGED <<open, src>>
    BY <1>2
  <1>4. /\ g.disk \in Seq(Bytes) /\ Len(g.disk) <= MaxSize
        /\ g.fpos \in 0..MaxSize
        /\ g.F \in FileRecord
        /\ g.F.bufTag = Tag /\ g.F.pos = F.pos /\ g.F.size = F.size
        /\ Coherent(g.disk, g.fpos, g.F)
    BY <1>1, FetchedBlock
  <1>5. /\ Off \in 0..BufSize-1 /\ Tag \in Tags \ {-1} /\ Tag \in Nat
        /\ F.pos = Tag + Off
    BY <1>1, Position
  <1>6. /\ want \in Nat /\ want <= MaxLen /\ chunk \in Nat \ {0} /\ chunk <= want
        /\ F.pos \in Nat /\ F.size \in 0..MaxSize
    <2>1. /\ want \in 0..MaxLen /\ F.pos \in Nat /\ F.size \in 0..MaxSize
      BY <1>1, RecordType DEF Types, Coherent
    <2>2. chunk \in 1..want OBVIOUS
    <2> QED BY <2>1, <2>2
  <1>7. want' \in 0..MaxLen /\ F.pos + chunk + want' <= F.size
    <2>1. want' = want - chunk BY <1>3
    <2> QED BY <1>1, <1>6, <2>1
  <1>8. /\ F'.buf = g.F.buf /\ F'.bufTag = g.F.bufTag /\ F'.bufSize = g.F.bufSize
        /\ F'.dirty = g.F.dirty /\ F'.size = g.F.size /\ F'.pos = F.pos + chunk
        /\ F' \in FileRecord
    <2>1. F.pos + chunk \in 0..MaxSize
      <3>1. F.pos + chunk <= F.size BY <1>3
      <3> QED BY <1>6, <3>1
    <2>2. F' = [g.F EXCEPT !.pos = F.pos + chunk] BY <1>3
    <2> QED BY <1>4, <2>1, <2>2 DEF FileRecord
  <1>9. Coherent(disk', fpos', F')
    <2>1. Buffered(g.disk, g.fpos, g.F) BY <1>4, <1>5 DEF Coherent
    <2>2. Tag <= F.pos + chunk BY <1>5, <1>6
    <2>3. Buffered(g.disk, g.fpos, F')
      BY <1>3, <1>4, <1>8, <2>1, <2>2 DEF Buffered, Clean
    <2> QED BY <1>3, <1>4, <1>5, <1>6, <1>8, <2>3 DEF Coherent
  <1>10. got' \in Seq(Bytes)
    <2> DEFINE t == Shown(disk, F)
               p == F.pos
    <2>1. t \in Seq(Bytes) /\ p + chunk <= Len(t) /\ p \in Nat
      BY <1>1, <1>3, <1>6, ShownType
    <2>2. got \in Seq(Bytes) /\ got' = got \o SubSeq(t, p + 1, p + chunk)
      BY <1>1, <1>3 DEF Types
    <2> HIDE DEF t, p
    <2>3. SubSeq(t, p + 1, p + chunk) \in Seq(Bytes) BY <1>6, <2>1, Slice
    <2> QED BY <2>2, <2>3
  <1>11. Types'
    <2>1. src' = src /\ open' = open /\ disk' = g.disk /\ fpos' = g.fpos BY <1>3
    <2> QED BY <1>1, <1>4, <1>7, <1>8, <1>10, <2>1 DEF Types
  <1>12. Transfer'
    <2>1. src' = <<>> /\ open' /\ F'.size = F.size BY <1>1, <1>3, <1>4, <1>8
    <2> QED BY <1>7, <1>8, <2>1 DEF Transfer
  <1>13. Coherent(disk, fpos, F)' BY <1>9
  <1> QED BY <1>11, <1>12, <1>13 DEF IInv

LEMMA WriteChunkInv == IInv /\ WriteChunk => IInv'
  <1> SUFFICES ASSUME IInv, WriteChunk PROVE IInv' OBVIOUS
  <1>1. /\ Types /\ open /\ Coherent(disk, fpos, F) /\ want = 0
        /\ F.pos + Len(src) <= MaxSize /\ src \in Seq(Bytes) /\ src # <<>>
    BY DEF IInv, Transfer, WriteChunk, Types
  <1> DEFINE Turn(g, chunk) ==
              /\ Off + chunk <= BufSize
              /\ disk' = g.disk /\ fpos' = g.fpos
              /\ F' = [g.F EXCEPT
                          !.buf = [i \in 1..BufSize |-> IF Off < i /\ i <= Off + chunk
                                                        THEN src[i - Off] ELSE g.F.buf[i]],
                          !.dirty = TRUE,
                          !.bufSize = IF Off + chunk > g.F.bufSize THEN Off + chunk
                                      ELSE g.F.bufSize,
                          !.pos = F.pos + chunk,
                          !.size = IF F.pos + chunk > F.size THEN F.pos + chunk ELSE F.size]
              /\ src' = SubSeq(src, chunk + 1, Len(src))
              /\ open /\ UNCHANGED <<open, want, got>>
  <1>2. PICK g \in {Fetched(Tag)} : \E chunk \in 1..Len(src) : Turn(g, chunk) BY WriteTurn
  <1>3. PICK chunk \in 1..Len(src) : Turn(g, chunk) BY <1>2
  <1>4. /\ g.disk \in Seq(Bytes) /\ Len(g.disk) <= MaxSize
        /\ g.fpos \in 0..MaxSize
        /\ g.F \in FileRecord
        /\ g.F.bufTag = Tag /\ g.F.pos = F.pos /\ g.F.size = F.size
        /\ Coherent(g.disk, g.fpos, g.F)
    BY <1>1, FetchedBlock
  <1>5. /\ Off \in 0..BufSize-1 /\ Tag \in Tags \ {-1} /\ Tag \in Nat
        /\ F.pos = Tag + Off
    BY <1>1, Position
  <1>6. /\ F.pos \in Nat /\ F.size \in 0..MaxSize /\ F.pos <= F.size
        /\ Len(src) \in Nat /\ chunk \in Nat \ {0} /\ chunk <= Len(src)
        /\ Off + chunk <= BufSize /\ F.pos + chunk <= MaxSize
    <2>1. Len(src) \in Nat BY <1>1
    <2>2. F.pos \in Nat /\ F.size \in 0..MaxSize /\ F.pos <= F.size
      BY <1>1, RecordType DEF Coherent
    <2>3. chunk \in 1..Len(src) /\ Off + chunk <= BufSize BY <1>3
    <2> QED BY <1>1, <2>1, <2>2, <2>3
  <1>7. /\ g.F.bufSize \in 0..BufSize /\ g.F.buf \in [1..BufSize -> Bytes \cup {Junk}]
        /\ g.F = [buf |-> g.F.buf, bufTag |-> g.F.bufTag, bufSize |-> g.F.bufSize,
                  dirty |-> g.F.dirty, pos |-> g.F.pos, size |-> g.F.size]
    BY <1>4, Fields
  <1>8. Buffered(g.disk, g.fpos, g.F) BY <1>4, <1>5 DEF Coherent
  <1>9. Len(g.disk) \in Nat BY <1>4
  <1>10. /\ Off <= g.F.bufSize /\ Len(g.disk) <= F.size /\ Tag <= Len(g.disk)
         /\ Tag + g.F.bufSize <= F.size
         /\ F.size = Len(g.disk) \/ F.size = Tag + g.F.bufSize
         /\ g.F.bufSize = BufSize \/ Tag + g.F.bufSize = F.size
    <2>1. /\ Len(g.disk) <= F.size /\ Tag <= Len(g.disk)
          /\ Tag + g.F.bufSize <= F.size
          /\ F.size = Len(g.disk) \/ F.size = Tag + g.F.bufSize
          /\ g.F.bufSize = BufSize \/ Tag + g.F.bufSize = F.size
      BY <1>4, <1>8 DEF Buffered
    <2> QED BY <1>5, <1>6, <1>7, <2>1
  <1> DEFINE size == IF F.pos + chunk > F.size THEN F.pos + chunk ELSE F.size
             held == IF Off + chunk > g.F.bufSize THEN Off + chunk ELSE g.F.bufSize
             buf == [i \in 1..BufSize |-> IF Off < i /\ i <= Off + chunk
                                          THEN src[i - Off] ELSE g.F.buf[i]]
  <1>11. /\ F' = [buf |-> buf, bufTag |-> Tag, bufSize |-> held, dirty |-> TRUE,
                  pos |-> F.pos + chunk, size |-> size]
         /\ disk' = g.disk /\ fpos' = g.fpos
         /\ src' = SubSeq(src, chunk + 1, Len(src)) /\ open' = open
         /\ want' = want /\ got' = got
    BY <1>3, <1>4, <1>7
  <1> HIDE DEF Turn
  <1>12. /\ size \in 0..MaxSize /\ F.pos + chunk <= size
         /\ held \in 0..BufSize
         /\ Tag + held <= size
         /\ size = Len(g.disk) \/ size = Tag + held
         /\ held = BufSize \/ Tag + held = size
         /\ Len(g.disk) <= size
    <2>1. CASE F.pos + chunk > F.size
      <3>1. size = F.pos + chunk BY <2>1
      <3>2. held = Off + chunk
        <4>1. Tag + g.F.bufSize < Tag + Off + chunk BY <1>5, <1>6, <1>7, <1>10, <2>1
        <4>2. Off + chunk > g.F.bufSize BY <1>5, <1>6, <1>7, <4>1
        <4> QED BY <4>2
      <3> HIDE DEF size, held
      <3>3. size = Tag + held BY <1>5, <1>6, <3>1, <3>2
      <3>4. held \in 0..BufSize /\ size \in 0..MaxSize BY <1>5, <1>6, <3>1, <3>2
      <3>5. Len(g.disk) <= size BY <1>6, <1>9, <1>10, <2>1, <3>1
      <3> QED BY <3>1, <3>3, <3>4, <3>5
    <2>2. CASE ~(F.pos + chunk > F.size)
      <3>1. size = F.size BY <2>2
      <3>2. held = g.F.bufSize BY <1>5, <1>6, <1>7, <1>10, <2>2
      <3> HIDE DEF size, held
      <3> QED BY <1>5, <1>6, <1>7, <1>10, <2>2, <3>1, <3>2
    <2> QED BY <2>1, <2>2
  <1>13. buf \in [1..BufSize -> Bytes \cup {Junk}] /\ \A i \in 1..held : buf[i] \in Bytes
    <2>1. \A i \in 1..BufSize : Off < i /\ i <= Off + chunk => src[i - Off] \in Bytes
      <3> SUFFICES ASSUME NEW i \in 1..BufSize, Off < i, i <= Off + chunk
                   PROVE  src[i - Off] \in Bytes
        OBVIOUS
      <3>1. i - Off \in 1..Len(src) BY <1>5, <1>6
      <3> QED BY <1>1, <3>1
    <2>2. ASSUME NEW i \in 1..held PROVE buf[i] \in Bytes
      <3>1. i \in 1..BufSize BY <1>12
      <3>2. CASE Off < i /\ i <= Off + chunk BY <2>1, <3>1, <3>2
      <3>3. CASE ~(Off < i /\ i <= Off + chunk)
        <4>1. i \in 1..g.F.bufSize BY <1>5, <1>6, <1>7, <1>10, <3>3
        <4>2. g.F.buf[i] \in Bytes BY <1>8, <4>1 DEF Buffered
        <4> QED BY <3>1, <3>3, <4>2
      <3> QED BY <3>2, <3>3
    <2>3. \A i \in 1..BufSize : buf[i] \in Bytes \cup {Junk} BY <1>7, <2>1
    <2> QED BY <2>2, <2>3
  <1> HIDE DEF buf, held, size
  <1>14. F.pos + chunk \in 0..MaxSize BY <1>6
  <1>15. F' \in FileRecord BY <1>5, <1>11, <1>12, <1>13, <1>14 DEF FileRecord
  <1>16. Coherent(disk', fpos', F')
    <2>1. /\ F'.bufTag = Tag /\ F'.bufSize = held /\ F'.dirty = TRUE /\ F'.buf = buf
          /\ F'.pos = F.pos + chunk /\ F'.size = size
      BY <1>11
    <2>2. Tag <= F.pos + chunk /\ F.pos + chunk <= Tag + BufSize BY <1>5, <1>6
    <2>3. Buffered(g.disk, g.fpos, F')
      BY <1>10, <1>12, <1>13, <2>1, <2>2 DEF Buffered
    <2> QED BY <1>5, <1>11, <1>12, <2>1, <2>3 DEF Coherent
  <1>17. src' \in Seq(Bytes) /\ Len(src') = Len(src) - chunk
    <2> DEFINE c == Len(src) - chunk
    <2>1. c \in Nat /\ chunk + c = Len(src) BY <1>6
    <2> HIDE DEF c
    <2>2. src' = SubSeq(src, chunk + 1, chunk + c) BY <1>11, <2>1
    <2>3. src' \in Seq(Bytes) /\ Len(src') = c BY <1>1, <1>6, <2>1, <2>2, Slice
    <2> QED BY <2>3 DEF c
  <1>18. Types'
    <2>1. Len(src') <= MaxLen BY <1>1, <1>6, <1>17 DEF Types
    <2> QED BY <1>1, <1>4, <1>11, <1>15, <1>17, <2>1 DEF Types
  <1>19. Transfer'
    <2>1. F'.pos = F.pos + chunk /\ want' = 0 /\ open' BY <1>1, <1>11
    <2>2. F'.pos + Len(src') <= MaxSize BY <1>1, <1>6, <1>17, <2>1
    <2> QED BY <2>1, <2>2 DEF Transfer
  <1>20. Coherent(disk, fpos, F)' BY <1>16
  <1> QED BY <1>18, <1>19, <1>20 DEF IInv

LEMMA SeekInv ==
    ASSUME ~SeekAnywhere, NEW p \in 0..MaxSize
    PROVE  IInv /\ Seek(p) => IInv'
  <1> SUFFICES ASSUME IInv, Seek(p) PROVE IInv' OBVIOUS
  <1>1. /\ open /\ Types /\ Coherent(disk, fpos, F) /\ want = 0 /\ src = <<>>
        /\ F.bufTag # -1 /\ p \in F.bufTag..F.bufTag+BufSize
    BY DEF IInv, Seek, Idle, InBlock
  <1> DEFINE q == IF p > F.size THEN F.size ELSE p
  <1>2. Buffered(disk, fpos, F) /\ F.size \in 0..MaxSize BY <1>1 DEF Coherent
  <1>3. q \in 0..MaxSize /\ q <= F.size /\ F.bufTag <= q /\ q <= F.bufTag + BufSize
    <2>1. Len(disk) \in Nat /\ F.bufTag \in Int BY <1>1, RecordType DEF Types
    <2>2. F.bufTag <= F.size BY <1>2, <2>1 DEF Buffered
    <2> QED BY <1>1, <1>2, <2>1, <2>2
  <1>4. F' = [F EXCEPT !.pos = q] BY DEF Seek
  <1> HIDE DEF q
  <1>5. /\ F'.buf = F.buf /\ F'.bufTag = F.bufTag /\ F'.bufSize = F.bufSize
        /\ F'.dirty = F.dirty /\ F'.size = F.size /\ F'.pos = q
        /\ F' \in FileRecord
    BY <1>1, <1>3, <1>4 DEF Types, FileRecord
  <1>6. Buffered(disk, fpos, F') BY <1>2, <1>3, <1>5 DEF Buffered, Clean
  <1>7. disk' = disk /\ fpos' = fpos /\ UNCHANGED <<open, want, src, got>> BY DEF Seek
  <1>8. Coherent(disk', fpos', F')
    BY <1>1, <1>2, <1>3, <1>5, <1>6, <1>7 DEF Coherent
  <1>9. Coherent(disk, fpos, F)' BY <1>8
  <1>10. Types' BY <1>1, <1>5, <1>7 DEF Types
  <1>11. Transfer' BY <1>1, <1>7 DEF Transfer
  <1> QED BY <1>9, <1>10, <1>11 DEF IInv

(* Truncate flushes, so the file it cuts is the one the program sees.        *)
LEMMA TruncateCuts ==
    ASSUME IInv, Truncate
    PROVE  /\ disk' = SubSeq(Shown(disk, F), 1, F.pos)
           /\ disk' \in Seq(Bytes) /\ Len(disk') = F.pos
           /\ \A i \in 1..F.pos : disk'[i] = Shown(disk, F)[i]
  <1> DEFINE t == Shown(disk, F)
             p == F.pos
  <1>1. open /\ Types /\ Coherent(disk, fpos, F) BY DEF IInv, Truncate
  <1>2. t \in Seq(Bytes) /\ Len(t) = F.size BY <1>1, ShownType
  <1>3. p \in Nat /\ p <= Len(t) BY <1>1, <1>2, RecordType DEF Coherent
  <1>4. disk' = CutAt(t, p) BY <1>1, FlushedFile DEF Truncate
  <1>5. disk' = SubSeq(t, 1, p) BY <1>3, <1>4 DEF CutAt
  <1> HIDE DEF t, p
  <1>6. /\ SubSeq(t, 0 + 1, 0 + p) \in Seq(Bytes) /\ Len(SubSeq(t, 0 + 1, 0 + p)) = p
        /\ \A i \in 1..p : SubSeq(t, 0 + 1, 0 + p)[i] = t[0 + i]
    BY <1>2, <1>3, Slice
  <1>7. 0 + 1 = 1 /\ 0 + p = p /\ \A i \in 1..p : 0 + i = i BY <1>3
  <1> QED BY <1>5, <1>6, <1>7 DEF t, p

LEMMA TruncateInv == IInv /\ Truncate => IInv'
  <1> SUFFICES ASSUME IInv, Truncate PROVE IInv' OBVIOUS
  <1>1. /\ open /\ Types /\ Coherent(disk, fpos, F) /\ want = 0 /\ src = <<>>
    BY DEF IInv, Truncate, Idle
  <1>2. /\ disk' \in Seq(Bytes) /\ Len(disk') = F.pos
        /\ \A i \in 1..F.pos : disk'[i] = Shown(disk, F)[i]
    BY TruncateCuts
  <1> DEFINE left == IF F.bufTag = -1 THEN F.bufSize
                     ELSE IF F.pos > F.bufTag THEN F.pos - F.bufTag ELSE 0
  <1>3. Flushed.F = [F EXCEPT !.dirty = FALSE] BY <1>1, FlushedFile
  <1>4. /\ F' = [buf |-> F.buf, bufTag |-> F.bufTag, bufSize |-> left, dirty |-> FALSE,
                 pos |-> F.pos, size |-> F.pos]
        /\ fpos' = F.pos /\ UNCHANGED <<open, want, src, got>>
    BY <1>1, <1>3, RecordType DEF Truncate
  <1>5. F.pos \in 0..MaxSize /\ F.pos \in Nat /\ F.size \in 0..MaxSize /\ F.pos <= F.size
    BY <1>1, RecordType DEF Coherent
  <1>6. CASE F.bufTag = -1
    <2>1. Unbuffered(disk, fpos, F) BY <1>1, <1>6 DEF Coherent
    <2>2. left = 0 /\ F.pos = 0 BY <1>6, <2>1 DEF Unbuffered
    <2> HIDE DEF left
    <2>3. Unbuffered(disk', fpos', F') BY <1>2, <1>4, <2>2 DEF Unbuffered
    <2>4. F' \in FileRecord BY <1>1, <1>4, <1>5, <2>2, RecordType DEF FileRecord
    <2>5. Coherent(disk', fpos', F') BY <1>4, <1>5, <1>6, <2>3 DEF Coherent
    <2>6. Coherent(disk, fpos, F)' BY <2>5
    <2>7. Types' BY <1>1, <1>2, <1>4, <1>5, <2>4 DEF Types
    <2>8. Transfer' BY <1>1, <1>4 DEF Transfer
    <2> QED BY <2>6, <2>7, <2>8 DEF IInv
  <1>7. CASE F.bufTag # -1
    <2>1. Buffered(disk, fpos, F) /\ F.bufTag \in Nat
      BY <1>1, <1>7, RecordType, TagType DEF Coherent
    <2>2. /\ F.bufTag <= F.pos /\ F.pos <= F.bufTag + BufSize
          /\ F.bufSize = BufSize \/ F.bufTag + F.bufSize = F.size
      BY <2>1 DEF Buffered
    <2>3. /\ left \in 0..BufSize /\ F.bufTag + left = F.pos /\ left <= F.bufSize
      BY <1>1, <1>5, <1>7, <2>1, <2>2, RecordType
    <2> HIDE DEF left
    <2>4. F.bufSize \in 0..BufSize BY <1>1, RecordType
    <2>5. ASSUME NEW i \in 1..left
          PROVE  F.buf[i] = disk'[F.bufTag + i] /\ F.buf[i] \in Bytes
      <3>1. /\ i \in 1..F.bufSize /\ F.bufTag + i \in 1..F.pos
            /\ F.bufTag + i \in 1..F.size /\ F.bufTag < F.bufTag + i
            /\ F.bufTag + i <= F.bufTag + F.bufSize /\ (F.bufTag + i) - F.bufTag = i
        BY <1>5, <2>1, <2>3, <2>4
      <3>2. Shown(disk, F)[F.bufTag + i] = F.buf[i] BY <1>7, <3>1 DEF Shown
      <3> QED BY <1>2, <2>1, <3>1, <3>2 DEF Buffered
    <2>6. /\ F'.bufTag = F.bufTag /\ F'.bufSize = left /\ F'.dirty = FALSE
          /\ F'.buf = F.buf /\ F'.pos = F.pos /\ F'.size = F.pos
      BY <1>4
    <2>7. Clean(disk', fpos', F') BY <1>2, <1>4, <2>3, <2>5, <2>6 DEF Clean
    <2>8. Buffered(disk', fpos', F')
      BY <1>2, <1>5, <2>2, <2>3, <2>5, <2>6, <2>7 DEF Buffered
    <2>9. F' \in FileRecord BY <1>1, <1>4, <1>5, <2>3, RecordType DEF FileRecord
    <2>10. Coherent(disk', fpos', F') BY <1>5, <1>7, <2>6, <2>8 DEF Coherent
    <2>11. Coherent(disk, fpos, F)' BY <2>10
    <2>12. Types' BY <1>1, <1>2, <1>4, <1>5, <2>9 DEF Types
    <2>13. Transfer' BY <1>1, <1>4 DEF Transfer
    <2> QED BY <2>11, <2>12, <2>13 DEF IInv
  <1> QED BY <1>6, <1>7

LEMMA OpenInv == IInv /\ (Reset \/ ReWrite) => IInv'
  <1> SUFFICES ASSUME IInv, Reset \/ ReWrite PROVE IInv' OBVIOUS
  <1>1. Types /\ ~open /\ want = 0 /\ src = <<>>
    <2>1. want \in Nat BY DEF IInv, Types
    <2>2. ~open BY DEF Reset, ReWrite
    <2> QED BY <2>1, <2>2 DEF IInv, Transfer
  <1>2. /\ disk' \in Seq(Bytes) /\ Len(disk') <= MaxSize
        /\ F' = Fresh(Len(disk')) /\ fpos' = 0
    <2>1. CASE Reset BY <1>1, <2>1 DEF Reset, Types
    <2>2. CASE ReWrite
      <3>1. disk' = <<>> BY <2>2 DEF ReWrite
      <3>2. disk' \in Seq(Bytes) /\ Len(disk') = 0 BY <3>1
      <3> QED BY <2>2, <3>2 DEF ReWrite
    <2> QED BY <2>1, <2>2
  <1>3. F' \in FileRecord /\ Coherent(disk', fpos', F') BY <1>2, FreshCoherent
  <1>4. open' = TRUE /\ UNCHANGED <<want, src, got>> BY DEF Reset, ReWrite
  <1>5. open' \in BOOLEAN BY <1>4
  <1>6. fpos' \in 0..MaxSize BY <1>2
  <1>7. Coherent(disk, fpos, F)' BY <1>3
  <1>8. Types' BY <1>1, <1>2, <1>3, <1>4, <1>5, <1>6 DEF Types
  <1>9. Transfer' BY <1>1, <1>4 DEF Transfer
  <1> QED BY <1>7, <1>8, <1>9 DEF IInv

LEMMA OpenFailsInv == IInv /\ OpenFails => IInv'
  <1> SUFFICES ASSUME IInv, OpenFails PROVE IInv' OBVIOUS
  <1>1. Types /\ ~open /\ want = 0 /\ src = <<>>
    <2>1. want \in Nat BY DEF IInv, Types
    <2> QED BY <2>1 DEF IInv, Transfer, OpenFails
  <1>2. F' = [F EXCEPT !.pos = 0, !.size = -1] /\ UNCHANGED <<disk, fpos, open, want, src, got>>
    BY DEF OpenFails
  <1>a. F' = [buf |-> F.buf, bufTag |-> F.bufTag, bufSize |-> F.bufSize,
              dirty |-> F.dirty, pos |-> 0, size |-> -1]
    BY <1>1, <1>2, RecordType
  <1>b. 0 \in 0..MaxSize /\ -1 \in {-1} \cup 0..MaxSize OBVIOUS
  <1>3. F' \in FileRecord BY <1>1, <1>a, <1>b, RecordType DEF FileRecord
  <1>4. Types' BY <1>1, <1>2, <1>3 DEF Types
  <1> QED BY <1>1, <1>2, <1>4 DEF IInv, Transfer

LEMMA CloseInv == IInv /\ Close => IInv'
  <1> SUFFICES ASSUME IInv, Close PROVE IInv' OBVIOUS
  <1>1. /\ open /\ Types /\ Coherent(disk, fpos, F) /\ want = 0 /\ src = <<>>
    BY DEF IInv, Close, Idle
  <1>2. /\ disk' = Shown(disk, F)
        /\ fpos' = IF F.bufTag = -1 THEN 0 ELSE F.bufTag + F.bufSize
        /\ Flushed.F = [F EXCEPT !.dirty = FALSE]
    BY <1>1, FlushedFile DEF Close
  <1>3. disk' \in Seq(Bytes) /\ Len(disk') = F.size /\ F.size \in 0..MaxSize
    BY <1>1, <1>2, ShownType DEF Coherent
  <1>4. fpos' \in 0..MaxSize
    <2>1. CASE F.bufTag = -1 BY <1>2, <2>1
    <2>2. CASE F.bufTag # -1
      <3>1. F.bufTag + F.bufSize <= F.size BY <1>1, <2>2 DEF Coherent, Buffered
      <3>2. F.bufTag \in Nat /\ F.bufSize \in Nat BY <1>1, <2>2, RecordType, TagType
      <3> QED BY <1>2, <1>3, <2>2, <3>1, <3>2
    <2> QED BY <2>1, <2>2
  <1>5. F' = [buf |-> [i \in 1..BufSize |-> Junk], bufTag |-> F.bufTag,
              bufSize |-> F.bufSize, dirty |-> FALSE, pos |-> F.pos, size |-> F.size]
    BY <1>1, <1>2, RecordType DEF Close
  <1>6. F' \in FileRecord BY <1>1, <1>5, RecordType DEF FileRecord
  <1>7. open' = FALSE /\ got' = <<>> /\ UNCHANGED <<want, src>> BY DEF Close
  <1>a. got' \in Seq(Bytes) BY <1>7
  <1>b. ~open' /\ open' \in BOOLEAN BY <1>7
  <1>8. ~open' /\ open' \in BOOLEAN /\ got' \in Seq(Bytes) BY <1>a, <1>b
  <1>9. Types' BY <1>1, <1>3, <1>4, <1>6, <1>7, <1>8 DEF Types
  <1>10. Transfer' BY <1>1, <1>7 DEF Transfer
  <1> QED BY <1>8, <1>9, <1>10 DEF IInv

LEMMA NextInv == ~SeekAnywhere /\ IInv /\ [Next]_vars => IInv'
  <1> SUFFICES ASSUME ~SeekAnywhere, IInv, [Next]_vars PROVE IInv' OBVIOUS
  <1>1. CASE UNCHANGED vars
    BY <1>1 DEF vars, IInv, Types, Transfer, Coherent, Unbuffered, Buffered, Clean
  <1>2. ASSUME NEW len \in 1..MaxLen, BlockRead(len) PROVE IInv' BY <1>2, BlockReadInv
  <1>3. ASSUME NEW s \in Data(MaxLen), BlockWrite(s) PROVE IInv' BY <1>3, BlockWriteInv
  <1>4. ASSUME NEW p \in 0..MaxSize, Seek(p) PROVE IInv' BY <1>4, SeekInv
  <1>5. CASE ReadChunk BY <1>5, ReadChunkInv
  <1>6. CASE WriteChunk BY <1>6, WriteChunkInv
  <1>7. CASE Truncate BY <1>7, TruncateInv
  <1>8. CASE Reset \/ ReWrite BY <1>8, OpenInv
  <1>9. CASE OpenFails BY <1>9, OpenFailsInv
  <1>10. CASE Close BY <1>10, CloseInv
  <1> QED BY <1>1, <1>2, <1>3, <1>4, <1>5, <1>6, <1>7, <1>8, <1>9, <1>10 DEF Next

(* The invariant holds of every program that seeks in the buffered block.    *)
THEOREM Invariance == ASSUME ~SeekAnywhere PROVE Spec => []IInv
  <1>1. Init => IInv BY InitInv
  <1>2. IInv /\ [Next]_vars => IInv' BY NextInv
  <1> QED BY <1>1, <1>2, PTL DEF Spec

(* Positions and sizes stay natural numbers within the file.                 *)
THEOREM TypeCorrect == ASSUME ~SeekAnywhere PROVE Spec => []TypeOK
  <1>1. IInv => TypeOK
    <2> SUFFICES ASSUME IInv PROVE TypeOK OBVIOUS
    <2>1. Types BY DEF IInv
    <2>2. src \in Data(MaxLen)
      <3>1. src \in [1..Len(src) -> Bytes] /\ Len(src) \in 0..MaxLen BY <2>1 DEF Types
      <3> QED BY <3>1 DEF Data
    <2>3. disk \in Seq(Bytes \cup {Junk}) BY <2>1 DEF Types
    <2>4. F.bufTag \in {-1} \cup {BufSize * k : k \in 0..MaxSize} /\ F.pos \in 0..MaxSize
      BY <2>1, RecordType DEF Tags
    <2>5. open => F.pos <= F.size BY DEF IInv, Coherent
    <2> QED BY <2>1, <2>2, <2>3, <2>4, <2>5 DEF TypeOK, Types
  <1> QED BY <1>1, Invariance, PTL

(* The DOS file pointer stands where BufFetch, which does not seek, reads.   *)
THEOREM PointerFollows == ASSUME ~SeekAnywhere PROVE Spec => []PointerFollowsBuffer
  <1>1. IInv => PointerFollowsBuffer
    <2> SUFFICES ASSUME IInv, open, F.bufTag # -1, ~F.dirty, F.pos >= F.bufTag + BufSize
                 PROVE  fpos = F.bufTag + BufSize
      BY DEF PointerFollowsBuffer
    <2>1. Types /\ Buffered(disk, fpos, F) /\ F.pos <= F.size /\ F.size \in Nat
      BY DEF IInv, Coherent
    <2>2. F.bufSize = BufSize BY <2>1, RecordType DEF Buffered
    <2> QED BY <2>1, <2>2 DEF Buffered, Clean
  <1> QED BY <1>1, Invariance, PTL

-----------------------------------------------------------------------------
(* The abstract file.                                                        *)

LEMMA ContentShown == open => Content = Shown(disk, F)
  BY DEF Content, Shown

(* A chunk read is bytes of the file, which stays the same.                  *)
LEMMA ReadStep == IInv /\ ReadChunk => BF!Deliver
  <1> SUFFICES ASSUME IInv, ReadChunk PROVE BF!Deliver OBVIOUS
  <1>1. Types /\ open /\ Coherent(disk, fpos, F) /\ want \in Nat /\ want <= MaxLen
        /\ F.size \in Nat /\ F.pos \in Nat
    <2>1. want > 0 BY DEF ReadChunk
    <2>2. Types /\ open /\ Coherent(disk, fpos, F) BY <2>1 DEF IInv, Transfer
    <2> QED BY <2>2, RecordType DEF Types, Coherent
  <1>2. PICK g \in {Fetched(Tag)} : \E chunk \in 1..want :
              /\ F.pos + chunk <= F.size
              /\ disk' = g.disk /\ fpos' = g.fpos
              /\ F' = [g.F EXCEPT !.pos = F.pos + chunk]
              /\ F.pos + chunk <= Tag + BufSize
              /\ want' = want - chunk
              /\ got' = got \o SubSeq(Shown(disk, F), F.pos + 1, F.pos + chunk)
              /\ open /\ UNCHANGED <<open, src>>
    BY ReadTurn
  <1>3. PICK chunk \in 1..want :
              /\ F.pos + chunk <= F.size
              /\ disk' = g.disk
              /\ F' = [g.F EXCEPT !.pos = F.pos + chunk]
              /\ got' = got \o SubSeq(Shown(disk, F), F.pos + 1, F.pos + chunk)
              /\ open /\ open' = open
    BY <1>2
  <1>4. g.F \in FileRecord /\ Shown(g.disk, g.F) = Shown(disk, F) BY <1>1, FetchedBlock
  <1>5. Shown(disk', F') = Shown(disk, F)
    <2>1. /\ F'.size = g.F.size /\ F'.bufTag = g.F.bufTag /\ F'.bufSize = g.F.bufSize
          /\ F'.buf = g.F.buf
      BY <1>3, <1>4 DEF FileRecord
    <2>2. Shown(disk', F') = Shown(g.disk, g.F) BY <1>3, <2>1 DEF Shown
    <2> QED BY <1>4, <2>2
  <1>6. F'.pos = F.pos + chunk BY <1>3, <1>4 DEF FileRecord
  <1>7. Content = Shown(disk, F) /\ Content' = Content
    <2>1. Content' = Shown(disk', F') BY <1>3 DEF Content, Shown
    <2> QED BY <1>1, <1>5, <2>1, ContentShown
  <1>8. Len(Content) = F.size BY <1>1, <1>7, ShownType
  <1>9. chunk \in 1..MaxLen BY <1>1
  <1> QED BY <1>3, <1>6, <1>7, <1>8, <1>9 DEF BF!Deliver

(* A chunk written changes the bytes it covers and no other.                 *)
LEMMA WriteStep == IInv /\ WriteChunk => BF!Store
  <1> SUFFICES ASSUME IInv, WriteChunk PROVE BF!Store OBVIOUS
  <1>1. Types /\ open /\ Coherent(disk, fpos, F) /\ Len(src) \in Nat /\ Len(src) <= MaxLen
        /\ F.size \in Nat /\ F.pos \in Nat /\ F.pos <= F.size
    <2>1. Types /\ open /\ Coherent(disk, fpos, F) BY DEF IInv, Transfer, WriteChunk
    <2> QED BY <2>1, RecordType DEF Types, Coherent
  <1> DEFINE Turn(g, chunk) ==
              /\ Off + chunk <= BufSize
              /\ disk' = g.disk /\ fpos' = g.fpos
              /\ F' = [g.F EXCEPT
                          !.buf = [i \in 1..BufSize |-> IF Off < i /\ i <= Off + chunk
                                                        THEN src[i - Off] ELSE g.F.buf[i]],
                          !.dirty = TRUE,
                          !.bufSize = IF Off + chunk > g.F.bufSize THEN Off + chunk
                                      ELSE g.F.bufSize,
                          !.pos = F.pos + chunk,
                          !.size = IF F.pos + chunk > F.size THEN F.pos + chunk ELSE F.size]
              /\ src' = SubSeq(src, chunk + 1, Len(src))
              /\ open /\ UNCHANGED <<open, want, got>>
  <1>2. PICK g \in {Fetched(Tag)} : \E chunk \in 1..Len(src) : Turn(g, chunk) BY WriteTurn
  <1>3. PICK chunk \in 1..Len(src) : Turn(g, chunk) BY <1>2
  <1>4. /\ g.F \in FileRecord /\ Shown(g.disk, g.F) = Shown(disk, F)
        /\ g.F.bufTag = Tag /\ g.F.size = F.size
        /\ Coherent(g.disk, g.fpos, g.F) /\ g.disk \in Seq(Bytes)
    BY <1>1, FetchedBlock
  <1>5. /\ Off \in 0..BufSize-1 /\ Tag \in Tags \ {-1} /\ Tag \in Nat
        /\ F.pos = Tag + Off
    BY <1>1, Position
  <1>6. g.F.bufSize \in 0..BufSize BY <1>4, Fields
  <1>7. /\ F'.bufTag = Tag /\ F'.pos = F.pos + chunk
        /\ F'.bufSize = IF Off + chunk > g.F.bufSize THEN Off + chunk ELSE g.F.bufSize
        /\ F'.size = IF F.pos + chunk > F.size THEN F.pos + chunk ELSE F.size
        /\ F'.buf = [i \in 1..BufSize |-> IF Off < i /\ i <= Off + chunk
                                           THEN src[i - Off] ELSE g.F.buf[i]]
        /\ disk' = g.disk /\ open' = open /\ open' /\ got' = got /\ Off + chunk <= BufSize
    BY <1>1, <1>3, <1>4 DEF FileRecord
  <1> HIDE DEF Turn
  <1>8. Content = Shown(g.disk, g.F) /\ Content' = Shown(disk', F')
        /\ Content \in Seq(Bytes) /\ Len(Content) = F.size
    <2>1. Content' = Shown(disk', F') BY <1>7 DEF Content, Shown
    <2> QED BY <1>1, <1>4, <2>1, ContentShown, ShownType
  <1>9. Types' /\ Coherent(disk', fpos', F')
    <2>1. IInv' BY WriteChunkInv
    <2>2. Coherent(disk, fpos, F)' BY <1>7, <2>1 DEF IInv
    <2> QED BY <2>1, <2>2 DEF IInv
  <1>10. Content' \in Seq(Bytes) /\ Len(Content') = F'.size
    <2>1. disk' \in Seq(Bytes) /\ F' \in FileRecord BY <1>9 DEF Types
    <2>2. Shown(disk', F') \in Seq(Bytes) /\ Len(Shown(disk', F')) = F'.size
      BY <1>9, <2>1, ShownOf
    <2> QED BY <1>8, <2>2
  <1>11. chunk \in Nat \ {0} /\ chunk <= MaxLen BY <1>1
  <1>12. ASSUME NEW i \in 1..F.pos \cup F.pos+chunk+1..F.size
         PROVE  Content'[i] = Content[i]
    <2>1. i \in 1..F.size /\ i \in 1..F'.size BY <1>1, <1>7, <1>11
    <2>2. Content[i] = IF Tag < i /\ i <= Tag + g.F.bufSize THEN g.F.buf[i - Tag]
                       ELSE IF i <= Len(g.disk) THEN g.disk[i] ELSE Junk
      BY <1>4, <1>5, <1>8, <2>1 DEF Shown
    <2>3. Content'[i] = IF Tag < i /\ i <= Tag + F'.bufSize THEN F'.buf[i - Tag]
                        ELSE IF i <= Len(g.disk) THEN g.disk[i] ELSE Junk
      BY <1>5, <1>7, <1>8, <2>1 DEF Shown
    <2>4. Tag < i /\ i <= Tag + g.F.bufSize <=> Tag < i /\ i <= Tag + F'.bufSize
      <3>1. g.F.bufSize = BufSize \/ Tag + g.F.bufSize = F.size
        BY <1>4, <1>5 DEF Coherent, Buffered
      <3>2. F'.bufSize = IF Off + chunk > g.F.bufSize THEN Off + chunk ELSE g.F.bufSize
        BY <1>7
      <3>3. Off + chunk <= BufSize BY <1>7
      <3>4. CASE Off + chunk > g.F.bufSize
        <4>1. Tag + g.F.bufSize = F.size BY <1>5, <1>6, <1>11, <3>1, <3>3, <3>4
        <4>2. F'.bufSize = Off + chunk BY <3>2, <3>4
        <4>3. i <= F.pos
          <5>1. F.size < F.pos + chunk BY <1>5, <1>6, <1>11, <3>4, <4>1
          <5>2. i \in 1..F.pos \/ i \in F.pos+chunk+1..F.size OBVIOUS
          <5>3. CASE i \in 1..F.pos BY <1>1, <5>3
          <5>4. CASE i \in F.pos+chunk+1..F.size BY <1>1, <1>11, <5>1, <5>4
          <5> QED BY <5>2, <5>3, <5>4
        <4> QED BY <1>1, <1>5, <1>6, <1>11, <2>1, <4>1, <4>2, <4>3
      <3>5. CASE ~(Off + chunk > g.F.bufSize) BY <3>2, <3>5
      <3> QED BY <3>4, <3>5
    <2>5. Tag < i /\ i <= Tag + F'.bufSize => F'.buf[i - Tag] = g.F.buf[i - Tag]
      <3> SUFFICES ASSUME Tag < i, i <= Tag + F'.bufSize
                   PROVE  F'.buf[i - Tag] = g.F.buf[i - Tag]
        OBVIOUS
      <3>1. i - Tag \in 1..BufSize BY <1>5, <1>6, <1>7, <2>1
      <3>2. ~(Off < i - Tag /\ i - Tag <= Off + chunk) BY <1>1, <1>5, <1>11, <2>1
      <3> QED BY <1>7, <3>1, <3>2
    <2> QED BY <2>2, <2>3, <2>4, <2>5
  <1> QED BY <1>1, <1>7, <1>8, <1>10, <1>11, <1>12 DEF BF!Store

(* Truncate and Close write the block back; the file is what was shown.      *)
LEMMA CutStep == IInv /\ Truncate => BF!Cut
  <1> SUFFICES ASSUME IInv, Truncate PROVE BF!Cut OBVIOUS
  <1>1. open /\ open' = open /\ got' = got /\ Types /\ Coherent(disk, fpos, F)
    BY DEF IInv, Truncate
  <1>2. /\ disk' = SubSeq(Shown(disk, F), 1, F.pos)
        /\ disk' \in Seq(Bytes) /\ Len(disk') = F.pos
    BY TruncateCuts
  <1>3. F'.pos = F.pos /\ F'.size = F.pos /\ F'.dirty = FALSE
    BY <1>1, FlushedFile, RecordType DEF Truncate
  <1>4. disk' \in Seq(Bytes) /\ F' \in FileRecord /\ Coherent(disk', fpos', F')
    <2>1. IInv' BY TruncateInv
    <2>2. Coherent(disk, fpos, F)' /\ Types' BY <1>1, <2>1 DEF IInv
    <2> QED BY <2>2 DEF Types
  <1>5. Shown(disk', F') = disk'
    <2>1. \A i \in 1..F'.size : Shown(disk', F')[i] = disk'[i]
      <3> SUFFICES ASSUME NEW i \in 1..F'.size PROVE Shown(disk', F')[i] = disk'[i] OBVIOUS
      <3>1. CASE F'.bufTag # -1 /\ F'.bufTag < i /\ i <= F'.bufTag + F'.bufSize
        <4>1. Clean(disk', fpos', F') BY <1>3, <1>4, <3>1 DEF Coherent, Buffered
        <4>2. i - F'.bufTag \in 1..F'.bufSize /\ F'.bufTag + (i - F'.bufTag) = i
          BY <1>4, <3>1, Fields
        <4>3. F'.buf[i - F'.bufTag] = disk'[i] BY <4>1, <4>2 DEF Clean
        <4> QED BY <3>1, <4>3 DEF Shown
      <3>2. CASE ~(F'.bufTag # -1 /\ F'.bufTag < i /\ i <= F'.bufTag + F'.bufSize)
        <4>1. i <= Len(disk') BY <1>2, <1>3
        <4> QED BY <3>2, <4>1 DEF Shown
      <3> QED BY <3>1, <3>2
    <2>2. Shown(disk', F') \in [1..F'.size -> Bytes] BY <1>4, ShownOf
    <2>3. Len(disk') = F'.size /\ F'.size \in Nat BY <1>2, <1>3, <1>4 DEF Coherent
    <2> QED BY <1>4, <2>1, <2>2, <2>3, SameBytes
  <1>6. Content = Shown(disk, F) /\ Content' = Shown(disk', F')
    BY <1>1, ContentShown DEF Content, Shown
  <1> QED BY <1>1, <1>2, <1>3, <1>5, <1>6 DEF BF!Cut

LEMMA CloseStep == IInv /\ Close => BF!Close
  <1> SUFFICES ASSUME IInv, Close PROVE BF!Close OBVIOUS
  <1>1. open /\ Types /\ Coherent(disk, fpos, F) BY DEF IInv, Close
  <1>2. disk' = Shown(disk, F) BY <1>1, FlushedFile DEF Close
  <1>3. open' = FALSE /\ got' = <<>> BY DEF Close
  <1>4. Content' = disk' BY <1>3 DEF Content
  <1> QED BY <1>1, <1>2, <1>3, <1>4, ContentShown DEF BF!Close

LEMMA OpenStep == IInv /\ (Reset \/ ReWrite) => BF!Open
  <1> SUFFICES ASSUME IInv, Reset \/ ReWrite PROVE BF!Open OBVIOUS
  <1>1. ~open /\ open' = TRUE /\ got' = got /\ F' = Fresh(Len(disk')) BY DEF Reset, ReWrite
  <1>2. disk' \in {disk, <<>>} BY DEF Reset, ReWrite
  <1>3. disk' \in Seq(Bytes)
    <2>1. IInv' BY OpenInv
    <2> QED BY <2>1 DEF IInv, Types
  <1>4. F'.bufTag = -1 /\ F'.size = Len(disk') /\ F'.pos = 0 BY <1>1 DEF Fresh
  <1>5. Content' = [i \in 1..Len(disk') |-> disk'[i]]
    <2>1. Content' = Shown(disk', F') BY <1>1 DEF Content, Shown
    <2>2. \A i \in 1..Len(disk') : i <= Len(disk') BY <1>3
    <2> QED BY <1>4, <2>1, <2>2 DEF Shown
  <1>6. Content' = disk' BY <1>3, <1>5
  <1>7. Content = disk BY <1>1 DEF Content
  <1> QED BY <1>1, <1>2, <1>4, <1>6, <1>7 DEF BF!Open

LEMMA MoveStep ==
    ASSUME ~SeekAnywhere, NEW p \in 0..MaxSize
    PROVE  IInv /\ Seek(p) => BF!Move
  <1> SUFFICES ASSUME IInv, Seek(p) PROVE BF!Move OBVIOUS
  <1>1. /\ open /\ Types /\ Coherent(disk, fpos, F) /\ F.size \in Nat
        /\ UNCHANGED <<disk, open, got>>
    BY DEF IInv, Seek, Coherent
  <1>2. F' = [F EXCEPT !.pos = IF p > F.size THEN F.size ELSE p] BY DEF Seek
  <1>3. /\ F'.size = F.size /\ F'.bufTag = F.bufTag /\ F'.bufSize = F.bufSize
        /\ F'.buf = F.buf /\ F'.pos = (IF p > F.size THEN F.size ELSE p)
    BY <1>1, <1>2 DEF Types, FileRecord
  <1>4. F'.pos \in 0..F.size BY <1>1, <1>3
  <1>5. Content = Shown(disk, F) /\ Content' = Content
    <2>1. Content' = Shown(disk', F') BY <1>1 DEF Content, Shown
    <2>2. Shown(disk', F') = Shown(disk, F) BY <1>1, <1>3 DEF Shown
    <2> QED BY <1>1, <2>1, <2>2, ContentShown
  <1>6. Len(Content) = F.size BY <1>1, <1>5, ShownType
  <1> QED BY <1>1, <1>4, <1>5, <1>6 DEF BF!Move

LEMMA StepSimulation == ~SeekAnywhere /\ IInv /\ [Next]_vars => [BF!Next]_(BF!vars)
  <1> SUFFICES ASSUME ~SeekAnywhere, IInv, [Next]_vars PROVE [BF!Next]_(BF!vars) OBVIOUS
  <1>1. CASE UNCHANGED vars BY <1>1 DEF vars, BF!vars, Content
  <1>2. ASSUME NEW len \in 1..MaxLen, BlockRead(len) PROVE BF!Next
    BY <1>2 DEF BlockRead, BF!Next, BF!Begin, Content
  <1>3. ASSUME NEW s \in Data(MaxLen), BlockWrite(s) PROVE BF!Next
    BY <1>3 DEF BlockWrite, BF!Next, BF!Begin, Content
  <1>4. ASSUME NEW p \in 0..MaxSize, Seek(p) PROVE BF!Next BY <1>4, MoveStep DEF BF!Next
  <1>5. CASE ReadChunk BY <1>5, ReadStep DEF BF!Next
  <1>6. CASE WriteChunk BY <1>6, WriteStep DEF BF!Next
  <1>7. CASE Truncate BY <1>7, CutStep DEF BF!Next
  <1>8. CASE Reset \/ ReWrite BY <1>8, OpenStep DEF BF!Next
  <1>9. CASE OpenFails BY <1>9 DEF OpenFails, BF!vars, Content
  <1>10. CASE Close BY <1>10, CloseStep DEF BF!Next
  <1> QED BY <1>1, <1>2, <1>3, <1>4, <1>5, <1>6, <1>7, <1>8, <1>9, <1>10 DEF Next

(* A program that seeks in the buffered block cannot see the buffer: the     *)
(* file it works on is one array of bytes with a position.                   *)
THEOREM Implementation == ASSUME ~SeekAnywhere PROVE Spec => ImplementsByteFile
  <1>1. Init => BF!Init
    <2> SUFFICES ASSUME Init PROVE BF!Init OBVIOUS
    <2>1. ~open /\ open = FALSE /\ got = <<>> BY DEF Init
    <2>2. disk \in Seq(Bytes) BY InitInv DEF IInv, Types
    <2>3. Content = disk BY <2>1 DEF Content
    <2> QED BY <2>1, <2>2, <2>3 DEF BF!Init
  <1>2. ~SeekAnywhere /\ IInv /\ [Next]_vars => [BF!Next]_(BF!vars) BY StepSimulation
  <1> QED BY <1>1, <1>2, Invariance, PTL DEF Spec, ImplementsByteFile, BF!Spec
=============================================================================
