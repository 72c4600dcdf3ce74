------------------------------- MODULE Files --------------------------------
(* src-lib/Files.mod: one open file with its one-block buffer, over a DOS    *)
(* handle that has a file pointer of its own.  A block transfer is a loop of *)
(* chunks, each inside one buffer.                                           *)
EXTENDS Integers, Sequences

CONSTANTS BufSize,      \* BUFSIZE (8192)
          Bytes,        \* the byte values told apart
          Junk,         \* memory nobody has written
          MaxSize,      \* longest file a program makes
          MaxLen,       \* most bytes one block transfer asks for
          SeekAnywhere  \* the program also seeks outside the buffered block

ASSUME FilesAssumption ==
    /\ BufSize \in Nat \ {0}
    /\ MaxSize \in Nat /\ MaxLen \in Nat
    /\ Junk \notin Bytes
    /\ SeekAnywhere \in BOOLEAN

VARIABLES disk,         \* the bytes of the file DOS keeps
          fpos,         \* the file pointer of the DOS handle
          open,         \* F.handle # -1
          F,            \* the File record: buf bufTag bufSize dirty pos size
          want,         \* bytes BlockRead has still to deliver, 0: no call
          src,          \* bytes BlockWrite has still to store, <<>>: no call
          got           \* bytes the current BlockRead delivered so far

vars == <<disk, fpos, open, F, want, src, got>>

Data(n) == UNION {[1..k -> Bytes] : k \in 0..n}
Idle == want = 0 /\ src = <<>>
Least(a, b) == IF a < b THEN a ELSE b

Fresh(size) == [buf |-> [i \in 1..BufSize |-> Junk], bufTag |-> -1, bufSize |-> 0,
                dirty |-> FALSE, pos |-> 0, size |-> size]

Init == /\ disk \in Data(MaxSize)
        /\ fpos = 0
        /\ open = FALSE
        /\ F = Fresh(0)
        /\ want = 0 /\ src = <<>> /\ got = <<>>

\* DOS write of s at offset at; the file grows over a gap of stale clusters.
Written(d, at, s) ==
    [i \in 1..(IF at + Len(s) > Len(d) THEN at + Len(s) ELSE Len(d)) |->
        IF at < i /\ i <= at + Len(s) THEN s[i - at]
        ELSE IF i <= Len(d) THEN d[i] ELSE Junk]
\* DOS write of no bytes: the file ends at the file pointer.
CutAt(d, at) == IF at <= Len(d) THEN SubSeq(d, 1, at) ELSE Written(d, at - 1, <<Junk>>)

-----------------------------------------------------------------------------
\* The first bufSize bytes behind buf; past the array is other memory.
BufBytes == [i \in 1..F.bufSize |-> IF i <= BufSize THEN F.buf[i] ELSE Junk]

Flushes == F.dirty /\ F.bufTag # -1

\* Bug: the file pointer is put back to the start of the block.
FlushedAndBack == IF Flushes
                  THEN [disk |-> Written(disk, F.bufTag, BufBytes),
                        fpos |-> F.bufTag,
                        F    |-> [F EXCEPT !.dirty = FALSE]]
                  ELSE [disk |-> disk, fpos |-> fpos, F |-> F]

\* BufFlush: the state after it.
Flushed == IF Flushes
           THEN [disk |-> Written(disk, F.bufTag, BufBytes),
                 fpos |-> F.bufTag + F.bufSize,
                 F    |-> [F EXCEPT !.dirty = FALSE]]
           ELSE [disk |-> disk, fpos |-> fpos, F |-> F]

\* BufFetch: the state after it.  DOS reads at its own file pointer.
Fetched(tag) ==
    IF tag = F.bufTag THEN [disk |-> disk, fpos |-> fpos, F |-> F]
    ELSE LET d == Flushed.disk
             at == Flushed.fpos
             n == IF at >= Len(d) THEN 0 ELSE Least(BufSize, Len(d) - at)
         IN  [disk |-> d,
              fpos |-> at + n,
              F    |-> [F EXCEPT !.buf = [i \in 1..BufSize |-> IF i <= n THEN d[at + i] ELSE @[i]],
                                 !.bufTag = tag, !.bufSize = n, !.dirty = FALSE]]

Tag == F.pos - (F.pos % BufSize)
Off == F.pos % BufSize

Clipped(len) == IF F.pos + len <= F.size THEN len
                ELSE IF F.size > F.pos THEN F.size - F.pos ELSE 0

BlockRead(len) == /\ open /\ Idle
                  /\ want' = Clipped(len)
                  /\ got' = <<>>
                  /\ UNCHANGED <<disk, fpos, open, F, src>>

Available(f) == f.bufSize - Off

\* One turn of BlockRead's loop; a short buffer ends the call.
ReadChunk ==
    /\ want > 0
    /\ LET g == Fetched(Tag)
           chunk == Least(Available(g.F), want)
       IN  /\ disk' = g.disk
           /\ fpos' = g.fpos
           /\ IF Off >= g.F.bufSize
              THEN F' = g.F /\ want' = 0 /\ UNCHANGED got
              ELSE /\ F' = [g.F EXCEPT !.pos = @ + chunk]
                   /\ want' = want - chunk
                   /\ got' = got \o SubSeq(g.F.buf, Off + 1, Off + chunk)
    /\ UNCHANGED <<open, src>>

BlockWrite(s) == /\ open /\ Idle
                 /\ F.pos + Len(s) <= MaxSize
                 /\ src' = s
                 /\ got' = <<>>
                 /\ UNCHANGED <<disk, fpos, open, F, want>>

\* Bug: the file does not grow.
NotGrown(after) == F.size

Grown(after) == IF after > F.size THEN after ELSE F.size

\* One turn of BlockWrite's loop.
WriteChunk ==
    /\ src # <<>>
    /\ LET g == Fetched(Tag)
           chunk == Least(BufSize - Off, Len(src))
           after == F.pos + chunk
       IN  /\ disk' = g.disk
           /\ fpos' = g.fpos
           /\ F' = [g.F EXCEPT !.buf = [i \in 1..BufSize |-> IF Off < i /\ i <= Off + chunk
                                                            THEN src[i - Off] ELSE @[i]],
                               !.dirty = TRUE,
                               !.bufSize = IF Off + chunk > @ THEN Off + chunk ELSE @,
                               !.pos = after,
                               !.size = Grown(after)]
           /\ src' = SubSeq(src, chunk + 1, Len(src))
    /\ UNCHANGED <<open, want, got>>

\* The programs of the streaming runs seek in the block they are working on.
InBlock(p) == F.bufTag # -1 /\ p \in F.bufTag..F.bufTag+BufSize

\* Bug: the position may lie beyond the end.
SeekBeyond(p) == /\ SeekAnywhere \/ InBlock(p)
                 /\ open /\ Idle
                 /\ F' = [F EXCEPT !.pos = p]
                 /\ UNCHANGED <<disk, fpos, open, want, src, got>>

\* A position beyond the end becomes the end.
Seek(p) == /\ SeekAnywhere \/ InBlock(p)
           /\ open /\ Idle
           /\ F' = [F EXCEPT !.pos = IF p > F.size THEN F.size ELSE p]
           /\ UNCHANGED <<disk, fpos, open, want, src, got>>

Truncate == /\ open /\ Idle
            /\ LET g == Flushed.F
               IN  F' = [g EXCEPT !.bufSize = IF g.bufTag = -1 THEN @
                                              ELSE IF g.pos > g.bufTag THEN g.pos - g.bufTag
                                              ELSE 0,
                                  !.size = g.pos]
            /\ disk' = CutAt(Flushed.disk, F.pos)
            /\ fpos' = F.pos
            /\ UNCHANGED <<open, want, src, got>>

Reset == /\ ~open
         /\ open' = TRUE
         /\ F' = Fresh(Len(disk))
         /\ fpos' = 0
         /\ UNCHANGED <<disk, want, src, got>>

\* DOS creates the file anew; the call to Truncate then changes nothing.
ReWrite == /\ ~open
           /\ open' = TRUE
           /\ F' = Fresh(0)
           /\ disk' = <<>>
           /\ fpos' = 0
           /\ UNCHANGED <<want, src, got>>

\* DOS refuses to open.
OpenFails == /\ ~open
             /\ F' = [F EXCEPT !.pos = 0, !.size = -1]
             /\ UNCHANGED <<disk, fpos, open, want, src, got>>

Close == /\ open /\ Idle
         /\ open' = FALSE
         /\ disk' = Flushed.disk
         /\ fpos' = Flushed.fpos
         /\ F' = [Flushed.F EXCEPT !.buf = [i \in 1..BufSize |-> Junk]]
         /\ got' = <<>>
         /\ UNCHANGED <<want, src>>

Next == \/ \E len \in 1..MaxLen : BlockRead(len)
        \/ \E s \in Data(MaxLen) : BlockWrite(s)
        \/ \E p \in 0..MaxSize : Seek(p)
        \/ ReadChunk \/ WriteChunk \/ Truncate \/ Reset \/ ReWrite \/ OpenFails \/ Close

Spec == Init /\ [][Next]_vars

\* A call that was made runs to its end; the program may stop between calls.
FairSpec == Spec /\ WF_vars(ReadChunk) /\ WF_vars(WriteChunk)
-----------------------------------------------------------------------------
(* Positions and sizes stay natural numbers within the file.                 *)
TypeOK == /\ disk \in Seq(Bytes \cup {Junk})
          /\ fpos \in 0..MaxSize
          /\ F.bufTag \in {-1} \cup {BufSize * k : k \in 0..MaxSize}
          /\ F.pos \in 0..MaxSize
          /\ open => F.pos <= F.size
          /\ want \in 0..MaxLen
          /\ src \in Data(MaxLen)

\* The bytes of the file as the program sees them.
Content == IF ~open THEN disk
           ELSE [i \in 1..F.size |-> IF F.bufTag # -1 /\ F.bufTag < i /\ i <= F.bufTag + F.bufSize
                                     THEN F.buf[i - F.bufTag]
                                     ELSE IF i <= Len(disk) THEN disk[i] ELSE Junk]

BF == INSTANCE ByteFile WITH content <- Content,
                             pos <- IF open THEN F.pos ELSE 0

(* A program that moves on block by block cannot see the buffer: every       *)
(* transfer, Seek, Truncate and Close acts on one array of bytes.            *)
ImplementsByteFile == BF!Spec

(* Before a clean buffer is replaced the DOS file pointer stands at its end, *)
(* so the read in BufFetch, which does not seek, finds the next block.       *)
PointerFollowsBuffer ==
    open /\ F.bufTag # -1 /\ ~F.dirty /\ F.pos >= F.bufTag + BufSize
        => fpos = F.bufTag + BufSize

(* README.MD, module table, "DOS file I/O (open, read, write, close, seek)": *)
(* what is read after a Seek is what the file holds at that position.        *)
SeekThenRead == [][got' # got /\ got' # <<>>
                      => got' = got \o SubSeq(Content, F.pos + 1, F'.pos)]_vars

=============================================================================
