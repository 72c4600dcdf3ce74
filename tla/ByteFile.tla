------------------------------ MODULE ByteFile ------------------------------
(* What a program expects of a Files.File: an array of bytes with a position *)
(* that every operation goes through, whatever is buffered (src-lib/         *)
(* Files.mod).  A block transfer may take several steps.                     *)
EXTENDS Naturals, Sequences

CONSTANTS Bytes,        \* the byte values told apart
          MaxLen        \* most bytes one block transfer asks for

VARIABLES content,      \* the bytes of the file
          pos,          \* the position, 0 at the first byte
          open,         \* the file is open
          got           \* bytes the current BlockRead delivered so far

vars == <<content, pos, open, got>>

Init == /\ content \in Seq(Bytes)
        /\ pos = 0
        /\ open = FALSE
        /\ got = <<>>

Open == /\ ~open /\ open' = TRUE
        /\ pos' = 0
        /\ content' \in {content, <<>>}
        /\ UNCHANGED got

Close == open /\ open' = FALSE /\ pos' = 0 /\ got' = <<>> /\ UNCHANGED content

\* A transfer begins.
Begin == open /\ got' = <<>> /\ UNCHANGED <<content, pos, open>>

Deliver == /\ open
           /\ \E n \in 1..MaxLen :
                 /\ pos + n <= Len(content)
                 /\ got' = got \o SubSeq(content, pos + 1, pos + n)
                 /\ pos' = pos + n
           /\ UNCHANGED <<content, open>>

\* n new bytes over what is there and beyond the end.
Store == /\ open
         /\ \E n \in 1..MaxLen :
               /\ pos' = pos + n
               /\ content' \in Seq(Bytes)
               /\ Len(content') = IF pos + n > Len(content) THEN pos + n ELSE Len(content)
               /\ \A i \in 1..pos \cup pos+n+1..Len(content) : content'[i] = content[i]
         /\ UNCHANGED <<open, got>>

Move == /\ open
        /\ pos' \in 0..Len(content)
        /\ UNCHANGED <<content, open, got>>

Cut == /\ open
       /\ content' = SubSeq(content, 1, pos)
       /\ UNCHANGED <<pos, open, got>>

Next == Open \/ Close \/ Begin \/ Deliver \/ Store \/ Move \/ Cut

Spec == Init /\ [][Next]_vars
=============================================================================
