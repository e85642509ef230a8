----------------------------- MODULE FileBytes ------------------------------
(* What reads and writes do to a file, as a sequence of bytes.             *)
EXTENDS Integers, Sequences

\* The bytes of a file after buf was written at pos; a gap is zero-filled.
Written(data, pos, buf) ==
    [i \in 1..(IF pos + Len(buf) > Len(data) THEN pos + Len(buf) ELSE Len(data)) |->
        IF i > pos /\ i <= pos + Len(buf) THEN buf[i - pos]
        ELSE IF i <= Len(data) THEN data[i] ELSE 0]

\* At most count bytes from pos on.
BytesAt(data, pos, count) == SubSeq(data, pos + 1, IF pos + count > Len(data) THEN Len(data)
                                                   ELSE pos + count)
=============================================================================
