------------------------- MODULE PersistentImage -------------------------
(* What a BackedBuffer promises its user: an image of a file that behaves    *)
(* as if the whole file had been read when the buffer was set up, of which   *)
(* nothing reaches the file but what Save writes.  There is no lazy loading  *)
(* here, and no stream: only the contents the user sees, the pages that      *)
(* count as modified, and the file.                                          *)
EXTENDS Naturals

CONSTANTS PageSize,     \* BackedBuffer::pageSize
          MaxSize,      \* bound on the sizes of buffers and files
          Value,        \* the bytes
          Zero,         \* the byte a file that is too short reads as
          Junk          \* what lies beyond the end of the image

VARIABLES image,        \* the contents of the buffer
          size,         \* its size
          modified,     \* the pages that count as modified
          attached,     \* is there a file to save to?
          readOnly,     \* the public flag
          file,         \* the bytes of the file
          fileLen       \* its length

vars == <<image, size, modified, attached, readOnly, file, fileLen>>

Cells == 0 .. MaxSize - 1
PageOf(i) == i \div PageSize

\* Byte i of the file as the buffer reads it: zero where there is no file.
FileByte(i) == IF attached /\ i < fileLen THEN file[i] ELSE Zero

Init == /\ image = [i \in Cells |-> Junk]
        /\ size = 0
        /\ modified = {}
        /\ attached = FALSE
        /\ readOnly = FALSE
        /\ file \in [Cells -> Value]
        /\ fileLen \in 0 .. MaxSize
        /\ \A i \in Cells : i >= fileLen => file[i] = Zero

\* The buffer is set up afresh, in memory ...
Create(n) == /\ image' = [i \in Cells |-> IF i < n THEN Zero ELSE Junk]
             /\ size' = n
             /\ modified' = {}
             /\ attached' = FALSE
             /\ readOnly' = FALSE
             /\ UNCHANGED <<file, fileLen>>

\* ... or with the contents of the file.
Open(n, ro) == /\ image' = [i \in Cells |-> IF i >= n THEN Junk
                                            ELSE IF i < fileLen THEN file[i]
                                                 ELSE Zero]
               /\ size' = n
               /\ modified' = {}
               /\ attached' = TRUE
               /\ readOnly' = ro
               /\ UNCHANGED <<file, fileLen>>

\* Pages are declared modified, and bytes of modified pages are written.
Touch(P) == /\ modified' = modified \cup P
            /\ UNCHANGED <<image, size, attached, readOnly, file, fileLen>>

Write(i, v) == /\ i < size
               /\ PageOf(i) \in modified
               /\ image' = [image EXCEPT ![i] = v]
               /\ UNCHANGED <<size, modified, attached, readOnly, file, fileLen>>

\* What is cut off is forgotten; what is added comes from the file.
Resize(n) == /\ size' = n
             /\ image' = [i \in Cells |-> IF i >= n THEN Junk
                                          ELSE IF i < size THEN image[i]
                                               ELSE FileByte(i)]
             /\ modified' = {p \in modified : p * PageSize < n}
             /\ UNCHANGED <<attached, readOnly, file, fileLen>>

Detach == /\ attached' = FALSE
          /\ UNCHANGED <<image, size, modified, readOnly, file, fileLen>>

SetReadOnly(ro) == /\ readOnly' = ro
                   /\ UNCHANGED <<image, size, modified, attached, file, fileLen>>

\* The modified bytes the file is about to receive.
ModifiedCells == {i \in Cells : i < size /\ PageOf(i) \in modified}

MaySave == attached /\ ~readOnly /\ modified # {}

\* The file receives the bytes W, and is at least as long as the buffer if it
\* grows at all.
Receive(W, len) == /\ file' = [i \in Cells |-> IF i \in W THEN image[i] ELSE file[i]]
                   /\ fileLen' = len

GrownLen == IF fileLen < size THEN size ELSE fileLen

Save == /\ MaySave
        /\ Receive(ModifiedCells, GrownLen)
        /\ modified' = {}
        /\ UNCHANGED <<image, size, attached, readOnly>>

\* A save that fails may leave any part of its work behind, but forgets
\* nothing: all that was modified still is.
SaveFails == /\ MaySave
             /\ \/ Receive({}, fileLen)
                \/ \E W \in SUBSET ModifiedCells : Receive(W, GrownLen)
             /\ UNCHANGED <<image, size, modified, attached, readOnly>>

\* As long as the buffer does not use the file, others may.
Foreign == /\ ~attached
           /\ file' \in [Cells -> Value]
           /\ fileLen' \in 0 .. MaxSize
           /\ UNCHANGED <<image, size, modified, attached, readOnly>>

Next == \/ \E n \in 0 .. MaxSize : Create(n) \/ Resize(n)
        \/ \E n \in 0 .. MaxSize, ro \in BOOLEAN : Open(n, ro)
        \/ \E P \in SUBSET {PageOf(i) : i \in {c \in Cells : c < size}} : Touch(P)
        \/ \E i \in Cells, v \in Value : Write(i, v)
        \/ \E ro \in BOOLEAN : SetReadOnly(ro)
        \/ Detach
        \/ Save
        \/ SaveFails
        \/ Foreign

Spec == Init /\ [][Next]_vars
==========================================================================
