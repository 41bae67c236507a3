------------------------------ MODULE Storage -------------------------------
(* The sequential parts of storage, io and primitives next to each other:    *)
(* Buffer, ZipArchive, TempFile, Mirror, SortedArray, ResizableRingBuffer,   *)
(* RunLength and BitView.  As in Wrappers one of them moves in each          *)
(* behaviour, and the others stay as made.                                   *)
EXTENDS Integers, Sequences, FiniteSets

CONSTANTS Null,
          Cell, Addr, MaxSize,                              \* Buffer
          Object, Entry, Handle, MaxTmp,                    \* ZipArchive
          Builder, Name, Attempts,                          \* TempFile: one thread
          Path, Root, Parent, Data, Size, Old, Partial, MaxTime,    \* Mirror
          Capacity, Key, OtherArray, MaxArrivals,           \* SortedArray
          Capacities, Item, Default, OtherRing,             \* ResizableRingBuffer
          Ns, Largest, MaxLength,                           \* RunLength
          Width, Bytes                                      \* BitView

VARIABLES part,
          heap, ptr, size, managed, view, alive,                    \* Buffer
          path, zip, opened, disk,                                  \* ZipArchive
          file, dir, trying, attempt, theirs, orphans, shared,      \* TempFile
          src, dst, phase, left, todo, now, exact, kept, odd,       \* Mirror
          sorted, keys, count,                                      \* SortedArray
          capacity, elements, r, w, got,                            \* ResizableRingBuffer
          n, input, prev, repetitions, result, done,                \* RunLength
          sp, first, last                                           \* BitView

Buf  == INSTANCE Buffer WITH T <- Cell
Zip  == INSTANCE ZipArchive
Temp == INSTANCE TempFile WITH Builder <- {Builder}, None <- Null
Mirr == INSTANCE Mirror
Sort == INSTANCE SortedArray WITH Other <- OtherArray, elements <- sorted, w <- count
Ring == INSTANCE ResizableRingBuffer WITH T <- Item, Other <- OtherRing
Run  == INSTANCE RunLength
Bits == INSTANCE BitView

ASSUME BufferAssumption      == Buf!BufferConstants
ASSUME ZipAssumption         == Zip!ZipConstants
ASSUME TempFileAssumption    == Temp!TempFileConstants
ASSUME MirrorAssumption      == Mirr!MirrorConstants
ASSUME SortedArrayAssumption == Sort!SortedArrayConstants
ASSUME RingAssumption        == Ring!ResizableConstants
ASSUME RunLengthAssumption   == Run!RunLengthConstants
ASSUME BitViewAssumption     == Bits!BitViewConstants

Parts == {"Buffer", "ZipArchive", "TempFile", "Mirror", "SortedArray",
          "ResizableRingBuffer", "RunLength", "BitView"}

bufVars  == <<heap, ptr, size, managed, view, alive>>
zipVars  == <<path, zip, opened, disk>>
tempVars == <<file, dir, trying, attempt, theirs, orphans, shared>>
mirrVars == <<src, dst, phase, left, todo, now, exact, kept, odd>>
sortVars == <<sorted, keys, count>>
ringVars == <<capacity, elements, r, w, got>>
runVars  == <<n, input, prev, repetitions, result, done>>
bitsVars == <<sp, first, last>>

vars == <<part, bufVars, zipVars, tempVars, mirrVars, sortVars, ringVars, runVars, bitsVars>>

\* Of the initial states of a part that stays as made one is enough.
Init == /\ part \in Parts
        /\ Buf!Init /\ Zip!Init
        /\ Temp!Init /\ (part # "TempFile" => dir = [f \in Name |-> "nothing"])
        /\ Mirr!Init /\ (part # "Mirror" => dst = src)
        /\ Sort!Init /\ (part # "SortedArray" => keys[0] = CHOOSE k \in Key : TRUE)
        /\ Ring!Init /\ (part # "ResizableRingBuffer" => capacity = CHOOSE c \in Capacities : TRUE)
        /\ Run!Init /\ (part # "RunLength" => n = CHOOSE m \in Ns : TRUE)
        /\ Bits!Init /\ (part # "BitView" => last = 1)

Next ==
  /\ UNCHANGED part
  /\ \/ /\ part = "Buffer" /\ Buf!Next
        /\ UNCHANGED <<zipVars, tempVars, mirrVars, sortVars, ringVars, runVars, bitsVars>>
     \/ /\ part = "ZipArchive" /\ Zip!Next
        /\ UNCHANGED <<bufVars, tempVars, mirrVars, sortVars, ringVars, runVars, bitsVars>>
     \/ /\ part = "TempFile" /\ Temp!Next
        /\ UNCHANGED <<bufVars, zipVars, mirrVars, sortVars, ringVars, runVars, bitsVars>>
     \/ /\ part = "Mirror" /\ Mirr!Next
        /\ UNCHANGED <<bufVars, zipVars, tempVars, sortVars, ringVars, runVars, bitsVars>>
     \/ /\ part = "SortedArray" /\ Sort!Next
        /\ UNCHANGED <<bufVars, zipVars, tempVars, mirrVars, ringVars, runVars, bitsVars>>
     \/ /\ part = "ResizableRingBuffer" /\ Ring!Next
        /\ UNCHANGED <<bufVars, zipVars, tempVars, mirrVars, sortVars, runVars, bitsVars>>
     \/ /\ part = "RunLength" /\ Run!Next
        /\ UNCHANGED <<bufVars, zipVars, tempVars, mirrVars, sortVars, ringVars, bitsVars>>
     \/ /\ part = "BitView" /\ Bits!Next
        /\ UNCHANGED <<bufVars, zipVars, tempVars, mirrVars, sortVars, ringVars, runVars>>

Spec == Init /\ [][Next]_vars

---------------------------------------------------------------------------
(* Properties, each stated in the module of its part                         *)

\* Every member stays in its range, every index in its array.
TypeOK == /\ part \in Parts
          /\ Buf!TypeOK /\ Zip!TypeOK /\ Temp!TypeOK /\ Mirr!TypeOK
          /\ Sort!TypeOK /\ Ring!TypeOK /\ Run!TypeOK /\ Bits!TypeOK

\* Buffer: pointer and size describe one block, the client's pointer never dangles.
PointersFit == Buf!PointersFit

\* ZipArchive: each open handle belongs to one object.
HandlesAccounted == Zip!HandlesAccounted

\* ZipArchive: a replace() that fails leaves the old archive alone.
OldArchiveKept == Zip!OldArchiveKept

\* ZipArchive: a replace() that returns has replaced the archive.
ReplacedOnDisk == Zip!ReplacedOnDisk

\* TempFile: each file has one object that removes it.
OneOwner == Temp!OneOwner

\* Files: after mirrorDirectory() the directories are the same ...
MirrorExact == Mirr!MirrorExact

\* ... but for files whose times do not show that they were edited.
MirrorExactButOdd == Mirr!MirrorExactButOdd

\* SortedArray: sorted, equal keys in the order of their arrival.
StableOrder == Sort!StableOrder

\* ResizableRingBuffer: a bounded queue of its present capacity.
ResizableIsQueue == Ring!ResizableIsQueue

\* Compressible: what rle() has encoded unrle() decodes.
RoundTrip == Run!RoundTrip

\* BitView: bytes that are accessed fast and bit by bit are the same, but at one
\* end of a window that does not start with a byte ...
PathsAgree == Bits!PathsAgree

\* ... where bits outside of the window are touched.
StaysInWindow == Bits!StaysInWindow
============================================================================
