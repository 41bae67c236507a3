------------------------------- MODULE Mirror -------------------------------
(* Mirroring a directory (syncDirectory, pruneDirectory and mirrorDirectory  *)
(* in src/io/Files.cpp).  One entry of the source is copied, or one entry of *)
(* the destination removed, per step.  Any failure while copying ends the    *)
(* call, failed removals go unnoticed.                                       *)
EXTENDS Integers, FiniteSets

CONSTANTS Path,         \* relative paths
          Root,
          Parent,       \* the directory each path is in
          Data,         \* contents of files
          Size,         \* and their sizes
          Old, Partial, \* what the destination had before; a copy that was cut off
          MaxTime       \* bound on the number of edits

MirrorConstants ==
    /\ Root \notin Path
    /\ Parent \in [Path -> Path \cup {Root}]
    /\ Size \in [Data \cup {Old, Partial} -> Nat]
    /\ \A d \in Data : Size[Partial] < Size[d]
    /\ MaxTime \in Nat

VARIABLES src, dst,     \* what each path is in the source and in the destination
          phase,        \* what mirrorDirectory() is doing
          left,         \* what it has not begun yet
          todo,         \* the entries it still has to copy or to remove
          now,          \* the time of the last edit
          exact,        \* has it returned, and nothing happened since? (history)
          kept,         \* entries whose removal has failed (history)
          odd           \* entries edited in a way their times do not show (history)

vars == <<src, dst, phase, left, todo, now, exact, kept, odd>>

Nothing       == [is |-> "nothing", data |-> Old, time |-> 0]
Directory     == [is |-> "directory", data |-> Old, time |-> 0]
Special       == [is |-> "special", data |-> Old, time |-> 0]
File(d, time) == [is |-> "file", data |-> d, time |-> time]

Other         == {Nothing, Directory, Special}
SrcEntry      == Other \cup {File(d, t) : d \in Data, t \in 0 .. MaxTime}
DstEntry      == SrcEntry \cup {File(d, t) : d \in {Old, Partial}, t \in 0 .. MaxTime}

Halves == {"sync", "prune"}

TypeOK == /\ src \in [Path -> SrcEntry]
          /\ dst \in [Path -> DstEntry]
          /\ phase \in {"idle", "call"} \cup Halves
          /\ left \subseteq Halves
          /\ todo \subseteq Path
          /\ now \in 0 .. MaxTime
          /\ exact \in BOOLEAN
          /\ kept \subseteq Path
          /\ odd \subseteq Path

Is(tree, p, kind)  == tree[p].is = kind
exists(tree, p)    == ~Is(tree, p, "nothing")
Children(tree, p)  == {q \in Path : Parent[q] = p /\ exists(tree, q)}
InDirectory(tree, p) == Parent[p] \in {Root} \cup {q \in Path : Is(tree, q, "directory")}

\* The source is empty; the destination is any tree from before.
Init == /\ src = [p \in Path |-> Nothing]
        /\ dst \in {tree \in [Path -> Other \cup {File(Old, 0)}] :
                       \A p \in Path : exists(tree, p) => InDirectory(tree, p)}
        /\ phase = "idle"
        /\ left = {}
        /\ todo = {}
        /\ now = 0
        /\ exact = FALSE
        /\ kept = {}
        /\ odd = {}

---------------------------------------------------------------------------
\* An entry of a tree may be made, overwritten, or removed.
MayEdit(tree, p, entry) == /\ entry # tree[p]
                           /\ entry # Nothing => InDirectory(tree, p)
                           /\ Children(tree, p) = {}

\* Between two calls the source is edited.  The new file may be older than the
\* one in the destination: it was moved here, or has got a time of its own.
edit(p, entry) == /\ phase = "idle"
                  /\ now < MaxTime
                  /\ MayEdit(src, p, entry)
                  /\ src' = [src EXCEPT ![p] = entry]
                  /\ now' = now + 1
                  /\ exact' = FALSE
                  /\ odd' = IF entry.time > dst[p].time THEN odd \ {p} ELSE odd \cup {p}
                  /\ UNCHANGED <<dst, phase, left, todo, kept>>

\* So is the destination, although it is a mirror.
disturb(p, entry) == /\ phase = "idle"
                     /\ now < MaxTime
                     /\ MayEdit(dst, p, entry)
                     /\ dst' = [dst EXCEPT ![p] = entry]
                     /\ now' = now + 1
                     /\ exact' = FALSE
                     /\ odd' = odd \cup {p}
                     /\ UNCHANGED <<src, phase, left, todo, kept>>

---------------------------------------------------------------------------
\* The call does two things, and its source does not say in which order: they
\* are the operands of a sum.
mirrorDirectory == /\ phase = "idle"
                   /\ phase' = "call"
                   /\ left' = Halves
                   /\ kept' = {}
                   /\ exact' = FALSE
                   /\ UNCHANGED <<src, dst, todo, now, odd>>

Begin(half) == /\ phase # "idle" /\ todo = {} /\ half \in left
               /\ phase' = half
               /\ left' = left \ {half}
               /\ UNCHANGED <<src, dst, now, exact, kept, odd>>

syncDirectory == /\ Begin("sync")
                 /\ todo' = {p \in Path : exists(src, p)}

\* The list of what to remove is made before anything is removed.
pruneDirectory == /\ Begin("prune")
                  /\ todo' = {p \in Path : exists(dst, p) /\ ~exists(src, p)}

\* An exception ends the call.
Throw == phase' = "idle" /\ left' = {} /\ todo' = {}

\* Directories may be missing or unreadable, and may not be created, whichever
\* entry it is the turn of.
fail == /\ \/ phase = "sync" /\ todo # {}
           \/ phase # "idle" /\ todo = {} /\ left # {}
        /\ Throw
        /\ UNCHANGED <<src, dst, now, exact, kept, odd>>

\* Mutant of needsUpdate: the size is not compared.
needsUpdateByTime(p) == \/ ~exists(dst, p)
                        \/ src[p].time > dst[p].time

needsUpdate(p) == \/ ~exists(dst, p)
                  \/ Size[src[p].data] # Size[dst[p].data]
                  \/ src[p].time > dst[p].time

Handled(p) == todo' = todo \ {p} /\ UNCHANGED <<phase, left>>

\* copy_file() may fail before it starts or on its way.
copy(p) == \/ /\ dst' = [dst EXCEPT ![p] = File(src[p].data, now)]
              /\ odd' = odd \ {p}
              /\ Handled(p)
           \/ /\ dst' \in {dst, [dst EXCEPT ![p] = File(Partial, now)]}
              /\ Throw
              /\ UNCHANGED odd

\* A directory is visited before what it contains.  A directory cannot take
\* the place of something else, and a file only that of a file; other kinds of
\* entries are passed over.
syncEntry(p) ==
    /\ phase = "sync" /\ p \in todo /\ Parent[p] \notin todo
    /\ UNCHANGED <<src, now, exact, kept>>
    /\ \/ /\ Is(src, p, "directory") /\ dst[p].is \in {"nothing", "directory"}
          /\ dst' = [dst EXCEPT ![p] = Directory] /\ Handled(p) /\ UNCHANGED odd
       \/ /\ Is(src, p, "file") /\ dst[p].is \in {"nothing", "file"}
          /\ IF needsUpdate(p) THEN copy(p) ELSE Handled(p) /\ UNCHANGED <<dst, odd>>
       \/ /\ \/ Is(src, p, "directory") /\ dst[p].is \notin {"nothing", "directory"}
             \/ Is(src, p, "file") /\ dst[p].is \notin {"nothing", "file"}
          /\ Throw /\ UNCHANGED <<dst, odd>>
       \/ /\ Is(src, p, "special")
          /\ Handled(p) /\ UNCHANGED <<dst, odd>>

\* Longer paths first, so that a directory comes after what it contains.
MayRemove(p) == p \in todo /\ \A q \in todo : Parent[q] # p

removeEntry(p) ==
    /\ phase = "prune" /\ MayRemove(p)
    /\ todo' = todo \ {p}
    /\ \/ /\ Children(dst, p) = {}
          /\ dst' = [dst EXCEPT ![p] = Nothing]
          /\ UNCHANGED kept
       \/ /\ Children(dst, p) # {} /\ UNCHANGED <<dst, kept>>
       \/ kept' = kept \cup {p} /\ UNCHANGED dst
    /\ UNCHANGED <<src, phase, left, now, exact, odd>>

return == /\ phase # "idle" /\ todo = {} /\ left = {}
          /\ phase' = "idle"
          /\ exact' = TRUE
          /\ UNCHANGED <<src, dst, left, todo, now, kept, odd>>

Edits(p) == \/ \E e \in Other : edit(p, e) \/ disturb(p, e)
            \/ \E t \in 0 .. now + 1 : \/ \E d \in Data : edit(p, File(d, t))
                                       \/ disturb(p, File(Old, t))

Next == \/ \E p \in Path : Edits(p) \/ syncEntry(p) \/ removeEntry(p)
        \/ mirrorDirectory \/ syncDirectory \/ pruneDirectory \/ fail \/ return

Spec == Init /\ [][Next]_vars

---------------------------------------------------------------------------
(* Properties                                                                *)

\* Directories are directories, files are files, and nothing else is there but
\* what could not be removed and the directories it is in.
SameTree ==
    \A p \in Path :
        /\ Is(src, p, "directory") => Is(dst, p, "directory")
        /\ Is(src, p, "file") => Is(dst, p, "file")
        /\ ~exists(src, p) /\ exists(dst, p) => p \in kept \/ Children(dst, p) # {}

Differs(p) == Is(src, p, "file") /\ dst[p].data # src[p].data

\* "makes destination match source exactly": when mirrorDirectory() has returned,
\* trees and files are the same.
MirrorExact == exact => SameTree /\ \A p \in Path : ~Differs(p)

\* What holds: the trees are the same, and so are the files but those whose copy
\* was edited, or which were replaced by one that is not newer than the copy, and
\* of them only files of the same size.  A call that failed in the middle of a
\* copy leaves no traces when it is repeated.
MirrorExactButOdd ==
    exact => /\ SameTree
             /\ \A p \in Path : Differs(p) =>
                   /\ p \in odd
                   /\ Size[dst[p].data] = Size[src[p].data]
                   /\ dst[p].time >= src[p].time
============================================================================
