--------------------------- MODULE BackedBuffer ---------------------------
(* A byte buffer that loads its contents from a file page by page, as they   *)
(* are asked for, and writes the modified pages back when it is told to      *)
(* (include/utl/storage/BackedBuffer.h, src/storage/BackedBuffer.cpp).       *)
(*                                                                           *)
(* One thread uses the buffer, so each call is one action.  What makes it    *)
(* hard is the file: every read and write can fail in the middle of a call,  *)
(* and the calls after it go on with what the failure left behind.           *)
EXTENDS Integers, FiniteSets

CONSTANTS PageSize,     \* BackedBuffer::pageSize
          MaxSize,      \* bound on the sizes of buffers and files
          Value,        \* the bytes
          Zero,         \* the byte that is read where the file has none
          Junk,         \* what uninitialised memory holds
          Faults,       \* the operations that may fail, see FaultKinds
          MaxFaults,    \* bound on the number of failures in a behaviour
          KeepViews     \* do callers write through views after persist()?

FaultKinds == {"load", "complete", "grow", "open", "write", "flush"}

ASSUME ConstantsAssumption ==
    /\ PageSize \in Nat \ {0}
    /\ MaxSize \in Nat
    /\ Zero \in Value
    /\ Junk \notin Value
    /\ Faults \subseteq FaultKinds
    /\ MaxFaults \in Nat
    /\ KeepViews \in BOOLEAN

VARIABLES
    disk, diskLen,  \* the file itself: its bytes and its length
    backed,         \* is 'file' set?
    fileBytes,      \* the length of the file as the buffer knows it
    mem, bytes,     \* the memory and its size
    pages,          \* "Absent", "Clean" or "Dirty"
    dirtyPages,     \* the number of dirty pages
    readOnly,       \* the public flag
    out,            \* the output stream: "closed", or "failed" and still open
    views,          \* the bytes the caller can write through a mutable view
    faultsLeft,     \* failures to come
    torn            \* history: has resize() failed to read the rest of a page?

fileVars == <<disk, diskLen>>
bufVars  == <<mem, bytes, pages, dirtyPages>>
vars     == <<disk, diskLen, backed, fileBytes, mem, bytes, pages, dirtyPages,
              readOnly, out, views, faultsLeft, torn>>

Cells == 0 .. MaxSize - 1
Pages == Cells                      \* no more pages than bytes
PageState == {"Absent", "Clean", "Dirty"}

PageOf(i)  == i \div PageSize
NPages(n)  == (n + PageSize - 1) \div PageSize
PagesOf(o, l) == {p \in Pages : PageOf(o) <= p /\ p <= PageOf(o + l - 1)}

DirtySet == {p \in Pages : pages[p] = "Dirty"}
Dirty(i) == i < bytes /\ pages[PageOf(i)] = "Dirty"
Loaded(i) == i < bytes /\ pages[PageOf(i)] # "Absent"

\* Byte i as fetch() and resize() find it: from the file as far as the buffer
\* believes the file to reach, zero beyond.
FileAt(i) == IF i < fileBytes THEN disk[i] ELSE Zero

\* What the members hold.
Types == /\ disk \in [Cells -> Value \cup {Junk}]
         /\ diskLen \in 0 .. MaxSize
         /\ backed \in BOOLEAN
         /\ fileBytes \in 0 .. MaxSize
         /\ mem \in [Cells -> Value \cup {Junk}]
         /\ bytes \in 0 .. MaxSize
         /\ pages \in [Pages -> PageState]
         /\ dirtyPages \in Nat
         /\ readOnly \in BOOLEAN
         /\ out \in {"closed", "failed"}
         /\ views \subseteq Cells
         /\ faultsLeft \in 0 .. MaxFaults

TypeOK == Types /\ torn \in BOOLEAN

Init == /\ disk \in [Cells -> Value]
        /\ diskLen \in 0 .. MaxSize
        /\ \A i \in Cells : i >= diskLen => disk[i] = Zero
        /\ backed = FALSE
        /\ fileBytes = 0
        /\ mem = [i \in Cells |-> Junk]
        /\ bytes = 0
        /\ pages = [p \in Pages |-> "Absent"]
        /\ dirtyPages = 0
        /\ readOnly = FALSE
        /\ out = "closed"
        /\ views = {}
        /\ faultsLeft = MaxFaults
        /\ torn = FALSE

Fault(kind) == /\ kind \in Faults
               /\ faultsLeft > 0
               /\ faultsLeft' = faultsLeft - 1

---------------------------------------------------------------------------
(* Setting up.  init() begins with dealloc(): views die, streams close.      *)

Fresh(n) == /\ mem' = [i \in Cells |-> Junk]
            /\ bytes' = n
            /\ pages' = [p \in Pages |-> "Absent"]
            /\ dirtyPages' = 0
            /\ out' = "closed"
            /\ views' = {}
            /\ UNCHANGED <<disk, diskLen, faultsLeft>>

\* Also what remains of a buffer whose init() got no memory.
Dealloc == /\ Fresh(0)
           /\ backed' = FALSE
           /\ fileBytes' = 0
           /\ readOnly' = FALSE

InitMem(n) == /\ n > 0
              /\ Fresh(n)
              /\ backed' = FALSE
              /\ fileBytes' = 0
              /\ readOnly' = FALSE

InitFile(n, ro) == /\ Fresh(n)
                   /\ backed' = TRUE
                   /\ fileBytes' = diskLen
                   /\ readOnly' = ro

---------------------------------------------------------------------------
(* Loading.  load() goes through the absent pages of a region run by run.    *)

\* Mutant of Absent: pages that are loaded already are loaded again.
AllOfRegion(R) == R

Absent(R) == {p \in R : pages[p] = "Absent"}

\* The memory and the page table once the pages P have been fetched.
FetchedMem(P) == [i \in Cells |-> IF i < bytes /\ PageOf(i) \in P
                                  THEN FileAt(i) ELSE mem[i]]
FetchedPages(P) == [p \in Pages |-> IF p \in P THEN "Clean" ELSE pages[p]]

\* A fetch fails in a run that has something to read from the file; the runs
\* before it stay loaded, the run itself stays absent.
FetchFailsAt(R, f) == /\ f \in Absent(R)
                      /\ f - 1 \notin Absent(R)
                      /\ f * PageSize < fileBytes
FetchedBefore(R, f) == {p \in Absent(R) : p < f}

LoadFails(R) == /\ Fault("load")
                /\ \E f \in Absent(R) :
                      /\ FetchFailsAt(R, f)
                      /\ mem' = FetchedMem(FetchedBefore(R, f))
                      /\ pages' = FetchedPages(FetchedBefore(R, f))
                /\ UNCHANGED <<disk, diskLen, backed, fileBytes, bytes,
                               dirtyPages, readOnly, out, views>>

InBuffer(o, l) == l > 0 /\ o + l <= bytes

ByteView(o, l) ==
    /\ InBuffer(o, l)
    /\ mem' = FetchedMem(Absent(PagesOf(o, l)))
    /\ pages' = FetchedPages(Absent(PagesOf(o, l)))
    /\ UNCHANGED <<disk, diskLen, backed, fileBytes, bytes, dirtyPages,
                   readOnly, out, views, faultsLeft>>

ViewFails(o, l) == InBuffer(o, l) /\ LoadFails(PagesOf(o, l))

\* Mutant of MutableByteView: pages that were dirty before count again.
MutableViewCountsTwice(o, l) ==
    LET R == PagesOf(o, l)
    IN  /\ InBuffer(o, l)
        /\ mem' = FetchedMem(Absent(R))
        /\ pages' = [p \in Pages |-> IF p \in R THEN "Dirty" ELSE pages[p]]
        /\ dirtyPages' = dirtyPages + Cardinality(R)
        /\ views' = o .. o + l - 1
        /\ UNCHANGED <<disk, diskLen, backed, fileBytes, bytes, readOnly, out,
                       faultsLeft>>

\* The pages of a mutable view turn dirty one by one, and each that was not
\* dirty before counts.
MutableByteView(o, l) ==
    LET R == PagesOf(o, l)
    IN  /\ InBuffer(o, l)
        /\ mem' = FetchedMem(Absent(R))
        /\ pages' = [p \in Pages |-> IF p \in R THEN "Dirty" ELSE pages[p]]
        /\ dirtyPages' = dirtyPages + Cardinality(R \ DirtySet)
        /\ views' = o .. o + l - 1
        /\ UNCHANGED <<disk, diskLen, backed, fileBytes, bytes, readOnly, out,
                       faultsLeft>>

\* The caller writes through the mutable view it holds.  Only the view taken
\* last is remembered: taking an older one again changes nothing.
WriteThroughView(i, v) ==
    /\ i \in views
    /\ mem' = [mem EXCEPT ![i] = v]
    /\ UNCHANGED <<disk, diskLen, backed, fileBytes, bytes, pages, dirtyPages,
                   readOnly, out, views, faultsLeft>>

---------------------------------------------------------------------------
(* Resizing.  A failed realloc() changes nothing and is no action.           *)

\* Mutant of Shrink: every page that goes is taken off the counter.
ShrinkCountsClean(n) ==
    /\ n < bytes
    /\ mem' = [i \in Cells |-> IF i < n THEN mem[i] ELSE Junk]
    /\ bytes' = n
    /\ pages' = [p \in Pages |-> IF p < NPages(n) THEN pages[p] ELSE "Absent"]
    /\ dirtyPages' = dirtyPages - Cardinality({p \in Pages : p >= NPages(n)
                                                   /\ pages[p] # "Absent"})
    /\ views' = {}
    /\ UNCHANGED <<disk, diskLen, backed, fileBytes, readOnly, out, faultsLeft>>

Shrink(n) ==
    LET gone == {p \in DirtySet : p >= NPages(n)}
    IN  /\ n < bytes
        /\ mem' = [i \in Cells |-> IF i < n THEN mem[i] ELSE Junk]
        /\ bytes' = n
        /\ pages' = [p \in Pages |-> IF p < NPages(n) THEN pages[p] ELSE "Absent"]
        /\ dirtyPages' = dirtyPages - Cardinality(gone)
        /\ views' = {}
        /\ UNCHANGED <<disk, diskLen, backed, fileBytes, readOnly, out, faultsLeft>>

\* Mutant of Completion: the last page is never completed.
NoCompletion(n) == {}

\* The bytes a growing buffer has to add to its last page: the page may have
\* been loaded up to the old end only.
Completion(n) == {i \in Cells : /\ bytes % PageSize # 0
                                /\ pages[PageOf(bytes)] # "Absent"
                                /\ bytes <= i /\ i < n
                                /\ PageOf(i) = PageOf(bytes)}

Grow(n) ==
    /\ bytes < n
    /\ mem' = [i \in Cells |-> IF i \in Completion(n) THEN FileAt(i) ELSE mem[i]]
    /\ bytes' = n
    /\ views' = {}
    /\ UNCHANGED <<disk, diskLen, backed, fileBytes, pages, dirtyPages,
                   readOnly, out, faultsLeft>>

\* The size has changed before the bytes are read, and stays changed when they
\* cannot be read: they hold what realloc() found there.
GrowFails(n) ==
    /\ bytes < n
    /\ Completion(n) # {}
    /\ bytes < fileBytes
    /\ Fault("complete")
    /\ bytes' = n
    /\ views' = {}
    /\ UNCHANGED <<disk, diskLen, backed, fileBytes, mem, pages, dirtyPages,
                   readOnly, out>>

\* The whole buffer is loaded before the file goes away.
All == {p \in Pages : p < NPages(bytes)}

\* Mutant of Detach: the length of the file is not forgotten.
DetachKeepsLength == /\ mem' = FetchedMem(Absent(All))
                     /\ pages' = FetchedPages(Absent(All))
                     /\ backed' = FALSE
                     /\ out' = "closed"
                     /\ UNCHANGED <<disk, diskLen, fileBytes, bytes, dirtyPages,
                                    readOnly, views, faultsLeft>>

Detach == /\ mem' = FetchedMem(Absent(All))
          /\ pages' = FetchedPages(Absent(All))
          /\ backed' = FALSE
          /\ fileBytes' = 0
          /\ out' = "closed"
          /\ UNCHANGED <<disk, diskLen, bytes, dirtyPages, readOnly, views,
                         faultsLeft>>

DetachFails == LoadFails(All)

SetReadOnly(ro) == /\ readOnly' = ro
                   /\ UNCHANGED <<disk, diskLen, backed, fileBytes, mem, bytes,
                                  pages, dirtyPages, out, views, faultsLeft>>

---------------------------------------------------------------------------
(* Persisting.  growFile(), then writeFile() for each run of dirty pages,    *)
(* then closeFile(), then the pages are clean.  Each of them may throw.      *)

\* Mutant of MayPersist: the flag is not looked at.
MayPersistAlways == backed /\ dirtyPages > 0

MayPersist == ~readOnly /\ backed /\ dirtyPages > 0

DirtyCells == {i \in Cells : Dirty(i)}

GrownLen == IF bytes <= fileBytes THEN fileBytes ELSE bytes

\* What growFile() and the writing of the bytes W do to the file.
GrowAndWrite(W) ==
    /\ fileBytes' = GrownLen
    /\ diskLen' = IF bytes <= fileBytes THEN diskLen ELSE bytes
    /\ disk' = [i \in Cells |-> IF i \in W THEN mem[i] ELSE disk[i]]

\* Mutant of Persisted: a last page that is not full stays dirty.
PersistedFullPages ==
    LET done == {p \in DirtySet : (p + 1) * PageSize <= bytes}
    IN  /\ pages' = [p \in Pages |-> IF p \in done THEN "Clean" ELSE pages[p]]
        /\ dirtyPages' = dirtyPages - Cardinality(done)
        /\ views' = IF KeepViews THEN views ELSE {}

\* Callers that follow the rules take a new view after each persist().
Persisted ==
    /\ pages' = [p \in Pages |-> IF pages[p] = "Dirty" THEN "Clean" ELSE pages[p]]
    /\ dirtyPages' = 0
    /\ views' = IF KeepViews THEN views ELSE {}

PersistOk == /\ MayPersist
             /\ out = "closed"
             /\ GrowAndWrite(DirtyCells)
             /\ Persisted
             /\ UNCHANGED <<backed, mem, bytes, readOnly, out, faultsLeft>>

PersistGrowFails == /\ MayPersist
                    /\ bytes > fileBytes
                    /\ Fault("grow")
                    /\ UNCHANGED <<disk, diskLen, backed, fileBytes, mem, bytes,
                                   pages, dirtyPages, readOnly, out, views>>

PersistOpenFails == /\ MayPersist
                    /\ out = "closed"
                    /\ Fault("open")
                    /\ GrowAndWrite({})
                    /\ UNCHANGED <<backed, mem, bytes, pages, dirtyPages,
                                   readOnly, out, views>>

\* A write that fails throws with the stream open and its error state set.
\* The stream holds back what it likes, so any of the bytes may be written.
PersistWriteFails == /\ MayPersist
                     /\ out = "closed"
                     /\ Fault("write")
                     /\ \E W \in SUBSET DirtyCells : GrowAndWrite(W)
                     /\ out' = "failed"
                     /\ UNCHANGED <<backed, mem, bytes, pages, dirtyPages,
                                    readOnly, views>>

\* The stream is open, so it is not opened again; nothing clears its error
\* state, so seekp() and write() do nothing and the call throws once more.
PersistStuck == /\ MayPersist
                /\ out = "failed"
                /\ GrowAndWrite({})
                /\ UNCHANGED <<backed, mem, bytes, pages, dirtyPages, readOnly,
                               out, views, faultsLeft>>

\* Mutant of PersistFlushFails: the pages are clean before the file is closed.
CleanBeforeClose == /\ MayPersist
                    /\ out = "closed"
                    /\ Fault("flush")
                    /\ \E W \in SUBSET DirtyCells : GrowAndWrite(W)
                    /\ Persisted
                    /\ UNCHANGED <<backed, mem, bytes, readOnly, out>>

\* closeFile() closes the stream whether or not the flush went well.
PersistFlushFails == /\ MayPersist
                     /\ out = "closed"
                     /\ Fault("flush")
                     /\ \E W \in SUBSET DirtyCells : GrowAndWrite(W)
                     /\ UNCHANGED <<backed, mem, bytes, pages, dirtyPages,
                                    readOnly, out, views>>

Persist == \/ PersistOk
           \/ PersistGrowFails
           \/ PersistOpenFails
           \/ PersistWriteFails
           \/ PersistStuck
           \/ PersistFlushFails

---------------------------------------------------------------------------
(* "The file is ours while the buffer uses it": others use it otherwise.     *)

ForeignWrite(i, v) == /\ ~backed
                      /\ i < diskLen
                      /\ disk' = [disk EXCEPT ![i] = v]
                      /\ UNCHANGED <<diskLen, backed, fileBytes, mem, bytes, pages,
                                     dirtyPages, readOnly, out, views, faultsLeft>>

ForeignResize(n) == /\ ~backed
                    /\ diskLen' = n
                    /\ disk' = [i \in Cells |-> IF i < n THEN disk[i] ELSE Zero]
                    /\ UNCHANGED <<backed, fileBytes, mem, bytes, pages, dirtyPages,
                                   readOnly, out, views, faultsLeft>>

Calls == \/ Dealloc
         \/ Detach
         \/ DetachFails
         \/ Persist
         \/ \E n \in 0 .. MaxSize :
               \/ InitMem(n)
               \/ Shrink(n)
               \/ Grow(n)
               \/ ForeignResize(n)
               \/ \E ro \in BOOLEAN : InitFile(n, ro)
         \/ \E o \in Cells, l \in 1 .. MaxSize :
               \/ ByteView(o, l)
               \/ ViewFails(o, l)
               \/ MutableByteView(o, l)
         \/ \E i \in Cells, v \in Value :
               \/ WriteThroughView(i, v)
               \/ ForeignWrite(i, v)
         \/ \E ro \in BOOLEAN : SetReadOnly(ro)

Next == \/ Calls /\ UNCHANGED torn
        \/ \E n \in 0 .. MaxSize : GrowFails(n) /\ torn' = TRUE

Spec == Init /\ [][Next]_vars

\* A caller that still has something to save calls persist() again.
FairSpec == Spec /\ WF_vars(Persist /\ UNCHANGED torn)

---------------------------------------------------------------------------
(* Properties                                                                *)

\* dirty() is told by a counter that four functions maintain on their own:
\* mutableByteView() adds to it, resize() subtracts the pages it drops,
\* persist() and init() reset it.  It never drifts from the page table, so
\* dirty() is right and persist() neither skips work nor repeats it for ever.
DirtyCountExact == dirtyPages = Cardinality(DirtySet)

\* A page is clean only if the file holds its bytes: whatever failed in the
\* middle of whatever call, persist() will not pass over a page that differs.
CleanPagesMatchFile ==
    backed => \A i \in Cells :
                 (Loaded(i) /\ ~Dirty(i)) => mem[i] = FileAt(i)

\* No view shows, and no file receives, memory nobody has initialised: "Since
\* fetch() initializes each page before handing it out, the initial contents
\* do not matter".
NothingUninitialised ==
    \A i \in Cells : disk[i] # Junk /\ (Loaded(i) => mem[i] # Junk)

\* "It writes every modified region back, and nothing else": while the buffer
\* has the file, bytes change only in dirty pages, to what the buffer holds,
\* never under readOnly, and the file is never cut.
OnlyModifiedWritten ==
    [][backed => /\ \A i \in Cells : disk'[i] # disk[i] =>
                       Dirty(i) /\ ~readOnly /\ disk'[i] = mem[i]
                 /\ diskLen' # diskLen =>
                       diskLen' > diskLen /\ diskLen' = bytes /\ ~readOnly]_vars

\* While it has the file, the buffer knows how long it is; it reads nothing
\* from a file it does not have.
FileLengthKnown == fileBytes = IF backed THEN diskLen ELSE 0

FileEnds == \A i \in Cells : i >= diskLen => disk[i] = Zero

\* Only pages that begin inside the buffer are loaded.
PageTableFits == \A p \in Pages : pages[p] # "Absent" => p * PageSize < bytes

\* What the caller can write through a view is in the buffer, on a dirty page.
ViewsAreDirty == \A i \in views : Dirty(i)

\* The invariant that every step preserves: why clean pages match the file and
\* loaded memory is initialised, one call after the other, until resize() fails
\* to complete a page.
IndInv == /\ TypeOK
          /\ DirtyCountExact
          /\ ~torn => /\ FileLengthKnown
                      /\ FileEnds
                      /\ PageTableFits
                      /\ ViewsAreDirty
                      /\ CleanPagesMatchFile
                      /\ NothingUninitialised

\* What the failures of load(), persist() and detach() leave behind is sound:
\* clean pages match the file, and nothing shows uninitialised memory.
CleanUnlessTorn == ~torn => CleanPagesMatchFile
InitialisedUnlessTorn == ~torn => NothingUninitialised

\* Bytes that were changed through a live mutable view are in dirty pages.
ViewWritesTracked ==
    backed => \A i \in views : mem[i] # FileAt(i) => Dirty(i)

\* "If anything fails on the way, every modified page stays dirty, and the
\* next persist() writes them all again": failures that do not go on for ever
\* do not keep a caller who retries from saving.
RetrySucceeds == []<>(dirtyPages = 0 \/ readOnly \/ ~backed)

\* So it is after failures to read, to grow the file, to open it and to flush
\* it, in any order, but for a stream that a failed write has left in error.
RetryUnlessStuck == []<>(dirtyPages = 0 \/ readOnly \/ ~backed \/ out = "failed")

\* To its user the buffer is an image of the file read up front, whatever is
\* loaded when, and whatever failed before, resize() excepted.
Content(i) == IF i < bytes
              THEN IF pages[PageOf(i)] = "Absent" THEN FileAt(i) ELSE mem[i]
              ELSE Junk

Image == INSTANCE PersistentImage
             WITH image    <- [i \in Cells |-> Content(i)],
                  size     <- bytes,
                  modified <- DirtySet,
                  attached <- backed,
                  file     <- disk,
                  fileLen  <- diskLen

LooksLikeImage == Image!Init /\ [][~torn' => Image!Next]_(Image!vars)
==========================================================================
