------------------------ MODULE BackedBuffer_proofs ------------------------
(* Proofs about BackedBuffer for every page size, every bound on sizes and   *)
(* failures, and every set of bytes.                                         *)
EXTENDS BackedBuffer, FiniteSetTheorems, TLAPS

---------------------------------------------------------------------------
(* Pages and bytes                                                           *)

LEMMA PageBounds ==
    ASSUME NEW i \in Nat
    PROVE  /\ PageOf(i) \in Nat
           /\ PageOf(i) * PageSize <= i
           /\ i < PageOf(i) * PageSize + PageSize
           /\ PageOf(i) <= i
BY ConstantsAssumption DEF PageOf

LEMMA PageOfCell == \A i \in Cells : PageOf(i) \in Pages
BY PageBounds, ConstantsAssumption DEF Cells, Pages

LEMMA PageCount ==
    ASSUME NEW n \in Nat, NEW p \in Nat
    PROVE  p < NPages(n) <=> p * PageSize < n
BY ConstantsAssumption DEF NPages

LEMMA SamePage ==
    ASSUME NEW i \in Nat, NEW p \in Nat,
           p * PageSize <= i, i < p * PageSize + PageSize
    PROVE  PageOf(i) = p
BY ConstantsAssumption DEF PageOf

LEMMA PageStart ==
    ASSUME NEW i \in Nat
    PROVE  i % PageSize = 0 <=> i = PageOf(i) * PageSize
BY ConstantsAssumption DEF PageOf

---------------------------------------------------------------------------
(* The counter of dirty pages                                                *)

LEMMA DirtySetFinite == IsFiniteSet(DirtySet) /\ Cardinality(DirtySet) \in Nat
<1>1. IsFiniteSet(Pages)
  BY ConstantsAssumption, FS_Interval DEF Pages, Cells
<1>2. DirtySet \in SUBSET Pages
  BY DEF DirtySet
<1> QED
  BY <1>1, <1>2, FS_Subset, FS_CardinalityType

\* Pages that turn dirty and were not dirty add up, pages that go subtract.
LEMMA CardinalityOfUnion ==
    ASSUME NEW S, NEW R, IsFiniteSet(S), IsFiniteSet(R)
    PROVE  Cardinality(S \cup R) = Cardinality(S) + Cardinality(R \ S)
<1>1. S \cup R = S \cup (R \ S) /\ S \cap (R \ S) = {}
  OBVIOUS
<1>2. IsFiniteSet(R \ S)
  BY FS_Difference
<1>3. Cardinality(S \cup (R \ S))
        = Cardinality(S) + Cardinality(R \ S) - Cardinality(S \cap (R \ S))
  BY <1>2, FS_Union
<1>4. Cardinality(S \cap (R \ S)) = 0
  BY <1>1, FS_EmptySet
<1>5. Cardinality(S) \in Nat /\ Cardinality(R \ S) \in Nat
  BY <1>2, FS_CardinalityType
<1>6. Cardinality(S \cup R) = Cardinality(S \cup (R \ S))
  BY <1>1
<1> QED
  BY <1>3, <1>4, <1>5, <1>6

LEMMA CardinalityOfRest ==
    ASSUME NEW S, NEW R, IsFiniteSet(S), R \subseteq S
    PROVE  /\ Cardinality(S \ R) = Cardinality(S) - Cardinality(R)
           /\ Cardinality(S \ R) \in Nat
<1>1. S \cap R = R
  OBVIOUS
<1> QED
  BY <1>1, FS_Difference, FS_CardinalityType

CountInv == Types /\ DirtyCountExact

\* Fetching pages that are absent leaves the dirty ones alone.
LEMMA FetchedTypes ==
    ASSUME Types, NEW R, NEW P \in SUBSET Absent(R)
    PROVE  /\ FetchedMem(P) \in [Cells -> Value \cup {Junk}]
           /\ FetchedPages(P) \in [Pages -> PageState]
           /\ {p \in Pages : FetchedPages(P)[p] = "Dirty"} = DirtySet
<1>1. \A i \in Cells : FileAt(i) \in Value \cup {Junk}
  BY ConstantsAssumption DEF FileAt, Types, Cells
<1>2. FetchedMem(P) \in [Cells -> Value \cup {Junk}]
  BY <1>1 DEF FetchedMem, Types
<1>3. FetchedPages(P) \in [Pages -> PageState]
  BY DEF FetchedPages, Types, PageState
<1>4. {p \in Pages : FetchedPages(P)[p] = "Dirty"} = DirtySet
  BY DEF FetchedPages, DirtySet, Absent, Types
<1> QED
  BY <1>2, <1>3, <1>4

\* A failure leaves one failure less.
LEMMA FaultTypes ==
    ASSUME Types, NEW kind, Fault(kind)
    PROVE  faultsLeft' \in 0 .. MaxFaults
BY ConstantsAssumption DEF Types, Fault

LEMMA LoadFailsCount ==
    ASSUME CountInv, NEW R, LoadFails(R)
    PROVE  CountInv'
<1>1. PICK f \in Absent(R) : /\ mem' = FetchedMem(FetchedBefore(R, f))
                             /\ pages' = FetchedPages(FetchedBefore(R, f))
  BY DEF LoadFails
<1>2. FetchedBefore(R, f) \in SUBSET Absent(R)
  BY DEF FetchedBefore
<1>3. /\ mem' \in [Cells -> Value \cup {Junk}]
      /\ pages' \in [Pages -> PageState]
      /\ DirtySet' = DirtySet
  BY <1>1, <1>2, FetchedTypes DEF CountInv, DirtySet
<1>4. faultsLeft' \in 0 .. MaxFaults
  BY FaultTypes DEF LoadFails, CountInv
<1> QED
  BY <1>3, <1>4 DEF LoadFails, CountInv, Types, DirtyCountExact

\* Setting up leaves no dirty page and a counter of zero.
LEMMA FreshCount ==
    ASSUME CountInv, NEW n \in 0 .. MaxSize, Fresh(n),
           backed' \in BOOLEAN, fileBytes' \in 0 .. MaxSize, readOnly' \in BOOLEAN
    PROVE  CountInv'
<1>1. pages' = [p \in Pages |-> "Absent"] /\ DirtySet' = {}
  BY DEF Fresh, DirtySet
<1>2. DirtyCountExact'
  BY <1>1, FS_EmptySet DEF DirtyCountExact, Fresh
<1>3. Types'
  BY <1>1 DEF Fresh, CountInv, Types, PageState
<1> QED
  BY <1>2, <1>3 DEF CountInv

\* What growFile() and writeFile() do to the file keeps its type.
LEMMA GrowAndWriteTypes ==
    ASSUME Types, NEW W, GrowAndWrite(W)
    PROVE  /\ disk' \in [Cells -> Value \cup {Junk}]
           /\ diskLen' \in 0 .. MaxSize
           /\ fileBytes' \in 0 .. MaxSize
<1>1. disk' \in [Cells -> Value \cup {Junk}]
  BY DEF GrowAndWrite, Types
<1> QED
  BY <1>1 DEF GrowAndWrite, GrownLen, Types

LEMMA PersistCount ==
    ASSUME CountInv, Persist
    PROVE  CountInv'
<1> USE DEF CountInv
<1>1. CASE PersistOk
  <2>1. pages' \in [Pages -> PageState] /\ DirtySet' = {} /\ dirtyPages' = 0
    BY <1>1 DEF PersistOk, Persisted, Types, PageState, DirtySet
  <2>2. DirtyCountExact'
    BY <2>1, FS_EmptySet DEF DirtyCountExact
  <2>3. views' \subseteq Cells
    BY <1>1 DEF PersistOk, Persisted, Types
  <2> QED
    BY <1>1, <2>1, <2>2, <2>3, GrowAndWriteTypes DEF PersistOk, Types
<1>2. CASE PersistGrowFails
  BY <1>2, FaultTypes DEF PersistGrowFails, Types, DirtyCountExact, DirtySet
<1>3. CASE PersistOpenFails
  BY <1>3, GrowAndWriteTypes, FaultTypes
  DEF PersistOpenFails, Types, DirtyCountExact, DirtySet
<1>4. CASE PersistWriteFails
  <2>1. PICK W \in SUBSET DirtyCells : GrowAndWrite(W)
    BY <1>4 DEF PersistWriteFails
  <2> QED
    BY <1>4, <2>1, GrowAndWriteTypes, FaultTypes
    DEF PersistWriteFails, Types, DirtyCountExact, DirtySet
<1>5. CASE PersistStuck
  BY <1>5, GrowAndWriteTypes DEF PersistStuck, Types, DirtyCountExact, DirtySet
<1>6. CASE PersistFlushFails
  <2>1. PICK W \in SUBSET DirtyCells : GrowAndWrite(W)
    BY <1>6 DEF PersistFlushFails
  <2> QED
    BY <1>6, <2>1, GrowAndWriteTypes, FaultTypes
    DEF PersistFlushFails, Types, DirtyCountExact, DirtySet
<1> QED
  BY <1>1, <1>2, <1>3, <1>4, <1>5, <1>6 DEF Persist

LEMMA CountStep == CountInv /\ [Next]_vars => CountInv'
<1> SUFFICES ASSUME CountInv, [Next]_vars PROVE CountInv'
  OBVIOUS
<1> USE DEF CountInv
<1>1. CASE Dealloc
  <2>1. 0 \in 0 .. MaxSize
    BY ConstantsAssumption
  <2>2. backed' \in BOOLEAN /\ fileBytes' = 0 /\ readOnly' \in BOOLEAN
    BY <1>1 DEF Dealloc
  <2> QED
    BY <1>1, <2>1, <2>2, FreshCount DEF Dealloc
<1>2. CASE Detach
  <2>1. /\ mem' \in [Cells -> Value \cup {Junk}]
        /\ pages' \in [Pages -> PageState]
        /\ DirtySet' = DirtySet
    BY <1>2, FetchedTypes DEF Detach, DirtySet
  <2>2. fileBytes' \in 0 .. MaxSize
    BY <1>2, ConstantsAssumption DEF Detach
  <2>3. backed' \in BOOLEAN /\ out' \in {"closed", "failed"}
    BY <1>2 DEF Detach
  <2>4. DirtyCountExact'
    BY <1>2, <2>1 DEF Detach, DirtyCountExact
  <2>5. Types'
    BY <1>2, <2>1, <2>2, <2>3 DEF Detach, Types
  <2> QED
    BY <2>4, <2>5
<1>3. CASE DetachFails
  BY <1>3, LoadFailsCount DEF DetachFails
<1>4. CASE Persist
  BY <1>4, PersistCount
<1>5. ASSUME NEW n \in 0 .. MaxSize, InitMem(n) PROVE CountInv'
  <2>1. 0 \in 0 .. MaxSize
    BY ConstantsAssumption
  <2>2. backed' \in BOOLEAN /\ fileBytes' = 0 /\ readOnly' \in BOOLEAN
    BY <1>5 DEF InitMem
  <2> QED
    BY <1>5, <2>1, <2>2, FreshCount DEF InitMem
<1>6. ASSUME NEW n \in 0 .. MaxSize, NEW ro \in BOOLEAN, InitFile(n, ro) PROVE CountInv'
  BY <1>6, FreshCount DEF InitFile, Types
<1>7. ASSUME NEW n \in 0 .. MaxSize, Shrink(n) PROVE CountInv'
  <2> DEFINE gone == {p \in DirtySet : p >= NPages(n)}
  <2>1. DirtySet' = DirtySet \ gone
    <3>1. NPages(n) \in Int
      BY ConstantsAssumption DEF NPages
    <3> QED
      BY <1>7, <3>1 DEF Shrink, DirtySet, Types, Pages, Cells
  <2>2. gone \subseteq DirtySet
    OBVIOUS
  <2>3. /\ Cardinality(DirtySet') = Cardinality(DirtySet) - Cardinality(gone)
        /\ Cardinality(DirtySet') \in Nat
    BY <2>1, <2>2, DirtySetFinite, CardinalityOfRest
  <2>4. dirtyPages' = dirtyPages - Cardinality(gone)
    BY <1>7 DEF Shrink
  <2>5. dirtyPages' = Cardinality(DirtySet') /\ dirtyPages' \in Nat
    BY <2>3, <2>4 DEF DirtyCountExact
  <2>6. mem' \in [Cells -> Value \cup {Junk}] /\ pages' \in [Pages -> PageState]
    BY <1>7 DEF Shrink, Types, PageState
  <2> QED
    BY <1>7, <2>5, <2>6 DEF Shrink, Types, DirtyCountExact
<1>8. ASSUME NEW n \in 0 .. MaxSize, Grow(n) PROVE CountInv'
  <2>1. \A i \in Cells : FileAt(i) \in Value \cup {Junk}
    BY ConstantsAssumption DEF FileAt, Types, Cells
  <2>2. mem' \in [Cells -> Value \cup {Junk}]
    BY <1>8, <2>1 DEF Grow, Types
  <2> QED
    BY <1>8, <2>2 DEF Grow, Types, DirtyCountExact, DirtySet
<1>9. ASSUME NEW n \in 0 .. MaxSize, GrowFails(n) PROVE CountInv'
  BY <1>9, FaultTypes DEF GrowFails, Types, DirtyCountExact, DirtySet
<1>10. ASSUME NEW n \in 0 .. MaxSize, ForeignResize(n) PROVE CountInv'
  <2>1. disk' \in [Cells -> Value \cup {Junk}]
    BY <1>10, ConstantsAssumption DEF ForeignResize, Types
  <2> QED
    BY <1>10, <2>1 DEF ForeignResize, Types, DirtyCountExact, DirtySet
<1>11. ASSUME NEW o \in Cells, NEW l \in 1 .. MaxSize, ByteView(o, l) PROVE CountInv'
  <2>1. /\ mem' \in [Cells -> Value \cup {Junk}]
        /\ pages' \in [Pages -> PageState]
        /\ DirtySet' = DirtySet
    BY <1>11, FetchedTypes DEF ByteView, DirtySet
  <2> QED
    BY <1>11, <2>1 DEF ByteView, Types, DirtyCountExact
<1>12. ASSUME NEW o \in Cells, NEW l \in 1 .. MaxSize, ViewFails(o, l) PROVE CountInv'
  BY <1>12, LoadFailsCount DEF ViewFails
<1>13. ASSUME NEW o \in Cells, NEW l \in 1 .. MaxSize, MutableByteView(o, l)
       PROVE  CountInv'
  <2> DEFINE R == PagesOf(o, l)
  <2>1. R \in SUBSET Pages /\ IsFiniteSet(Pages)
    BY ConstantsAssumption, FS_Interval DEF PagesOf, Pages, Cells
  <2>2. IsFiniteSet(R)
    BY <2>1, FS_Subset
  <2>3. mem' \in [Cells -> Value \cup {Junk}]
    BY <1>13, FetchedTypes DEF MutableByteView
  <2>4. pages' \in [Pages -> PageState] /\ DirtySet' = DirtySet \cup R
    BY <1>13, <2>1 DEF MutableByteView, Types, PageState, DirtySet
  <2>5. dirtyPages' = dirtyPages + Cardinality(R \ DirtySet)
    BY <1>13 DEF MutableByteView
  <2>6. Cardinality(DirtySet') = Cardinality(DirtySet) + Cardinality(R \ DirtySet)
    BY <2>2, <2>4, DirtySetFinite, CardinalityOfUnion
  <2>7. Cardinality(R \ DirtySet) \in Nat
    BY <2>2, FS_Difference, FS_CardinalityType
  <2>8. dirtyPages' = Cardinality(DirtySet') /\ dirtyPages' \in Nat
    BY <2>5, <2>6, <2>7 DEF DirtyCountExact, Types
  <2>9. views' \subseteq Cells
    <3>1. views' = o .. o + l - 1 /\ o + l <= bytes
      BY <1>13 DEF MutableByteView, InBuffer
    <3>2. bytes \in Nat /\ bytes <= MaxSize /\ o \in Nat /\ l \in Nat
      BY ConstantsAssumption DEF Types, Cells
    <3> QED
      BY <3>1, <3>2, ConstantsAssumption DEF Cells
  <2> QED
    BY <1>13, <2>3, <2>4, <2>8, <2>9 DEF MutableByteView, Types, DirtyCountExact
<1>14. ASSUME NEW i \in Cells, NEW v \in Value, WriteThroughView(i, v) PROVE CountInv'
  BY <1>14 DEF WriteThroughView, Types, DirtyCountExact, DirtySet
<1>15. ASSUME NEW i \in Cells, NEW v \in Value, ForeignWrite(i, v) PROVE CountInv'
  BY <1>15 DEF ForeignWrite, Types, DirtyCountExact, DirtySet
<1>16. ASSUME NEW ro \in BOOLEAN, SetReadOnly(ro) PROVE CountInv'
  BY <1>16 DEF SetReadOnly, Types, DirtyCountExact, DirtySet
<1>17. CASE UNCHANGED vars
  BY <1>17 DEF vars, Types, DirtyCountExact, DirtySet
<1> QED
  BY <1>1, <1>2, <1>3, <1>4, <1>5, <1>6, <1>7, <1>8, <1>9, <1>10, <1>11, <1>12,
     <1>13, <1>14, <1>15, <1>16, <1>17 DEF Next, Calls

LEMMA CountInvariant == Spec => []CountInv
<1>1. Init => CountInv
  <2> SUFFICES ASSUME Init PROVE CountInv
    OBVIOUS
  <2>1. DirtySet = {}
    BY DEF Init, DirtySet
  <2>2. DirtyCountExact
    BY <2>1, FS_EmptySet DEF Init, DirtyCountExact
  <2>3. Types
    <3>1. /\ 0 \in 0 .. MaxSize
          /\ MaxFaults \in 0 .. MaxFaults
      BY ConstantsAssumption
    <3>2. /\ mem \in [Cells -> Value \cup {Junk}]
          /\ pages \in [Pages -> PageState]
          /\ disk \in [Cells -> Value \cup {Junk}]
      BY DEF Init, PageState
    <3> QED
      BY <3>1, <3>2 DEF Init, Types
  <2> QED
    BY <2>2, <2>3 DEF CountInv
<1> QED
  BY <1>1, CountStep, PTL DEF Spec

\* Types are kept, whatever fails and however callers use their views.
THEOREM TypeCorrect == Spec => []TypeOK
<1>1. Init /\ CountInv => TypeOK
  BY DEF Init, CountInv, TypeOK
<1>2. TypeOK /\ CountInv' /\ [Next]_vars => TypeOK'
  BY DEF Next, vars, CountInv, TypeOK
<1> QED
  BY <1>1, <1>2, CountInvariant, PTL DEF Spec

\* dirty() tells whether a page is dirty, whatever fails.
THEOREM CounterCorrect == Spec => []DirtyCountExact
BY CountInvariant, PTL DEF CountInv

---------------------------------------------------------------------------
(* Clean pages match the file                                                *)

LEMMA PageMonotone ==
    ASSUME NEW i \in Nat, NEW j \in Nat, i <= j
    PROVE  PageOf(i) <= PageOf(j)
BY ConstantsAssumption DEF PageOf

LEMMA PageBegins ==
    ASSUME NEW j \in Nat, NEW p \in Nat, p <= PageOf(j)
    PROVE  p * PageSize <= j
<1>1. PageOf(j) \in Nat /\ PageOf(j) * PageSize <= j
  BY PageBounds
<1>2. p * PageSize <= PageOf(j) * PageSize
  BY <1>1, ConstantsAssumption
<1> QED
  BY <1>1, <1>2, ConstantsAssumption

\* The parts of SoundInv that are about contents; CountInv has the others.
ContentInv == /\ FileLengthKnown
              /\ FileEnds
              /\ PageTableFits
              /\ ViewsAreDirty
              /\ CleanPagesMatchFile
              /\ NothingUninitialised

\* All parts of IndInv together, as they are while no page is torn.
SoundInv == /\ Types
            /\ DirtyCountExact
            /\ FileLengthKnown
            /\ FileEnds
            /\ PageTableFits
            /\ ViewsAreDirty
            /\ CleanPagesMatchFile
            /\ NothingUninitialised

LEMMA SoundInvParts == SoundInv <=> CountInv /\ ContentInv
BY DEF SoundInv, CountInv, ContentInv

LEMMA IndInvParts == TypeOK => (IndInv <=> CountInv /\ (~torn => ContentInv))
BY DEF IndInv, CountInv, ContentInv, TypeOK

\* The pages of a region inside the buffer begin inside the buffer.
InsideBuffer(R) == \A p \in R : p * PageSize < bytes

LEMMA RegionInside ==
    ASSUME Types, NEW o \in Cells, NEW l \in 1 .. MaxSize, InBuffer(o, l)
    PROVE  InsideBuffer(PagesOf(o, l))
<1> SUFFICES ASSUME NEW p \in PagesOf(o, l) PROVE p * PageSize < bytes
  BY DEF InsideBuffer
<1>1. /\ o + l - 1 \in Nat /\ o + l - 1 < bytes
      /\ p \in Nat /\ bytes \in Nat
  BY ConstantsAssumption DEF InBuffer, Types, Cells, PagesOf, Pages
<1>2. p * PageSize <= o + l - 1
  BY <1>1, PageBegins DEF PagesOf
<1>3. p * PageSize \in Nat
  BY <1>1, ConstantsAssumption
<1> QED
  BY <1>1, <1>2, <1>3

LEMMA AllInside ==
    ASSUME Types
    PROVE  InsideBuffer(All)
<1> SUFFICES ASSUME NEW p \in Pages, p < NPages(bytes) PROVE p * PageSize < bytes
  BY DEF All, InsideBuffer
<1>1. p \in Nat /\ bytes \in Nat
  BY ConstantsAssumption DEF Types, Pages, Cells
<1> QED
  BY <1>1, PageCount

\* A byte of the file is never junk.
LEMMA FileAtInitialised ==
    ASSUME NothingUninitialised
    PROVE  \A i \in Cells : FileAt(i) # Junk
BY ConstantsAssumption DEF NothingUninitialised, FileAt

\* What a fetch brings in is what the file holds.
LEMMA FetchContent ==
    ASSUME SoundInv, NEW R, InsideBuffer(R), NEW P \in SUBSET Absent(R),
           mem' = FetchedMem(P), pages' = FetchedPages(P),
           disk' = disk, bytes' = bytes, views' = views
    PROVE  /\ PageTableFits'
           /\ ViewsAreDirty'
           /\ NothingUninitialised'
           /\ backed => \A i \in Cells : (Loaded(i)' /\ ~Dirty(i)') => mem'[i] = FileAt(i)
<1> USE DEF SoundInv
<1>1. PageTableFits'
  BY DEF PageTableFits, FetchedPages, Absent, InsideBuffer
<1>2. ViewsAreDirty'
  BY PageOfCell DEF ViewsAreDirty, Dirty, FetchedPages, Absent, Types
<1>3. ASSUME NEW i \in Cells, Loaded(i)'
      PROVE  IF PageOf(i) \in P THEN mem'[i] = FileAt(i)
                                ELSE mem'[i] = mem[i] /\ Loaded(i)
  <2>1. PageOf(i) \in Pages /\ i < bytes
    BY <1>3, PageOfCell DEF Loaded
  <2> QED
    BY <1>3, <2>1 DEF FetchedMem, FetchedPages, Loaded, Types
<1>4. NothingUninitialised'
  BY <1>3, FileAtInitialised DEF NothingUninitialised
<1>5. ASSUME backed, NEW i \in Cells, Loaded(i)', ~Dirty(i)'
      PROVE  mem'[i] = FileAt(i)
  <2>1. CASE PageOf(i) \in P
    BY <1>3, <1>5, <2>1
  <2>2. CASE PageOf(i) \notin P
    <3>1. mem'[i] = mem[i] /\ Loaded(i)
      BY <1>3, <1>5, <2>2
    <3>2. ~Dirty(i)
      BY <1>5, <2>2, PageOfCell DEF Dirty, FetchedPages, Types
    <3> QED
      BY <1>5, <3>1, <3>2 DEF CleanPagesMatchFile
  <2> QED
    BY <2>1, <2>2
<1> QED
  BY <1>1, <1>2, <1>4, <1>5

\* A fetch with the file in place preserves all parts.
LEMMA FetchPreserves ==
    ASSUME SoundInv, NEW R, InsideBuffer(R), NEW P \in SUBSET Absent(R),
           mem' = FetchedMem(P), pages' = FetchedPages(P),
           UNCHANGED <<disk, diskLen, backed, fileBytes, bytes, views>>
    PROVE  ContentInv'
<1>1. FileLengthKnown' /\ FileEnds'
  BY DEF SoundInv, FileLengthKnown, FileEnds
<1>2. /\ PageTableFits' /\ ViewsAreDirty' /\ NothingUninitialised'
      /\ backed => \A i \in Cells : (Loaded(i)' /\ ~Dirty(i)') => mem'[i] = FileAt(i)
  BY FetchContent
<1>3. \A i \in Cells : FileAt(i)' = FileAt(i)
  BY DEF FileAt
<1>4. CleanPagesMatchFile'
  BY <1>2, <1>3 DEF CleanPagesMatchFile
<1> QED
  BY <1>1, <1>2, <1>4 DEF ContentInv

LEMMA LoadFailsPreserves ==
    ASSUME SoundInv, NEW R, InsideBuffer(R), LoadFails(R)
    PROVE  ContentInv'
<1>1. PICK f \in Absent(R) : /\ mem' = FetchedMem(FetchedBefore(R, f))
                             /\ pages' = FetchedPages(FetchedBefore(R, f))
  BY DEF LoadFails
<1>2. FetchedBefore(R, f) \in SUBSET Absent(R)
  BY DEF FetchedBefore
<1> QED
  BY <1>1, <1>2, FetchPreserves DEF LoadFails

\* A buffer that is set up has nothing loaded and nobody has a view of it.
LEMMA FreshPreserves ==
    ASSUME SoundInv, NEW n \in 0 .. MaxSize, Fresh(n),
           fileBytes' = IF backed' THEN diskLen ELSE 0
    PROVE  ContentInv'
<1>1. \A p \in Pages : pages'[p] = "Absent"
  BY DEF Fresh
<1>2. \A i \in Cells : ~Loaded(i)'
  BY <1>1, PageOfCell DEF Loaded
<1> QED
  BY <1>1, <1>2 DEF Fresh, SoundInv, ContentInv, FileLengthKnown, FileEnds, PageTableFits,
     ViewsAreDirty, CleanPagesMatchFile, NothingUninitialised

---------------------------------------------------------------------------
(* Persisting                                                                *)

\* However much of the dirty bytes reaches the file, it knows its length, and
\* what it holds of the other bytes stays the same.
LEMMA WritePreserves ==
    ASSUME SoundInv, MayPersist, NEW W \in SUBSET DirtyCells, GrowAndWrite(W),
           backed' = backed, mem' = mem
    PROVE  /\ FileLengthKnown'
           /\ FileEnds'
           /\ \A i \in Cells : disk'[i] # Junk
           /\ \A i \in Cells : i \notin W => FileAt(i)' = FileAt(i)
           /\ \A i \in W : FileAt(i)' = mem[i]
<1> USE DEF SoundInv, GrowAndWrite
<1>1. backed /\ fileBytes = diskLen
  BY DEF MayPersist, FileLengthKnown
<1>2. /\ diskLen \in Nat /\ bytes \in Nat
      /\ diskLen' = GrownLen /\ fileBytes' = GrownLen
      /\ GrownLen \in Nat /\ GrownLen >= bytes /\ GrownLen >= diskLen
  BY <1>1, ConstantsAssumption DEF Types, GrownLen
<1>3. FileLengthKnown'
  BY <1>1, <1>2 DEF FileLengthKnown
<1>4. \A i \in Cells : disk'[i] = IF i \in W THEN mem[i] ELSE disk[i]
  OBVIOUS
<1>5. \A i \in W : i \in Cells /\ i < bytes /\ Loaded(i)
  BY DEF DirtyCells, Dirty, Loaded
<1>6. FileEnds'
  <2> SUFFICES ASSUME NEW i \in Cells, i >= diskLen' PROVE disk'[i] = Zero
    BY DEF FileEnds
  <2>1. i \in Nat
    BY DEF Cells
  <2>2. i >= diskLen /\ i \notin W
    BY <1>2, <1>5, <2>1
  <2> QED
    BY <1>4, <2>2 DEF FileEnds
<1>7. \A i \in Cells : disk'[i] # Junk
  BY <1>4, <1>5 DEF NothingUninitialised
<1>8. ASSUME NEW i \in Cells, i \notin W PROVE FileAt(i)' = FileAt(i)
  <2>1. i \in Nat /\ disk'[i] = disk[i]
    BY <1>4, <1>8 DEF Cells
  <2>2. CASE i < fileBytes
    BY <1>1, <1>2, <2>1, <2>2 DEF FileAt
  <2>3. CASE i >= fileBytes
    <3>1. disk[i] = Zero
      BY <1>1, <2>3 DEF FileEnds
    <3> QED
      BY <1>1, <1>2, <2>1, <2>3, <3>1 DEF FileAt
  <2> QED
    BY <1>1, <1>2, <2>1, <2>2, <2>3
<1>9. ASSUME NEW i \in W PROVE FileAt(i)' = mem[i]
  <2>1. i \in Nat /\ i < fileBytes'
    BY <1>2, <1>5 DEF Cells
  <2> QED
    BY <1>4, <1>5, <2>1 DEF FileAt
<1> QED
  BY <1>3, <1>6, <1>7, <1>8, <1>9

\* A persist() that fails: the pages stay as they are.
LEMMA FailedWritePreserves ==
    ASSUME SoundInv, MayPersist, NEW W \in SUBSET DirtyCells, GrowAndWrite(W),
           UNCHANGED <<backed, mem, bytes, pages, views>>
    PROVE  ContentInv'
<1>1. /\ FileLengthKnown'
      /\ FileEnds'
      /\ \A i \in Cells : disk'[i] # Junk
      /\ \A i \in Cells : i \notin W => FileAt(i)' = FileAt(i)
  BY WritePreserves
<1>2. \A i \in Cells : Loaded(i)' = Loaded(i) /\ Dirty(i)' = Dirty(i)
  BY DEF Loaded, Dirty
<1>3. PageTableFits' /\ ViewsAreDirty'
  BY DEF SoundInv, PageTableFits, ViewsAreDirty, Dirty
<1>4. \A i \in W : Dirty(i)
  BY DEF DirtyCells
<1>5. CleanPagesMatchFile'
  BY <1>1, <1>2, <1>4 DEF SoundInv, CleanPagesMatchFile
<1>6. NothingUninitialised'
  BY <1>1, <1>2 DEF SoundInv, NothingUninitialised
<1> QED
  BY <1>1, <1>3, <1>5, <1>6 DEF ContentInv

LEMMA PersistPreserves ==
    ASSUME SoundInv, Persist, KeepViews = FALSE
    PROVE  ContentInv'
<1>1. CASE PersistOk
  <2>1. /\ FileLengthKnown'
        /\ FileEnds'
        /\ \A i \in Cells : disk'[i] # Junk
        /\ \A i \in Cells : i \notin DirtyCells => FileAt(i)' = FileAt(i)
        /\ \A i \in DirtyCells : FileAt(i)' = mem[i]
    BY <1>1, WritePreserves DEF PersistOk
  <2>2. /\ mem' = mem /\ bytes' = bytes /\ backed' = backed /\ views' = {}
        /\ pages' = [p \in Pages |-> IF pages[p] = "Dirty" THEN "Clean" ELSE pages[p]]
    BY <1>1 DEF PersistOk, Persisted
  <2>3. \A i \in Cells : Loaded(i)' = Loaded(i)
    BY <2>2, PageOfCell DEF Loaded, SoundInv, Types
  <2>4. PageTableFits'
    BY <2>2 DEF SoundInv, PageTableFits, Types
  <2>5. ViewsAreDirty'
    BY <2>2 DEF ViewsAreDirty
  <2>6. \A i \in Cells : Loaded(i) /\ i \notin DirtyCells => ~Dirty(i)
    BY DEF DirtyCells
  <2>7. CleanPagesMatchFile'
    BY <2>1, <2>2, <2>3, <2>6 DEF SoundInv, CleanPagesMatchFile
  <2>8. NothingUninitialised'
    BY <2>1, <2>2, <2>3 DEF SoundInv, NothingUninitialised
  <2> QED
    BY <2>1, <2>4, <2>5, <2>7, <2>8 DEF ContentInv
<1>2. CASE PersistGrowFails
  BY <1>2 DEF PersistGrowFails, SoundInv, ContentInv, FileLengthKnown, FileEnds,
     PageTableFits, ViewsAreDirty, CleanPagesMatchFile, NothingUninitialised,
     Loaded, Dirty, FileAt
<1>3. CASE PersistOpenFails
  BY <1>3, FailedWritePreserves DEF PersistOpenFails
<1>4. CASE PersistWriteFails
  BY <1>4, FailedWritePreserves DEF PersistWriteFails
<1>5. CASE PersistStuck
  BY <1>5, FailedWritePreserves DEF PersistStuck
<1>6. CASE PersistFlushFails
  BY <1>6, FailedWritePreserves DEF PersistFlushFails
<1> QED
  BY <1>1, <1>2, <1>3, <1>4, <1>5, <1>6 DEF Persist

---------------------------------------------------------------------------
(* Views and sizes                                                           *)

LEMMA MutableViewPreserves ==
    ASSUME SoundInv, NEW o \in Cells, NEW l \in 1 .. MaxSize, MutableByteView(o, l)
    PROVE  ContentInv'
<1> DEFINE R == PagesOf(o, l)
<1> USE DEF SoundInv
<1>1. /\ mem' = FetchedMem(Absent(R))
      /\ pages' = [p \in Pages |-> IF p \in R THEN "Dirty" ELSE pages[p]]
      /\ views' = o .. o + l - 1
      /\ o + l <= bytes
      /\ UNCHANGED <<disk, diskLen, backed, fileBytes, bytes>>
  BY DEF MutableByteView, InBuffer
<1>2. InsideBuffer(R)
  BY RegionInside DEF MutableByteView
<1>3. FileLengthKnown' /\ FileEnds'
  BY <1>1 DEF FileLengthKnown, FileEnds
<1>4. PageTableFits'
  BY <1>1, <1>2 DEF PageTableFits, InsideBuffer
<1>5. ViewsAreDirty'
  <2> SUFFICES ASSUME NEW i \in o .. o + l - 1 PROVE Dirty(i)'
    BY <1>1 DEF ViewsAreDirty
  <2>1. /\ o \in Nat /\ l \in Nat /\ l > 0 /\ i \in Nat
        /\ o <= i /\ i <= o + l - 1 /\ o + l - 1 \in Nat
        /\ i < bytes /\ i \in Cells
    BY <1>1, ConstantsAssumption DEF Cells, Types
  <2>2. PageOf(o) <= PageOf(i) /\ PageOf(i) <= PageOf(o + l - 1)
    BY <2>1, PageMonotone
  <2>3. PageOf(i) \in R
    BY <2>1, <2>2, PageOfCell DEF PagesOf
  <2>4. PageOf(i) \in Pages
    BY <2>1, PageOfCell
  <2> QED
    BY <1>1, <2>1, <2>3, <2>4 DEF Dirty
<1>6. ASSUME NEW i \in Cells, Loaded(i)'
      PROVE  IF PageOf(i) \in Absent(R) THEN mem'[i] = FileAt(i)
                                        ELSE mem'[i] = mem[i] /\ Loaded(i)
  <2>1. PageOf(i) \in Pages /\ i < bytes
    BY <1>1, <1>6, PageOfCell DEF Loaded
  <2> QED
    BY <1>1, <1>6, <2>1 DEF FetchedMem, Absent, Loaded, Types
<1>7. NothingUninitialised'
  BY <1>1, <1>6, FileAtInitialised DEF NothingUninitialised
<1>8. CleanPagesMatchFile'
  <2> SUFFICES ASSUME backed, NEW i \in Cells, Loaded(i)', ~Dirty(i)'
               PROVE  mem'[i] = FileAt(i)'
    BY <1>1 DEF CleanPagesMatchFile
  <2>1. PageOf(i) \in Pages /\ i < bytes
    BY <1>1, PageOfCell DEF Loaded
  <2>2. PageOf(i) \notin R /\ ~Dirty(i)
    BY <1>1, <2>1 DEF Dirty
  <2>3. mem'[i] = mem[i] /\ Loaded(i)
    BY <1>6, <2>2 DEF Absent
  <2>4. FileAt(i)' = FileAt(i)
    BY <1>1 DEF FileAt
  <2> QED
    BY <2>2, <2>3, <2>4 DEF CleanPagesMatchFile
<1> QED
  BY <1>3, <1>4, <1>5, <1>7, <1>8 DEF ContentInv

LEMMA ShrinkPreserves ==
    ASSUME SoundInv, NEW n \in 0 .. MaxSize, Shrink(n)
    PROVE  ContentInv'
<1> USE DEF SoundInv
<1>1. /\ n < bytes /\ bytes' = n /\ views' = {}
      /\ mem' = [i \in Cells |-> IF i < n THEN mem[i] ELSE Junk]
      /\ pages' = [p \in Pages |-> IF p < NPages(n) THEN pages[p] ELSE "Absent"]
      /\ UNCHANGED <<disk, diskLen, backed, fileBytes>>
  BY DEF Shrink
<1>2. n \in Nat /\ bytes \in Nat
  BY ConstantsAssumption DEF Types
<1>3. FileLengthKnown' /\ FileEnds' /\ ViewsAreDirty'
  BY <1>1 DEF FileLengthKnown, FileEnds, ViewsAreDirty
<1>4. PageTableFits'
  <2> SUFFICES ASSUME NEW p \in Pages, p < NPages(n) PROVE p * PageSize < n
    BY <1>1 DEF PageTableFits
  <2> QED
    BY <1>2, PageCount DEF Pages, Cells
<1>5. \A i \in Cells : i < n => pages'[PageOf(i)] = pages[PageOf(i)] /\ mem'[i] = mem[i]
  <2> SUFFICES ASSUME NEW i \in Cells, i < n
               PROVE  pages'[PageOf(i)] = pages[PageOf(i)] /\ mem'[i] = mem[i]
    OBVIOUS
  <2>1. i \in Nat /\ PageOf(i) \in Nat /\ PageOf(i) * PageSize <= i
    BY PageBounds DEF Cells
  <2>2. PageOf(i) * PageSize \in Nat
    BY <2>1, ConstantsAssumption
  <2>3. PageOf(i) * PageSize < n
    BY <1>2, <2>1, <2>2
  <2>4. PageOf(i) < NPages(n)
    BY <1>2, <2>1, <2>3, PageCount
  <2> QED
    BY <1>1, <2>4, PageOfCell
<1>6. \A i \in Cells : Loaded(i)' => /\ Loaded(i)
                                     /\ mem'[i] = mem[i]
                                     /\ Dirty(i)' <=> Dirty(i)
  <2> SUFFICES ASSUME NEW i \in Cells, Loaded(i)'
               PROVE  Loaded(i) /\ mem'[i] = mem[i] /\ (Dirty(i)' <=> Dirty(i))
    OBVIOUS
  <2>1. i \in Nat /\ i < n /\ i < bytes
    BY <1>1, <1>2 DEF Loaded, Cells
  <2> QED
    BY <1>1, <1>5, <2>1 DEF Loaded, Dirty
<1>7. NothingUninitialised'
  BY <1>1, <1>6 DEF NothingUninitialised
<1>8. CleanPagesMatchFile'
  BY <1>1, <1>6 DEF CleanPagesMatchFile, FileAt
<1> QED
  BY <1>3, <1>4, <1>7, <1>8 DEF ContentInv

\* The completion of the last page is all that a growing buffer must read.
LEMMA CompletionIsEnough ==
    ASSUME SoundInv, NEW n \in 0 .. MaxSize, bytes < n,
           NEW i \in Cells, bytes <= i, i < n, pages[PageOf(i)] # "Absent"
    PROVE  i \in Completion(n)
<1> DEFINE p == PageOf(i)
<1>1. /\ i \in Nat /\ bytes \in Nat /\ p \in Pages /\ p \in Nat
      /\ p * PageSize < bytes
      /\ i < p * PageSize + PageSize
  <2>1. i \in Nat /\ bytes \in Nat
    BY ConstantsAssumption DEF SoundInv, Types, Cells
  <2>2. p \in Pages
    BY PageOfCell
  <2>3. p \in Nat /\ i < p * PageSize + PageSize
    BY <2>1, PageBounds
  <2>4. p * PageSize < bytes
    BY <2>2 DEF SoundInv, PageTableFits
  <2> QED
    BY <2>1, <2>2, <2>3, <2>4
<1>2. p * PageSize \in Nat /\ PageSize \in Nat
  BY <1>1, ConstantsAssumption
<1>3. bytes < p * PageSize + PageSize /\ p * PageSize <= bytes
  BY <1>1, <1>2
<1>4. PageOf(bytes) = p
  BY <1>1, <1>3, SamePage
<1>5. bytes % PageSize # 0
  BY <1>1, <1>2, <1>4, PageStart
<1> QED
  BY <1>4, <1>5 DEF Completion

LEMMA GrowPreserves ==
    ASSUME SoundInv, NEW n \in 0 .. MaxSize, Grow(n)
    PROVE  ContentInv'
<1> USE DEF SoundInv
<1>1. /\ bytes < n /\ bytes' = n /\ views' = {}
      /\ mem' = [i \in Cells |-> IF i \in Completion(n) THEN FileAt(i) ELSE mem[i]]
      /\ UNCHANGED <<disk, diskLen, backed, fileBytes, pages>>
  BY DEF Grow
<1>2. n \in Nat /\ bytes \in Nat
  BY ConstantsAssumption DEF Types
<1>3. FileLengthKnown' /\ FileEnds' /\ ViewsAreDirty'
  BY <1>1 DEF FileLengthKnown, FileEnds, ViewsAreDirty
<1>4. PageTableFits'
  <2> SUFFICES ASSUME NEW p \in Pages, p * PageSize < bytes PROVE p * PageSize < n
    BY <1>1 DEF PageTableFits
  <2>1. p * PageSize \in Nat
    BY ConstantsAssumption DEF Pages, Cells
  <2> QED
    BY <1>1, <1>2, <2>1
<1>5. \A i \in Cells : Loaded(i)' =>
         IF i < bytes THEN Loaded(i) /\ mem'[i] = mem[i] /\ (Dirty(i) => Dirty(i)')
                      ELSE mem'[i] = FileAt(i)
  <2> SUFFICES ASSUME NEW i \in Cells, Loaded(i)'
               PROVE  IF i < bytes
                      THEN Loaded(i) /\ mem'[i] = mem[i] /\ (Dirty(i) => Dirty(i)')
                      ELSE mem'[i] = FileAt(i)
    OBVIOUS
  <2>1. i \in Nat /\ i < n /\ pages[PageOf(i)] # "Absent"
    BY <1>1, <1>2 DEF Loaded, Cells
  <2>2. CASE i < bytes
    <3>1. i \notin Completion(n)
      BY <1>2, <2>1, <2>2 DEF Completion
    <3> QED
      BY <1>1, <2>1, <2>2, <3>1 DEF Loaded, Dirty
  <2>3. CASE ~(i < bytes)
    <3>1. bytes <= i
      BY <1>2, <2>1, <2>3
    <3>2. i \in Completion(n)
      BY <1>1, <2>1, <3>1, CompletionIsEnough
    <3> QED
      BY <1>1, <2>3, <3>2
  <2> QED
    BY <2>2, <2>3
<1>6. NothingUninitialised'
  BY <1>1, <1>5, FileAtInitialised DEF NothingUninitialised
<1>7. CleanPagesMatchFile'
  BY <1>1, <1>5 DEF CleanPagesMatchFile, FileAt
<1> QED
  BY <1>3, <1>4, <1>6, <1>7 DEF ContentInv

---------------------------------------------------------------------------
(* The inductive invariant                                                   *)

LEMMA ContentStep ==
    ASSUME SoundInv, [Next]_vars, ~torn', KeepViews = FALSE
    PROVE  ContentInv'
<1> USE DEF SoundInv
<1>1. CASE Dealloc
  <2>1. 0 \in 0 .. MaxSize
    BY ConstantsAssumption
  <2> QED
    BY <1>1, <2>1, FreshPreserves DEF Dealloc
<1>2. CASE Detach
  <2>1. PageTableFits' /\ ViewsAreDirty' /\ NothingUninitialised'
    BY <1>2, AllInside, FetchContent DEF Detach
  <2>2. FileLengthKnown' /\ FileEnds' /\ CleanPagesMatchFile'
    BY <1>2 DEF Detach, FileLengthKnown, FileEnds, CleanPagesMatchFile
  <2> QED
    BY <2>1, <2>2 DEF ContentInv
<1>3. CASE DetachFails
  BY <1>3, AllInside, LoadFailsPreserves DEF DetachFails
<1>4. CASE Persist
  BY <1>4, PersistPreserves
<1>5. ASSUME NEW n \in 0 .. MaxSize, InitMem(n) PROVE ContentInv'
  BY <1>5, FreshPreserves DEF InitMem
<1>6. ASSUME NEW n \in 0 .. MaxSize, NEW ro \in BOOLEAN, InitFile(n, ro)
      PROVE  ContentInv'
  BY <1>6, FreshPreserves DEF InitFile
<1>7. ASSUME NEW n \in 0 .. MaxSize, Shrink(n) PROVE ContentInv'
  BY <1>7, ShrinkPreserves
<1>8. ASSUME NEW n \in 0 .. MaxSize, Grow(n) PROVE ContentInv'
  BY <1>8, GrowPreserves
<1>9. ASSUME NEW n \in 0 .. MaxSize, GrowFails(n), torn' = TRUE PROVE ContentInv'
  BY <1>9
<1>10. ASSUME NEW n \in 0 .. MaxSize, ForeignResize(n) PROVE ContentInv'
  <2>1. \A i \in Cells : disk'[i] # Junk
    BY <1>10, ConstantsAssumption DEF ForeignResize, NothingUninitialised
  <2>2. FileEnds'
    <3> SUFFICES ASSUME NEW i \in Cells, i >= n PROVE disk'[i] = Zero
      BY <1>10 DEF FileEnds, ForeignResize
    <3>1. ~(i < n)
      BY DEF Cells
    <3> QED
      BY <1>10, <3>1 DEF ForeignResize
  <2> QED
    BY <1>10, <2>1, <2>2 DEF ForeignResize, ContentInv, FileLengthKnown,
       PageTableFits, ViewsAreDirty, CleanPagesMatchFile, NothingUninitialised,
       Loaded, Dirty
<1>11. ASSUME NEW o \in Cells, NEW l \in 1 .. MaxSize, ByteView(o, l)
       PROVE  ContentInv'
  BY <1>11, RegionInside, FetchPreserves DEF ByteView
<1>12. ASSUME NEW o \in Cells, NEW l \in 1 .. MaxSize, ViewFails(o, l)
       PROVE  ContentInv'
  BY <1>12, RegionInside, LoadFailsPreserves DEF ViewFails
<1>13. ASSUME NEW o \in Cells, NEW l \in 1 .. MaxSize, MutableByteView(o, l)
       PROVE  ContentInv'
  BY <1>13, MutableViewPreserves
<1>14. ASSUME NEW i \in Cells, NEW v \in Value, WriteThroughView(i, v)
       PROVE  ContentInv'
  <2>1. Dirty(i) /\ v # Junk
    BY <1>14, ConstantsAssumption DEF WriteThroughView, ViewsAreDirty
  <2> QED
    BY <1>14, <2>1 DEF WriteThroughView, ContentInv, FileLengthKnown, FileEnds,
       PageTableFits, ViewsAreDirty, CleanPagesMatchFile, NothingUninitialised,
       Loaded, Dirty, FileAt, Types
<1>15. ASSUME NEW i \in Cells, NEW v \in Value, ForeignWrite(i, v)
       PROVE  ContentInv'
  <2>1. i < diskLen /\ v # Junk /\ ~backed
    BY <1>15, ConstantsAssumption DEF ForeignWrite
  <2>2. FileEnds'
    BY <1>15, <2>1, ConstantsAssumption DEF ForeignWrite, FileEnds, Types, Cells
  <2>3. \A j \in Cells : disk'[j] # Junk
    BY <1>15, <2>1 DEF ForeignWrite, NothingUninitialised, Types
  <2> QED
    BY <1>15, <2>1, <2>2, <2>3 DEF ForeignWrite, ContentInv, FileLengthKnown,
       PageTableFits, ViewsAreDirty, CleanPagesMatchFile, NothingUninitialised,
       Loaded, Dirty
<1>16. ASSUME NEW ro \in BOOLEAN, SetReadOnly(ro) PROVE ContentInv'
  BY <1>16 DEF SetReadOnly, ContentInv, FileLengthKnown, FileEnds, PageTableFits,
     ViewsAreDirty, CleanPagesMatchFile, NothingUninitialised, Loaded, Dirty, FileAt
<1>17. CASE UNCHANGED vars
  BY <1>17 DEF vars, ContentInv, FileLengthKnown, FileEnds, PageTableFits,
     ViewsAreDirty, CleanPagesMatchFile, NothingUninitialised, Loaded, Dirty, FileAt
<1> QED
  BY <1>1, <1>2, <1>3, <1>4, <1>5, <1>6, <1>7, <1>8, <1>9, <1>10, <1>11, <1>12,
     <1>13, <1>14, <1>15, <1>16, <1>17 DEF Next, Calls

\* The invariant holds, whatever fails, as long as callers drop their views when
\* they persist.
THEOREM InvariantHolds ==
    ASSUME KeepViews = FALSE
    PROVE  Spec => []IndInv
<1>1. Init => ContentInv
  <2> SUFFICES ASSUME Init PROVE ContentInv
    OBVIOUS
  <2>1. \A i \in Cells : disk[i] # Junk /\ ~Loaded(i)
    <3> SUFFICES ASSUME NEW i \in Cells PROVE disk[i] # Junk /\ ~Loaded(i)
      OBVIOUS
    <3>1. disk[i] \in Value /\ pages[PageOf(i)] = "Absent"
      BY PageOfCell DEF Init
    <3> QED
      BY <3>1, ConstantsAssumption DEF Loaded
  <2> QED
    BY <2>1 DEF Init, ContentInv, FileLengthKnown, FileEnds, PageTableFits,
       ViewsAreDirty, CleanPagesMatchFile, NothingUninitialised
<1>2. TypeOK /\ CountInv /\ IndInv /\ [Next]_vars /\ ~torn' => ContentInv'
  <2> SUFFICES ASSUME TypeOK, CountInv, IndInv, [Next]_vars, ~torn' PROVE ContentInv'
    OBVIOUS
  <2>1. ~torn
    BY DEF Next, vars, TypeOK
  <2> QED
    BY <2>1, ContentStep, SoundInvParts, IndInvParts
<1>3. TypeOK /\ CountInv /\ (torn \/ ContentInv) => IndInv
  BY IndInvParts
<1> QED
  BY <1>1, <1>2, <1>3, CountInvariant, TypeCorrect, PTL DEF Spec

\* A clean page is what the file holds: persist() passes over nothing that
\* differs, whatever failed before, unless resize() has left a page torn.
THEOREM CleanPagesCorrect ==
    ASSUME KeepViews = FALSE
    PROVE  Spec => []CleanUnlessTorn
<1>1. IndInv => CleanUnlessTorn
  BY DEF IndInv, CleanUnlessTorn
<1> QED
  BY <1>1, InvariantHolds, PTL

\* Neither a view nor the file ever shows uninitialised memory, unless resize()
\* has left a page torn.
THEOREM AllInitialised ==
    ASSUME KeepViews = FALSE
    PROVE  Spec => []InitialisedUnlessTorn
<1>1. IndInv => InitialisedUnlessTorn
  BY DEF IndInv, InitialisedUnlessTorn
<1> QED
  BY <1>1, InvariantHolds, PTL

---------------------------------------------------------------------------
(* What reaches the file                                                     *)

\* The buffer keeps track of the file's length, whatever fails.
LEMMA LengthStep == CountInv /\ FileLengthKnown /\ [Next]_vars => FileLengthKnown'
<1> SUFFICES ASSUME CountInv, FileLengthKnown, [Next]_vars PROVE FileLengthKnown'
  OBVIOUS
<1> USE DEF FileLengthKnown
<1>1. CASE Dealloc
  BY <1>1 DEF Dealloc
<1>2. CASE Detach
  BY <1>2 DEF Detach
<1>3. CASE DetachFails
  BY <1>3 DEF DetachFails, LoadFails
<1>4. CASE Persist
  <2>1. \/ UNCHANGED <<diskLen, backed, fileBytes>>
        \/ \E W : GrowAndWrite(W) /\ backed' = backed /\ backed
    BY <1>4 DEF Persist, PersistOk, PersistGrowFails, PersistOpenFails,
       PersistWriteFails, PersistStuck, PersistFlushFails, MayPersist
  <2> QED
    BY <2>1 DEF GrowAndWrite, GrownLen
<1>5. ASSUME NEW n \in 0 .. MaxSize, InitMem(n) PROVE FileLengthKnown'
  BY <1>5 DEF InitMem
<1>6. ASSUME NEW n \in 0 .. MaxSize, NEW ro \in BOOLEAN, InitFile(n, ro)
      PROVE  FileLengthKnown'
  BY <1>6 DEF InitFile, Fresh
<1>7. ASSUME NEW n \in 0 .. MaxSize, Shrink(n) \/ Grow(n) \/ GrowFails(n)
      PROVE  FileLengthKnown'
  BY <1>7 DEF Shrink, Grow, GrowFails
<1>8. ASSUME NEW n \in 0 .. MaxSize, ForeignResize(n) PROVE FileLengthKnown'
  BY <1>8 DEF ForeignResize
<1>9. ASSUME NEW o \in Cells, NEW l \in 1 .. MaxSize,
             ByteView(o, l) \/ ViewFails(o, l) \/ MutableByteView(o, l)
      PROVE  FileLengthKnown'
  BY <1>9 DEF ByteView, ViewFails, LoadFails, MutableByteView
<1>10. ASSUME NEW i \in Cells, NEW v \in Value,
              WriteThroughView(i, v) \/ ForeignWrite(i, v)
       PROVE  FileLengthKnown'
  BY <1>10 DEF WriteThroughView, ForeignWrite
<1>11. ASSUME NEW ro \in BOOLEAN, SetReadOnly(ro) PROVE FileLengthKnown'
  BY <1>11 DEF SetReadOnly
<1>12. CASE UNCHANGED vars
  BY <1>12 DEF vars
<1> QED
  BY <1>1, <1>2, <1>3, <1>4, <1>5, <1>6, <1>7, <1>8, <1>9, <1>10, <1>11, <1>12 DEF Next, Calls

LEMMA LengthInvariant == Spec => []FileLengthKnown
<1>1. Init => FileLengthKnown
  BY DEF Init, FileLengthKnown
<1> QED
  BY <1>1, LengthStep, CountInvariant, PTL DEF Spec

\* What a step may do to a file the buffer has.
MayChangeFile ==
    /\ \A i \in Cells : disk'[i] # disk[i] => Dirty(i) /\ ~readOnly /\ disk'[i] = mem[i]
    /\ diskLen' # diskLen => diskLen' > diskLen /\ diskLen' = bytes /\ ~readOnly

LEMMA OnlyPersistChangesFile ==
    ASSUME Next, backed
    PROVE  UNCHANGED <<disk, diskLen>> \/ Persist
<1>1. CASE Dealloc
  BY <1>1 DEF Dealloc, Fresh
<1>2. CASE Detach
  BY <1>2 DEF Detach
<1>3. CASE DetachFails
  BY <1>3 DEF DetachFails, LoadFails
<1>4. ASSUME NEW n \in 0 .. MaxSize,
             \/ InitMem(n) \/ Shrink(n) \/ Grow(n) \/ GrowFails(n) \/ ForeignResize(n)
             \/ \E ro \in BOOLEAN : InitFile(n, ro)
      PROVE  UNCHANGED <<disk, diskLen>>
  BY <1>4 DEF InitMem, InitFile, Fresh, Shrink, Grow, GrowFails, ForeignResize
<1>5. ASSUME NEW o \in Cells, NEW l \in 1 .. MaxSize,
             ByteView(o, l) \/ ViewFails(o, l) \/ MutableByteView(o, l)
      PROVE  UNCHANGED <<disk, diskLen>>
  BY <1>5 DEF ByteView, ViewFails, LoadFails, MutableByteView
<1>6. ASSUME NEW i \in Cells, NEW v \in Value,
             WriteThroughView(i, v) \/ ForeignWrite(i, v)
      PROVE  UNCHANGED <<disk, diskLen>>
  BY <1>6 DEF WriteThroughView, ForeignWrite
<1>7. ASSUME NEW ro \in BOOLEAN, SetReadOnly(ro) PROVE UNCHANGED <<disk, diskLen>>
  BY <1>7 DEF SetReadOnly
<1> QED
  BY <1>1, <1>2, <1>3, <1>4, <1>5, <1>6, <1>7 DEF Next, Calls

LEMMA PersistChangesModified ==
    ASSUME Types, FileLengthKnown, Persist
    PROVE  MayChangeFile
<1>1. MayPersist
  BY DEF Persist, PersistOk, PersistGrowFails, PersistOpenFails, PersistWriteFails,
     PersistStuck, PersistFlushFails
<1>2. ~readOnly /\ fileBytes = diskLen
  BY <1>1 DEF MayPersist, FileLengthKnown
<1>3. \/ UNCHANGED <<disk, diskLen>>
      \/ \E W \in SUBSET DirtyCells : GrowAndWrite(W)
  BY DEF Persist, PersistOk, PersistGrowFails, PersistOpenFails, PersistWriteFails,
     PersistStuck, PersistFlushFails
<1>4. ASSUME NEW W \in SUBSET DirtyCells, GrowAndWrite(W) PROVE MayChangeFile
  <2>1. \A i \in W : Dirty(i)
    BY DEF DirtyCells
  <2>2. \A i \in Cells : disk'[i] # disk[i] => Dirty(i) /\ disk'[i] = mem[i]
    BY <1>4, <2>1 DEF GrowAndWrite
  <2>3. diskLen' # diskLen => diskLen' > diskLen /\ diskLen' = bytes
    BY <1>2, <1>4 DEF GrowAndWrite, Types
  <2> QED
    BY <1>2, <2>2, <2>3 DEF MayChangeFile
<1> QED
  BY <1>3, <1>4 DEF MayChangeFile

\* The file changes in modified pages only, never under readOnly, and is never
\* cut, whatever fails and however callers use their views.
THEOREM OnlyModifiedReachesFile == Spec => OnlyModifiedWritten
<1>1. Types /\ FileLengthKnown /\ [Next]_vars => [backed => MayChangeFile]_vars
  BY OnlyPersistChangesFile, PersistChangesModified DEF MayChangeFile
<1>2. TypeOK => Types
  BY DEF TypeOK
<1> QED
  BY <1>1, <1>2, TypeCorrect, LengthInvariant, PTL DEF Spec, OnlyModifiedWritten, MayChangeFile

---------------------------------------------------------------------------
(* The buffer looks like the image of a file                                 *)

\* The image as the user sees it: the value of the refinement mapping.
View == [i \in Cells |-> Content(i)]

imageVars == <<View, bytes, DirtySet, backed, readOnly, disk, diskLen>>

LEMMA SameNames == /\ Image!Cells = Cells
                   /\ \A i \in Cells : Image!PageOf(i) = PageOf(i)
BY DEF Image!Cells, Cells, Image!PageOf, PageOf

LEMMA ImageModifiedCells == ASSUME Types PROVE Image!ModifiedCells = DirtyCells
BY SameNames, PageOfCell DEF Image!ModifiedCells, DirtyCells, Dirty, DirtySet, Types

\* Loading does not change what the user sees.
LEMMA FetchInvisible ==
    ASSUME Types, NEW R, NEW P \in SUBSET Absent(R),
           mem' = FetchedMem(P), pages' = FetchedPages(P),
           UNCHANGED <<disk, fileBytes, bytes>>
    PROVE  View' = View /\ DirtySet' = DirtySet
<1>1. \A i \in Cells : Content(i)' = Content(i)
  <2> SUFFICES ASSUME NEW i \in Cells PROVE Content(i)' = Content(i)
    OBVIOUS
  <2>1. PageOf(i) \in Pages /\ FileAt(i)' = FileAt(i)
    BY PageOfCell DEF FileAt
  <2>2. PageOf(i) \in P => pages[PageOf(i)] = "Absent"
    BY DEF Absent
  <2> QED
    BY <2>1, <2>2 DEF Content, FetchedMem, FetchedPages, Types
<1>2. View' = View
  BY <1>1 DEF View
<1>3. DirtySet' = DirtySet
  BY FetchedTypes DEF DirtySet
<1> QED
  BY <1>2, <1>3

LEMMA LoadFailsInvisible ==
    ASSUME Types, NEW R, LoadFails(R)
    PROVE  UNCHANGED imageVars
<1>1. PICK f \in Absent(R) : /\ mem' = FetchedMem(FetchedBefore(R, f))
                             /\ pages' = FetchedPages(FetchedBefore(R, f))
  BY DEF LoadFails
<1>2. FetchedBefore(R, f) \in SUBSET Absent(R)
  BY DEF FetchedBefore
<1>3. View' = View /\ DirtySet' = DirtySet
  BY <1>1, <1>2, FetchInvisible DEF LoadFails
<1> QED
  BY <1>3 DEF LoadFails, imageVars

\* A fresh buffer shows what the file holds, or zeroes.
LEMMA FreshView ==
    ASSUME NEW n \in 0 .. MaxSize, Fresh(n), fileBytes' \in 0 .. MaxSize
    PROVE  /\ View' = [i \in Cells |-> IF i >= n THEN Junk
                                       ELSE IF i < fileBytes' THEN disk[i] ELSE Zero]
           /\ DirtySet' = {}
           /\ UNCHANGED <<disk, diskLen>>
<1>1. \A i \in Cells : pages'[PageOf(i)] = "Absent" /\ i \in Nat /\ n \in Nat
  BY PageOfCell DEF Fresh, Cells
<1>2. \A i \in Cells : Content(i)' = IF i >= n THEN Junk
                                     ELSE IF i < fileBytes' THEN disk[i] ELSE Zero
  BY <1>1 DEF Fresh, Content, FileAt
<1>3. DirtySet' = {} /\ UNCHANGED <<disk, diskLen>>
  BY DEF Fresh, DirtySet
<1> QED
  BY <1>2, <1>3 DEF View

LEMMA CreateStep ==
    ASSUME NEW n \in 0 .. MaxSize, Fresh(n), fileBytes' = 0,
           backed' = FALSE, readOnly' = FALSE
    PROVE  Image!Create(n)
<1>1. \A i \in Cells : ~(i < 0) /\ (i >= n <=> ~(i < n))
  BY DEF Cells
<1>2. 0 \in 0 .. MaxSize
  BY ConstantsAssumption
<1>3. View' = [i \in Cells |-> IF i < n THEN Zero ELSE Junk]
  BY <1>1, <1>2, FreshView
<1> QED
  BY <1>2, <1>3, FreshView, SameNames DEF Image!Create, Fresh, View

LEMMA OpenStep ==
    ASSUME Types, NEW n \in 0 .. MaxSize, NEW ro \in BOOLEAN, InitFile(n, ro)
    PROVE  Image!Open(n, ro)
<1>1. fileBytes' = diskLen /\ diskLen \in 0 .. MaxSize
  BY DEF InitFile, Types
<1>2. View' = [i \in Cells |-> IF i >= n THEN Junk
                               ELSE IF i < diskLen THEN disk[i] ELSE Zero]
  BY <1>1, FreshView DEF InitFile
<1> QED
  BY <1>1, <1>2, FreshView, SameNames DEF Image!Open, InitFile, Fresh, View

LEMMA ImageFileByte ==
    ASSUME FileLengthKnown, Types
    PROVE  \A i \in Cells : Image!FileByte(i) = FileAt(i)
<1> SUFFICES ASSUME NEW i \in Cells PROVE Image!FileByte(i) = FileAt(i)
  OBVIOUS
<1>1. CASE backed
  BY <1>1 DEF Image!FileByte, FileAt, FileLengthKnown
<1>2. CASE ~backed
  BY <1>2 DEF Image!FileByte, FileAt, FileLengthKnown, Cells
<1> QED
  BY <1>1, <1>2

LEMMA ShrinkStep ==
    ASSUME SoundInv, NEW n \in 0 .. MaxSize, Shrink(n)
    PROVE  Image!Resize(n)
<1> USE DEF SoundInv
<1>1. /\ n < bytes /\ bytes' = n
      /\ mem' = [i \in Cells |-> IF i < n THEN mem[i] ELSE Junk]
      /\ pages' = [p \in Pages |-> IF p < NPages(n) THEN pages[p] ELSE "Absent"]
      /\ UNCHANGED <<disk, diskLen, backed, fileBytes, readOnly>>
      /\ n \in Nat /\ bytes \in Nat
  BY ConstantsAssumption DEF Shrink, Types
<1>2. \A i \in Cells : i \in Nat /\ (i < n => PageOf(i) < NPages(n))
  <2> SUFFICES ASSUME NEW i \in Cells, i < n PROVE PageOf(i) < NPages(n)
    BY DEF Cells
  <2>1. i \in Nat /\ PageOf(i) \in Nat /\ PageOf(i) * PageSize <= i
    BY PageBounds DEF Cells
  <2>2. PageOf(i) * PageSize \in Nat
    BY <2>1, ConstantsAssumption
  <2> QED
    BY <1>1, <2>1, <2>2, PageCount
<1>3. \A i \in Cells : Content(i)' = IF i >= n THEN Junk
                                     ELSE IF i < bytes THEN Content(i) ELSE FileAt(i)
  BY <1>1, <1>2, PageOfCell DEF Content, FileAt
<1>4. View' = [i \in Cells |-> IF i >= n THEN Junk
                               ELSE IF i < bytes THEN View[i] ELSE Image!FileByte(i)]
  BY <1>3, ImageFileByte DEF View
<1>5. DirtySet' = {p \in DirtySet : p * PageSize < n}
  <2>1. \A p \in Pages : p < NPages(n) <=> p * PageSize < n
    BY <1>1, PageCount DEF Pages, Cells
  <2> QED
    BY <1>1, <2>1 DEF DirtySet
<1> QED
  BY <1>1, <1>4, <1>5, SameNames DEF Image!Resize, View

LEMMA GrowStep ==
    ASSUME SoundInv, NEW n \in 0 .. MaxSize, Grow(n)
    PROVE  Image!Resize(n)
<1> USE DEF SoundInv
<1>1. /\ bytes < n /\ bytes' = n
      /\ mem' = [i \in Cells |-> IF i \in Completion(n) THEN FileAt(i) ELSE mem[i]]
      /\ UNCHANGED <<disk, diskLen, backed, fileBytes, pages, readOnly>>
      /\ n \in Nat /\ bytes \in Nat
  BY ConstantsAssumption DEF Grow, Types
<1>2. ASSUME NEW i \in Cells
      PROVE  Content(i)' = IF i >= n THEN Junk
                           ELSE IF i < bytes THEN Content(i) ELSE FileAt(i)
  <2>1. i \in Nat /\ FileAt(i)' = FileAt(i)
    BY <1>1 DEF Cells, FileAt
  <2>2. CASE i < bytes
    <3>1. i \notin Completion(n)
      BY <1>1, <2>1, <2>2 DEF Completion
    <3> QED
      BY <1>1, <2>1, <2>2, <3>1 DEF Content
  <2>3. CASE i >= bytes /\ i < n
    <3>1. pages[PageOf(i)] # "Absent" => i \in Completion(n)
      BY <1>1, <2>3, CompletionIsEnough
    <3> QED
      BY <1>1, <2>1, <2>3, <3>1 DEF Content
  <2>4. CASE i >= n
    BY <1>1, <2>1, <2>4 DEF Content
  <2> QED
    BY <1>1, <2>1, <2>2, <2>3, <2>4
<1>3. View' = [i \in Cells |-> IF i >= n THEN Junk
                               ELSE IF i < bytes THEN View[i] ELSE Image!FileByte(i)]
  BY <1>2, ImageFileByte DEF View
<1>4. DirtySet' = {p \in DirtySet : p * PageSize < n}
  <2>1. \A p \in DirtySet : p * PageSize < n
    <3> SUFFICES ASSUME NEW p \in DirtySet PROVE p * PageSize < n
      OBVIOUS
    <3>1. p * PageSize < bytes /\ p \in Nat
      BY DEF PageTableFits, DirtySet, Pages, Cells
    <3>2. p * PageSize \in Nat
      BY <3>1, ConstantsAssumption
    <3> QED
      BY <1>1, <3>1, <3>2
  <2> QED
    BY <1>1, <2>1 DEF DirtySet
<1> QED
  BY <1>1, <1>3, <1>4, SameNames DEF Image!Resize, View

LEMMA TouchStep ==
    ASSUME SoundInv, NEW o \in Cells, NEW l \in 1 .. MaxSize, MutableByteView(o, l)
    PROVE  Image!Touch(PagesOf(o, l)) /\ PagesOf(o, l) \in
              SUBSET {Image!PageOf(i) : i \in {c \in Image!Cells : c < bytes}}
<1> DEFINE R == PagesOf(o, l)
<1> USE DEF SoundInv
<1>1. /\ mem' = FetchedMem(Absent(R))
      /\ pages' = [p \in Pages |-> IF p \in R THEN "Dirty" ELSE pages[p]]
      /\ UNCHANGED <<disk, diskLen, backed, fileBytes, bytes, readOnly>>
      /\ R \subseteq Pages
  BY DEF MutableByteView, PagesOf
<1>2. ASSUME NEW i \in Cells PROVE Content(i)' = Content(i)
  <2>1. PageOf(i) \in Pages /\ FileAt(i)' = FileAt(i)
    BY <1>1, PageOfCell DEF FileAt
  <2> QED
    BY <1>1, <2>1 DEF Content, FetchedMem, Absent, Types
<1>3. View' = View
  BY <1>2 DEF View
<1>4. DirtySet' = DirtySet \cup R
  BY <1>1 DEF DirtySet, Types
<1>5. ASSUME NEW p \in R
      PROVE  \E i \in {c \in Image!Cells : c < bytes} : p = Image!PageOf(i)
  <2>1. p \in Nat /\ p * PageSize < bytes /\ bytes \in Nat /\ bytes <= MaxSize
    BY <1>1, RegionInside, ConstantsAssumption
    DEF InsideBuffer, MutableByteView, Types, Pages, Cells
  <2>2. p * PageSize \in Nat
    BY <2>1, ConstantsAssumption
  <2>3. p * PageSize \in Cells
    BY <2>1, <2>2, ConstantsAssumption DEF Cells
  <2>4. PageOf(p * PageSize) = p
    BY <2>1, <2>2, SamePage, ConstantsAssumption
  <2> QED
    BY <2>1, <2>3, <2>4, SameNames
<1> QED
  BY <1>1, <1>3, <1>4, <1>5 DEF Image!Touch, View

LEMMA WriteStep ==
    ASSUME SoundInv, NEW i \in Cells, NEW v \in Value, WriteThroughView(i, v)
    PROVE  Image!Write(i, v)
<1> USE DEF SoundInv
<1>1. Dirty(i) /\ PageOf(i) \in Pages
  BY PageOfCell DEF WriteThroughView, ViewsAreDirty
<1>2. \A j \in Cells : Content(j)' = IF j = i THEN v ELSE Content(j)
  BY <1>1 DEF WriteThroughView, Content, FileAt, Dirty, Types
<1>3. View' = [View EXCEPT ![i] = v]
  BY <1>2 DEF View
<1>4. DirtySet' = DirtySet /\ PageOf(i) \in DirtySet /\ i < bytes
  BY <1>1 DEF WriteThroughView, DirtySet, Dirty
<1> QED
  BY <1>3, <1>4, SameNames DEF WriteThroughView, Image!Write, View

\* Once all is loaded, the file is no longer needed.
LEMMA DetachStep ==
    ASSUME SoundInv, Detach
    PROVE  Image!Detach
<1> USE DEF SoundInv
<1>1. /\ mem' = FetchedMem(Absent(All)) /\ pages' = FetchedPages(Absent(All))
      /\ bytes' = bytes
  BY DEF Detach
<1>2. ASSUME NEW i \in Cells PROVE Content(i)' = Content(i)
  <2>1. PageOf(i) \in Pages
    BY PageOfCell
  <2>2. CASE i < bytes
    <3>0. i \in Nat /\ bytes \in Nat
      BY ConstantsAssumption DEF Cells, Types
    <3>1. PageOf(i) \in Nat /\ PageOf(i) * PageSize <= i
      BY <3>0, PageBounds
    <3>2. PageOf(i) * PageSize < bytes
      BY <2>2, <3>0, <3>1, ConstantsAssumption
    <3>3. PageOf(i) \in All
      BY <2>1, <3>0, <3>1, <3>2, PageCount DEF All
    <3> QED
      BY <1>1, <2>1, <2>2, <3>3 DEF Content, FetchedMem, FetchedPages, Absent, Types
  <2>3. CASE ~(i < bytes)
    BY <1>1, <2>3 DEF Content
  <2> QED
    BY <2>2, <2>3
<1>3. View' = View
  BY <1>2 DEF View
<1>4. DirtySet' = DirtySet
  BY <1>1, FetchedTypes DEF DirtySet
<1> QED
  BY <1>3, <1>4 DEF Detach, Image!Detach, View

\* What has reached the file after growFile() and the writing of W.
LEMMA ReceiveStep ==
    ASSUME SoundInv, MayPersist, NEW W \in SUBSET DirtyCells, GrowAndWrite(W),
           backed' = backed, mem' = mem
    PROVE  /\ Image!MaySave
           /\ Image!Receive(W, Image!GrownLen)
<1> USE DEF SoundInv
<1>1. backed /\ ~readOnly /\ dirtyPages > 0 /\ fileBytes = diskLen
  BY DEF MayPersist, FileLengthKnown
<1>2. DirtySet # {}
  BY <1>1, FS_EmptySet DEF DirtyCountExact
<1>3. \A i \in W : i \in Cells /\ View[i] = mem[i]
  BY DEF DirtyCells, Dirty, View, Content
<1>4. disk' = [i \in Cells |-> IF i \in W THEN View[i] ELSE disk[i]]
  BY <1>3 DEF GrowAndWrite
<1>5. diskLen' = Image!GrownLen
  BY <1>1 DEF GrowAndWrite, Image!GrownLen, Types
<1> QED
  BY <1>1, <1>2, <1>4, <1>5, SameNames DEF Image!MaySave, Image!Receive, View

\* Writing to the file does not change what the user sees.
LEMMA WriteInvisible ==
    ASSUME SoundInv, MayPersist, NEW W \in SUBSET DirtyCells, GrowAndWrite(W),
           UNCHANGED <<backed, mem, bytes>>,
           \A p \in Pages : pages'[p] = "Absent" <=> pages[p] = "Absent"
    PROVE  View' = View
<1>1. \A i \in Cells : i \notin W => FileAt(i)' = FileAt(i)
  BY WritePreserves
<1>2. \A i \in W : pages[PageOf(i)] # "Absent"
  BY DEF DirtyCells, Dirty
<1>3. \A i \in Cells : Content(i)' = Content(i)
  BY <1>1, <1>2, PageOfCell DEF Content
<1> QED
  BY <1>3 DEF View

LEMMA SaveStep ==
    ASSUME SoundInv, PersistOk
    PROVE  Image!Save
<1>1. /\ MayPersist /\ GrowAndWrite(DirtyCells)
      /\ UNCHANGED <<backed, mem, bytes, readOnly>>
      /\ pages' = [p \in Pages |-> IF pages[p] = "Dirty" THEN "Clean" ELSE pages[p]]
  BY DEF PersistOk, Persisted
<1>2. View' = View
  BY <1>1, WriteInvisible DEF SoundInv, Types
<1>3. DirtySet' = {}
  BY <1>1 DEF DirtySet
<1>4. Image!MaySave /\ Image!Receive(Image!ModifiedCells, Image!GrownLen)
  BY <1>1, ReceiveStep, ImageModifiedCells DEF SoundInv
<1> QED
  BY <1>1, <1>2, <1>3, <1>4 DEF Image!Save, View

LEMMA SaveFailsStep ==
    ASSUME SoundInv, MayPersist, NEW W \in SUBSET DirtyCells, GrowAndWrite(W),
           UNCHANGED <<backed, mem, bytes, pages, readOnly>>
    PROVE  Image!SaveFails
<1>1. View' = View
  BY WriteInvisible
<1>2. DirtySet' = DirtySet
  BY DEF DirtySet
<1>3. Image!MaySave /\ Image!Receive(W, Image!GrownLen) /\ W \in SUBSET Image!ModifiedCells
  BY ReceiveStep, ImageModifiedCells DEF SoundInv
<1> QED
  BY <1>1, <1>2, <1>3 DEF Image!SaveFails, View

LEMMA PersistStep ==
    ASSUME SoundInv, Persist
    PROVE  Image!Save \/ Image!SaveFails
<1>1. CASE PersistOk
  BY <1>1, SaveStep
<1>2. CASE PersistGrowFails
  <2>1. backed /\ ~readOnly /\ DirtySet # {}
    BY <1>2, FS_EmptySet DEF PersistGrowFails, MayPersist, SoundInv, DirtyCountExact
  <2>2. disk = [i \in Cells |-> disk[i]]
    BY DEF SoundInv, Types
  <2>3. Image!MaySave /\ Image!Receive({}, diskLen)
    BY <1>2, <2>1, <2>2, SameNames DEF PersistGrowFails, Image!MaySave, Image!Receive
  <2>4. View' = View /\ DirtySet' = DirtySet
    BY <1>2 DEF PersistGrowFails, View, Content, FileAt, DirtySet
  <2> QED
    BY <1>2, <2>3, <2>4 DEF PersistGrowFails, Image!SaveFails, View
<1>3. CASE PersistOpenFails
  BY <1>3, SaveFailsStep DEF PersistOpenFails
<1>4. CASE PersistWriteFails
  BY <1>4, SaveFailsStep DEF PersistWriteFails
<1>5. CASE PersistStuck
  BY <1>5, SaveFailsStep DEF PersistStuck
<1>6. CASE PersistFlushFails
  BY <1>6, SaveFailsStep DEF PersistFlushFails
<1> QED
  BY <1>1, <1>2, <1>3, <1>4, <1>5, <1>6 DEF Persist

\* Others may do what they like with a file the buffer does not have.
LEMMA ForeignStep ==
    ASSUME SoundInv, SoundInv', ~backed,
           diskLen' \in 0 .. MaxSize,
           UNCHANGED <<backed, fileBytes, mem, bytes, pages, readOnly>>
    PROVE  Image!Foreign
<1>1. disk' \in [Cells -> Value]
  BY DEF SoundInv, Types, NothingUninitialised
<1>2. View' = View /\ DirtySet' = DirtySet
  <2>1. fileBytes = 0
    BY DEF SoundInv, FileLengthKnown
  <2>2. \A i \in Cells : FileAt(i)' = FileAt(i)
    BY <2>1 DEF FileAt, Cells
  <2>3. \A i \in Cells : Content(i)' = Content(i)
    BY <2>2 DEF Content
  <2> QED
    BY <2>3 DEF View, DirtySet
<1> QED
  BY <1>1, <1>2, SameNames DEF Image!Foreign, View

LEMMA ImageStep ==
    ASSUME SoundInv, SoundInv', [Next]_vars, ~torn'
    PROVE  [Image!Next]_imageVars
<1> USE DEF SoundInv
<1>1. CASE Dealloc
  <2>1. 0 \in 0 .. MaxSize
    BY ConstantsAssumption
  <2> QED
    BY <1>1, <2>1, CreateStep DEF Dealloc, Image!Next
<1>2. CASE Detach
  BY <1>2, DetachStep DEF Image!Next
<1>3. CASE DetachFails
  BY <1>3, LoadFailsInvisible DEF DetachFails
<1>4. CASE Persist
  BY <1>4, PersistStep DEF Image!Next
<1>5. ASSUME NEW n \in 0 .. MaxSize, InitMem(n) PROVE Image!Next
  BY <1>5, CreateStep DEF InitMem, Image!Next
<1>6. ASSUME NEW n \in 0 .. MaxSize, NEW ro \in BOOLEAN, InitFile(n, ro)
      PROVE  Image!Next
  BY <1>6, OpenStep DEF Image!Next
<1>7. ASSUME NEW n \in 0 .. MaxSize, Shrink(n) PROVE Image!Next
  BY <1>7, ShrinkStep DEF Image!Next
<1>8. ASSUME NEW n \in 0 .. MaxSize, Grow(n) PROVE Image!Next
  BY <1>8, GrowStep DEF Image!Next
<1>9. ASSUME NEW n \in 0 .. MaxSize, GrowFails(n), torn' = TRUE PROVE FALSE
  BY <1>9
<1>10. ASSUME NEW n \in 0 .. MaxSize, ForeignResize(n) PROVE Image!Next
  BY <1>10, ForeignStep DEF ForeignResize, Image!Next
<1>11. ASSUME NEW o \in Cells, NEW l \in 1 .. MaxSize, ByteView(o, l)
       PROVE  UNCHANGED imageVars
  <2>1. View' = View /\ DirtySet' = DirtySet
    BY <1>11, FetchInvisible DEF ByteView
  <2> QED
    BY <1>11, <2>1 DEF ByteView, imageVars
<1>12. ASSUME NEW o \in Cells, NEW l \in 1 .. MaxSize, ViewFails(o, l)
       PROVE  UNCHANGED imageVars
  BY <1>12, LoadFailsInvisible DEF ViewFails
<1>13. ASSUME NEW o \in Cells, NEW l \in 1 .. MaxSize, MutableByteView(o, l)
       PROVE  Image!Next
  BY <1>13, TouchStep DEF Image!Next
<1>14. ASSUME NEW i \in Cells, NEW v \in Value, WriteThroughView(i, v)
       PROVE  Image!Next
  BY <1>14, WriteStep, SameNames DEF Image!Next
<1>15. ASSUME NEW i \in Cells, NEW v \in Value, ForeignWrite(i, v)
       PROVE  Image!Next
  BY <1>15, ForeignStep DEF ForeignWrite, Types, Image!Next
<1>16. ASSUME NEW ro \in BOOLEAN, SetReadOnly(ro) PROVE Image!Next
  <2>1. View' = View /\ DirtySet' = DirtySet
    BY <1>16 DEF SetReadOnly, View, Content, FileAt, DirtySet
  <2> QED
    BY <1>16, <2>1 DEF SetReadOnly, Image!SetReadOnly, Image!Next, View
<1>17. CASE UNCHANGED vars
  BY <1>17 DEF vars, imageVars, View, Content, FileAt, DirtySet
<1> QED
  BY <1>1, <1>2, <1>3, <1>4, <1>5, <1>6, <1>7, <1>8, <1>9, <1>10, <1>11, <1>12,
     <1>13, <1>14, <1>15, <1>16, <1>17 DEF Next, Calls

\* To its user the buffer is the image of a file read up front: lazy loading,
\* partial pages and failures on the way do not show, until resize() fails.
THEOREM BufferIsImage ==
    ASSUME KeepViews = FALSE
    PROVE  Spec => LooksLikeImage
<1>1. Init => Image!Init
  <2> SUFFICES ASSUME Init PROVE Image!Init
    OBVIOUS
  <2>1. View = [i \in Cells |-> Junk] /\ DirtySet = {}
    BY DEF Init, View, Content, DirtySet, Cells
  <2> QED
    BY <2>1, SameNames DEF Init, Image!Init, View
<1>2. IndInv /\ IndInv' /\ [Next]_vars => [~torn' => Image!Next]_(Image!vars)
  <2> SUFFICES ASSUME IndInv, IndInv', [Next]_vars, ~torn'
               PROVE  [Image!Next]_(Image!vars)
    OBVIOUS
  <2>1. ~torn
    BY DEF IndInv, TypeOK, Next, vars
  <2>2. SoundInv
    BY <2>1 DEF IndInv, SoundInv, TypeOK
  <2>3. SoundInv'
    BY DEF IndInv, SoundInv, TypeOK
  <2> QED
    BY <2>2, <2>3, ImageStep DEF imageVars, Image!vars, View
<1> QED
  BY <1>1, <1>2, InvariantHolds, PTL DEF Spec, LooksLikeImage
============================================================================
