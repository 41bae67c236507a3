------------------------ MODULE StorageFiles_proofs ------------------------
(* Proofs about the parts of storage and io that keep files: ZipArchive,     *)
(* TempFile and Mirror, for every number of objects, entries, handles, names *)
(* and attempts, and for every tree of directories.                          *)
(*                                                                           *)
(* Each part is proved about on its own, from its own specification, which   *)
(* the first section derives from that of the composition.  The last section *)
(* has what follows for the composition.                                     *)
EXTENDS Storage, TLAPS

---------------------------------------------------------------------------
(* The parts                                                                 *)

\* A step of the composition is a step of one part, and leaves the others.
LEMMA PartSteps ==
    [Next]_vars => /\ [Buf!Next]_(Buf!vars) /\ [Zip!Next]_(Zip!vars)
                   /\ [Temp!Next]_(Temp!vars) /\ [Mirr!Next]_(Mirr!vars)
                   /\ [Sort!Next]_(Sort!vars) /\ [Ring!Next]_(Ring!vars)
                   /\ [Run!Next]_(Run!vars) /\ [Bits!Next]_(Bits!vars)
<1> USE DEF vars, bufVars, zipVars, tempVars, mirrVars, sortVars, ringVars, runVars, bitsVars
<1> SUFFICES ASSUME [Next]_vars
             PROVE  /\ [Buf!Next]_(Buf!vars) /\ [Zip!Next]_(Zip!vars)
                    /\ [Temp!Next]_(Temp!vars) /\ [Mirr!Next]_(Mirr!vars)
                    /\ [Sort!Next]_(Sort!vars) /\ [Ring!Next]_(Ring!vars)
                    /\ [Run!Next]_(Run!vars) /\ [Bits!Next]_(Bits!vars)
  OBVIOUS
<1>1. [Buf!Next]_(Buf!vars)
  BY DEF Next, Buf!vars
<1>2. [Zip!Next]_(Zip!vars)
  BY DEF Next, Zip!vars
<1>3. [Temp!Next]_(Temp!vars)
  BY DEF Next, Temp!vars
<1>4. [Mirr!Next]_(Mirr!vars)
  BY DEF Next, Mirr!vars
<1>5. [Sort!Next]_(Sort!vars)
  BY DEF Next, Sort!vars
<1>6. [Ring!Next]_(Ring!vars)
  BY DEF Next, Ring!vars
<1>7. [Run!Next]_(Run!vars)
  BY DEF Next, Run!vars
<1>8. [Bits!Next]_(Bits!vars)
  BY DEF Next, Bits!vars
<1> QED
  BY <1>1, <1>2, <1>3, <1>4, <1>5, <1>6, <1>7, <1>8

\* Next to each other the parts behave as each does alone: they share no state,
\* so that what is proved of one holds wherever it is used.
THEOREM PartsAsAlone ==
    Spec => /\ Buf!Spec /\ Zip!Spec /\ Temp!Spec /\ Mirr!Spec
            /\ Sort!Spec /\ Ring!Spec /\ Run!Spec /\ Bits!Spec
<1>1. Init => /\ Buf!Init /\ Zip!Init /\ Temp!Init /\ Mirr!Init
              /\ Sort!Init /\ Ring!Init /\ Run!Init /\ Bits!Init
  BY DEF Init
<1> QED
  BY <1>1, PartSteps, PTL DEF Spec, Buf!Spec, Zip!Spec, Temp!Spec, Mirr!Spec, Sort!Spec,
     Ring!Spec, Run!Spec, Bits!Spec

---------------------------------------------------------------------------
(* The constants                                                             *)

LEMMA ZipFacts == Null \notin Handle /\ Null \notin Nat /\ MaxTmp \in Nat
BY ZipAssumption DEF Zip!ZipConstants

LEMMA TempFileFacts == Null \notin Name /\ Attempts \in Nat
BY TempFileAssumption DEF Temp!TempFileConstants

LEMMA MirrorFacts == /\ Root \notin Path
                     /\ Parent \in [Path -> Path \cup {Root}]
                     /\ Size \in [Data \cup {Old, Partial} -> Nat]
                     /\ \A d \in Data : Size[Partial] < Size[d]
                     /\ MaxTime \in Nat
BY MirrorAssumption DEF Mirr!MirrorConstants

---------------------------------------------------------------------------
(* ZipArchive: types                                                         *)

Opened == [mode : {"r", "w", "a"}, at : Zip!Paths, has : SUBSET Entry]

LEMMA WithoutTypes ==
    ASSUME Zip!TypeOK, NEW h
    PROVE  /\ DOMAIN Zip!Without(h) = DOMAIN opened \ {h}
           /\ \A k \in DOMAIN Zip!Without(h) : Zip!Without(h)[k] \in Opened
BY DEF Zip!TypeOK, Opened, Zip!Without, Zip!Restrict

LEMMA WithTypes ==
    ASSUME NEW hs, \A k \in DOMAIN hs : hs[k] \in Opened, NEW h, NEW x \in Opened
    PROVE  /\ DOMAIN Zip!With(hs, h, x) = DOMAIN hs \cup {h}
           /\ \A k \in DOMAIN Zip!With(hs, h, x) : Zip!With(hs, h, x)[k] \in Opened
BY DEF Zip!With

LEMMA ArchiveTypes ==
    /\ Zip!Missing \in Zip!File /\ Zip!Broken \in Zip!File
    /\ \A s \in SUBSET Entry : Zip!Archive(s) \in Zip!File
BY DEF Zip!Missing, Zip!Broken, Zip!Archive, Zip!File

LEMMA ClosedTypes ==
    ASSUME Zip!TypeOK, NEW h, NEW d \in Zip!Closed(h)
    PROVE  d \in [Zip!Paths -> Zip!File]
<1>1. CASE h \notin DOMAIN opened \/ opened[h].mode = "r"
  BY <1>1 DEF Zip!Closed, Zip!TypeOK
<1>2. CASE h \in DOMAIN opened /\ opened[h].mode # "r"
  <2>1. opened[h].has \in SUBSET Entry
    BY <1>2 DEF Zip!TypeOK
  <2>2. PICK f \in {Zip!Broken, Zip!Archive(opened[h].has)} :
               d = [disk EXCEPT ![opened[h].at] = f]
    BY <1>2 DEF Zip!Closed
  <2>3. f \in Zip!File
    BY <2>1, ArchiveTypes
  <2> QED
    BY <2>2, <2>3 DEF Zip!TypeOK
<1> QED
  BY <1>1, <1>2

LEMMA ZipTypeStep == Zip!TypeOK /\ [Zip!Next]_(Zip!vars) => Zip!TypeOK'
<1> SUFFICES ASSUME Zip!TypeOK, [Zip!Next]_(Zip!vars) PROVE Zip!TypeOK'
  OBVIOUS
<1>1. ASSUME NEW o \in Object, NEW p \in Zip!Paths, NEW access \in {"r", "w", "a"},
             Zip!construct(o, p, access)
      PROVE  Zip!TypeOK'
  <2>1. PICK h \in Zip!Unused :
           /\ zip' = [zip EXCEPT ![o] = h]
           /\ opened' = Zip!With(opened, h, [mode |-> access, at |-> p,
                                         has |-> IF access = "w" THEN {} ELSE disk[p].has])
    BY <1>1 DEF Zip!construct
  <2>2. [mode |-> access, at |-> p, has |-> IF access = "w" THEN {} ELSE disk[p].has]
          \in Opened
    BY DEF Zip!TypeOK, Zip!File, Opened
  <2>3. /\ DOMAIN opened' \subseteq Handle
        /\ \A k \in DOMAIN opened' : opened'[k] \in Opened
    <3>1. \A k \in DOMAIN opened : opened[k] \in Opened
      BY DEF Zip!TypeOK, Opened
    <3> HIDE DEF Opened
    <3>2. /\ DOMAIN opened' = DOMAIN opened \cup {h}
          /\ \A k \in DOMAIN opened' : opened'[k] \in Opened
      BY <2>1, <2>2, <3>1, WithTypes
    <3> QED
      BY <3>2 DEF Zip!TypeOK, Zip!Unused
  <2>4. zip' \in [Object -> Handle \cup {Null}] /\ path' \in [Object -> Zip!Paths \cup {Null}]
    BY <1>1, <2>1 DEF Zip!TypeOK, Zip!construct, Zip!Unused
  <2>5. disk' \in [Zip!Paths -> Zip!File]
    BY <1>1, ArchiveTypes DEF Zip!TypeOK, Zip!construct
  <2> QED
    BY <2>3, <2>4, <2>5 DEF Zip!TypeOK, Opened
<1>2. ASSUME NEW o \in Object, Zip!close(o) \/ Zip!destroy(o) PROVE Zip!TypeOK'
  <2>1. disk' \in Zip!Closed(zip[o]) /\ opened' = Zip!Without(zip[o])
    BY <1>2 DEF Zip!close, Zip!destroy
  <2>2. zip' \in [Object -> Handle \cup {Null}] /\ path' \in [Object -> Zip!Paths \cup {Null}]
    BY <1>2 DEF Zip!TypeOK, Zip!close, Zip!destroy
  <2> QED
    BY <2>1, <2>2, ClosedTypes, WithoutTypes DEF Zip!TypeOK, Opened
<1>3. ASSUME NEW o \in Object, NEW other \in Object, Zip!move(o, other) PROVE Zip!TypeOK'
  <2>1. CASE o = other
    BY <1>3, <2>1 DEF Zip!move, Zip!vars, Zip!TypeOK
  <2>2. CASE o # other
    <3>1. disk' \in Zip!Closed(zip[o]) /\ opened' = Zip!Without(zip[o])
      BY <1>3, <2>2 DEF Zip!move
    <3>2. zip' \in [Object -> Handle \cup {Null}] /\ path' \in [Object -> Zip!Paths \cup {Null}]
      BY <1>3, <2>2 DEF Zip!TypeOK, Zip!move
    <3> QED
      BY <3>1, <3>2, ClosedTypes, WithoutTypes DEF Zip!TypeOK, Opened
  <2> QED
    BY <2>1, <2>2
<1>4. ASSUME NEW o \in Object, NEW other \in Object, Zip!swap(o, other) PROVE Zip!TypeOK'
  BY <1>4 DEF Zip!swap, Zip!TypeOK
<1>5. ASSUME NEW o \in Object, NEW fs \in SUBSET Entry, Zip!write(o, fs) PROVE Zip!TypeOK'
  <2>1. PICK some \in SUBSET fs : opened' = [opened EXCEPT ![zip[o]].has = @ \cup some]
    BY <1>5 DEF Zip!write
  <2>2. DOMAIN opened' \subseteq Handle
    BY <2>1 DEF Zip!TypeOK
  <2>3. \A k \in DOMAIN opened' : opened'[k] \in Opened
    BY <2>1 DEF Zip!TypeOK, Opened
  <2>4. disk' \in [Zip!Paths -> Zip!File]
    BY <1>5, ArchiveTypes DEF Zip!TypeOK, Zip!write
  <2> QED
    BY <1>5, <2>2, <2>3, <2>4 DEF Zip!TypeOK, Opened, Zip!write
<1>6. ASSUME NEW o \in Object, NEW fs \in SUBSET Entry, Zip!replaceFailsEarly(o, fs)
      PROVE  Zip!TypeOK'
  <2>1. path' \in [Object -> Zip!Paths \cup {Null}]
    BY <1>6 DEF Zip!replaceFailsEarly, Zip!Renamed, Zip!MayReplace, Zip!TypeOK
  <2>2. disk' \in [Zip!Paths -> Zip!File]
    BY <1>6, ArchiveTypes DEF Zip!replaceFailsEarly, Zip!TypeOK
  <2> QED
    BY <1>6, <2>1, <2>2 DEF Zip!replaceFailsEarly, Zip!TypeOK
<1>7. ASSUME NEW o \in Object, NEW fs \in SUBSET Entry, Zip!replaceFailsLate(o, fs)
      PROVE  Zip!TypeOK'
  <2>1. path' \in [Object -> Zip!Paths \cup {Null}]
    BY <1>7 DEF Zip!replaceFailsLate, Zip!Renamed, Zip!MayReplace, Zip!TypeOK
  <2>2. disk' \in [Zip!Paths -> Zip!File]
    BY <1>7, ArchiveTypes, ClosedTypes DEF Zip!replaceFailsLate, Zip!Written
  <2>3. zip' \in [Object -> Handle \cup {Null}]
    BY <1>7 DEF Zip!replaceFailsLate, Zip!TypeOK
  <2>4. /\ DOMAIN opened' \subseteq Handle
        /\ \A k \in DOMAIN opened' : opened'[k] \in Opened
    BY <1>7, WithoutTypes DEF Zip!replaceFailsLate, Zip!TypeOK
  <2> QED
    BY <2>1, <2>2, <2>3, <2>4 DEF Zip!TypeOK, Opened
<1>8. ASSUME NEW o \in Object, NEW fs \in SUBSET Entry, Zip!replaceOk(o, fs) PROVE Zip!TypeOK'
  <2>1. PICK h \in Handle \ DOMAIN Zip!Without(zip[o]) :
           /\ zip' = [zip EXCEPT ![o] = h]
           /\ opened' = Zip!With(Zip!Without(zip[o]), h,
                                 [mode |-> "r", at |-> Zip!tmp(o), has |-> fs])
    BY <1>8 DEF Zip!replaceOk
  <2>2. [mode |-> "r", at |-> Zip!tmp(o), has |-> fs] \in Opened
    BY <1>8 DEF Zip!replaceOk, Zip!MayReplace, Opened
  <2>3. /\ DOMAIN opened' \subseteq Handle
        /\ \A k \in DOMAIN opened' : opened'[k] \in Opened
    <3>1. /\ DOMAIN Zip!Without(zip[o]) \subseteq Handle
          /\ \A k \in DOMAIN Zip!Without(zip[o]) : Zip!Without(zip[o])[k] \in Opened
      BY WithoutTypes DEF Zip!TypeOK
    <3>2. /\ DOMAIN opened' = DOMAIN Zip!Without(zip[o]) \cup {h}
          /\ \A k \in DOMAIN opened' : opened'[k] \in Opened
      BY <2>1, <2>2, <3>1, WithTypes
    <3> QED
      BY <3>1, <3>2
  <2>4. path' \in [Object -> Zip!Paths \cup {Null}]
    BY <1>8 DEF Zip!replaceOk, Zip!Renamed, Zip!MayReplace, Zip!TypeOK
  <2>5. disk' \in [Zip!Paths -> Zip!File]
    <3>1. PICK d \in Zip!Closed(zip[o]) : disk' = [d EXCEPT ![Zip!tmp(o)] = Zip!Archive(fs)]
      BY <1>8 DEF Zip!replaceOk, Zip!Written
    <3> QED
      BY <3>1, ArchiveTypes, ClosedTypes
  <2> QED
    BY <2>1, <2>3, <2>4, <2>5 DEF Zip!TypeOK, Opened
<1>9. CASE UNCHANGED Zip!vars
  BY <1>9 DEF Zip!vars, Zip!TypeOK
<1> QED
  BY <1>1, <1>2, <1>3, <1>4, <1>5, <1>6, <1>7, <1>8, <1>9 DEF Zip!Next, Zip!replace

\* Paths, handles and files keep their types, whatever fails.
LEMMA ZipTypes ==
    Zip!Spec => []Zip!TypeOK
<1>1. Zip!Init => Zip!TypeOK
  BY ZipFacts, ArchiveTypes DEF Zip!Init, Zip!TypeOK, Zip!Paths
<1>2. Zip!TypeOK /\ [Zip!Next]_(Zip!vars) => Zip!TypeOK'
  BY ZipTypeStep
<1> QED
  BY <1>1, <1>2, PTL DEF Zip!Spec

---------------------------------------------------------------------------
(* ZipArchive: handles                                                       *)

\* The same, without sets of owners.
Owned == /\ \A o \in Object : zip[o] # Null => zip[o] \in DOMAIN opened
         /\ \A h \in DOMAIN opened : \E o \in Object : zip[o] = h
         /\ \A o, u \in Object : zip[o] = zip[u] /\ zip[o] # Null => o = u

LEMMA OwnedIsAccounted ==
    ASSUME Zip!TypeOK, Owned PROVE Zip!HandlesAccounted
<1> SUFFICES ASSUME NEW h \in DOMAIN opened
             PROVE  \E o \in Object : {u \in Object : zip[u] = h} = {o}
  BY DEF Zip!HandlesAccounted, Owned
<1>1. PICK o \in Object : zip[o] = h
  BY DEF Owned
<1>2. h # Null
  BY ZipFacts DEF Zip!TypeOK
<1>3. \A u \in Object : zip[u] = h => u = o
  BY <1>1, <1>2 DEF Owned
<1> QED
  BY <1>1, <1>3

\* An object that gives its handle back.
LEMMA OwnerGone ==
    ASSUME Zip!TypeOK, Owned, NEW o \in Object,
           zip' = [zip EXCEPT ![o] = Null], DOMAIN opened' = DOMAIN opened \ {zip[o]}
    PROVE  Owned'
BY ZipFacts DEF Owned, Zip!TypeOK

\* An object that has given back its handle, if any, and gets a new one.
LEMMA OwnerNew ==
    ASSUME Zip!TypeOK, Owned, NEW o \in Object,
           NEW h \in Handle, h \notin DOMAIN opened \ {zip[o]},
           zip' = [zip EXCEPT ![o] = h],
           DOMAIN opened' = (DOMAIN opened \ {zip[o]}) \cup {h}
    PROVE  Owned'
BY ZipFacts DEF Owned, Zip!TypeOK

LEMMA OwnedStep == Zip!TypeOK /\ Owned /\ [Zip!Next]_(Zip!vars) => Owned'
<1> SUFFICES ASSUME Zip!TypeOK, Owned, [Zip!Next]_(Zip!vars) PROVE Owned'
  OBVIOUS
<1>1. ASSUME NEW o \in Object, NEW p \in Zip!Paths, NEW access \in {"r", "w", "a"},
             Zip!construct(o, p, access)
      PROVE  Owned'
  <2>1. PICK h \in Zip!Unused :
           /\ zip' = [zip EXCEPT ![o] = h]
           /\ DOMAIN opened' = DOMAIN opened \cup {h}
    BY <1>1 DEF Zip!construct, Zip!With
  <2>2. zip[o] = Null /\ Null \notin DOMAIN opened
    BY ZipFacts, <1>1 DEF Zip!construct, Zip!TypeOK
  <2>3. DOMAIN opened' = (DOMAIN opened \ {zip[o]}) \cup {h}
    BY <2>1, <2>2
  <2> QED
    BY <2>1, <2>3, OwnerNew DEF Zip!Unused
<1>2. ASSUME NEW o \in Object, NEW fs \in SUBSET Entry,
             Zip!close(o) \/ Zip!destroy(o) \/ Zip!replaceFailsLate(o, fs)
      PROVE  Owned'
  <2>1. zip' = [zip EXCEPT ![o] = Null] /\ opened' = Zip!Without(zip[o])
    BY <1>2 DEF Zip!close, Zip!destroy, Zip!replaceFailsLate
  <2> QED
    BY <2>1, WithoutTypes, OwnerGone
<1>3. ASSUME NEW o \in Object, NEW other \in Object, o # other, Zip!move(o, other)
      PROVE  Owned'
  <2>1. zip' = [zip EXCEPT ![o] = zip[other], ![other] = Null]
    BY <1>3 DEF Zip!move
  <2>2. DOMAIN opened' = DOMAIN opened \ {zip[o]}
    BY <1>3, WithoutTypes DEF Zip!move
  <2> QED
    BY ZipFacts, <1>3, <2>1, <2>2 DEF Owned, Zip!TypeOK
<1>4. ASSUME NEW o \in Object, NEW other \in Object, Zip!swap(o, other) PROVE Owned'
  <2>1. zip' = [zip EXCEPT ![o] = zip[other], ![other] = zip[o]] /\ opened' = opened
    BY <1>4 DEF Zip!swap
  <2> QED
    BY <2>1 DEF Owned, Zip!TypeOK
<1>5. ASSUME NEW o \in Object, NEW fs \in SUBSET Entry,
             Zip!write(o, fs) \/ Zip!replaceFailsEarly(o, fs)
      PROVE  Owned'
  <2>1. zip' = zip /\ DOMAIN opened' = DOMAIN opened
    BY <1>5 DEF Zip!write, Zip!replaceFailsEarly
  <2> QED
    BY <2>1 DEF Owned
<1>6. ASSUME NEW o \in Object, NEW fs \in SUBSET Entry, Zip!replaceOk(o, fs) PROVE Owned'
  <2>1. PICK h \in Handle \ DOMAIN Zip!Without(zip[o]) :
           /\ zip' = [zip EXCEPT ![o] = h]
           /\ opened' = Zip!With(Zip!Without(zip[o]), h,
                                 [mode |-> "r", at |-> Zip!tmp(o), has |-> fs])
    BY <1>6 DEF Zip!replaceOk
  <2>2. DOMAIN opened' = (DOMAIN opened \ {zip[o]}) \cup {h}
    BY <2>1, WithoutTypes DEF Zip!With
  <2> QED
    BY <2>1, <2>2, WithoutTypes, OwnerNew
<1>7. CASE UNCHANGED Zip!vars
  BY <1>7 DEF Zip!vars, Owned
<1>8. ASSUME NEW o \in Object, Zip!move(o, o) PROVE Owned'
  BY <1>7, <1>8 DEF Zip!move
<1> QED
  <2>1. ASSUME NEW o \in Object, NEW other \in Object, Zip!move(o, other) PROVE Owned'
    BY <2>1, <1>3, <1>8
  <2>2. ASSUME NEW o \in Object, Zip!close(o) \/ Zip!destroy(o) PROVE Owned'
    <3>1. {} \in SUBSET Entry
      OBVIOUS
    <3> QED
      BY <2>2, <3>1, <1>2
  <2> QED
    BY <1>1, <1>2, <2>1, <2>2, <1>4, <1>5, <1>6, <1>7 DEF Zip!Next, Zip!replace

\* Whatever is moved, swapped, closed or replaced, and whatever fails, each open
\* handle has one object that will close it, and no object has a closed one.
LEMMA ZipHandles ==
    Zip!Spec => []Zip!HandlesAccounted
<1>1. Zip!Init => Owned
  BY DEF Zip!Init, Owned
<1>2. Zip!TypeOK /\ Owned /\ [Zip!Next]_(Zip!vars) => Owned'
  BY OwnedStep
<1>3. Zip!TypeOK /\ Owned => Zip!HandlesAccounted
  BY OwnedIsAccounted
<1> QED
  BY <1>1, <1>2, <1>3, ZipTypes, PTL DEF Zip!Spec

---------------------------------------------------------------------------
(* ZipArchive: the old archive                                               *)

\* Closing a handle leaves a path alone that nobody writes to.
LEMMA ClosedKeeps ==
    ASSUME Zip!TypeOK, NEW h, NEW d \in Zip!Closed(h), NEW p \in Zip!Paths, Zip!Writers(p) = {}
    PROVE  d[p] = disk[p]
<1>1. CASE h \notin DOMAIN opened \/ opened[h].mode = "r"
  BY <1>1 DEF Zip!Closed
<1>2. CASE h \in DOMAIN opened /\ opened[h].mode # "r"
  <2>1. opened[h].at # p
    BY <1>2 DEF Zip!Writers, Zip!Users
  <2> QED
    BY <1>2, <2>1 DEF Zip!Closed, Zip!TypeOK
<1> QED
  BY <1>1, <1>2

LEMMA OldArchiveStep ==
    ASSUME Zip!TypeOK, NEW o \in Object, NEW fs \in SUBSET Entry,
           Zip!replace(o, fs), disk[path[o]].is = "archive", Zip!Writers(path[o]) = {}
    PROVE  disk'[path[o]].is = "archive"
<1>1. path[o] \in Zip!Paths /\ Zip!tmp(o) # path[o]
  BY ZipFacts
     DEF Zip!replace, Zip!replaceFailsEarly, Zip!replaceFailsLate, Zip!replaceOk,
         Zip!MayReplace, Zip!tmp, Zip!TypeOK,
         Zip!Paths
<1>2. CASE Zip!replaceFailsEarly(o, fs)
  BY <1>1, <1>2 DEF Zip!replaceFailsEarly, Zip!TypeOK
<1>3. ASSUME NEW files, Zip!Written(o, files) PROVE disk'[path[o]].is = "archive"
  <2>1. PICK d \in Zip!Closed(zip[o]) : disk' = [d EXCEPT ![Zip!tmp(o)] = files]
    BY <1>3 DEF Zip!Written
  <2>2. d \in [Zip!Paths -> Zip!File] /\ d[path[o]] = disk[path[o]]
    BY <1>1, ClosedTypes, ClosedKeeps
  <2> QED
    BY <1>1, <2>1, <2>2
<1> QED
  BY <1>2, <1>3 DEF Zip!replace, Zip!replaceFailsLate, Zip!replaceOk

\* Wherever replace() fails, the archive it was to replace is an archive still.
LEMMA ZipReplaces ==
    Zip!Spec => Zip!OldArchiveKept
<1>1. Zip!TypeOK /\ [Zip!Next]_(Zip!vars) =>
        [\A o \in Object, fs \in SUBSET Entry :
            Zip!replace(o, fs) /\ disk[path[o]].is = "archive" /\ Zip!Writers(path[o]) = {}
                => disk'[path[o]].is = "archive"]_(Zip!vars)
  BY OldArchiveStep
<1> QED
  BY <1>1, ZipTypes, PTL DEF Zip!Spec, Zip!OldArchiveKept

---------------------------------------------------------------------------
(* TempFile                                                                  *)

\* What OneOwner needs: the name a constructor has found to be free is not one
\* of our own files when it creates the file, and what other processes remove
\* is ours alone at no time.
TempFileInv == /\ Temp!TypeOK
               /\ Temp!OneOwner
               /\ \A b \in {Builder} : trying[b] # Null => dir[trying[b]] # "ours"
               /\ \A x \in theirs : x \notin Temp!Held \ shared

---------------------------------------------------------------------------
(* The file of an object goes, or stays as an orphan.                        *)

LEMMA RemovedStep ==
    ASSUME TempFileInv, NEW o \in Object, Temp!Removed(o)
    PROVE  /\ dir' \in [Name -> {"nothing", "ours", "foreign"}]
           /\ orphans' \subseteq Name
           /\ orphans \subseteq orphans'
           /\ \A x \in Name : x # file[o] => dir'[x] = dir[x]
           /\ file[o] # Null => dir'[file[o]] = "nothing" \/ file[o] \in orphans'
           /\ \A x \in Name : dir'[x] = "ours" => dir[x] = "ours"
<1>1. CASE file[o] = Null
  BY TempFileFacts, <1>1 DEF Temp!Removed, TempFileInv, Temp!TypeOK
<1>2. CASE file[o] # Null /\ dir' = [dir EXCEPT ![file[o]] = "nothing"] /\ UNCHANGED orphans
  BY <1>2 DEF TempFileInv, Temp!TypeOK
<1>3. CASE file[o] # Null /\ orphans' = orphans \cup {file[o]} /\ UNCHANGED dir
  BY <1>3 DEF TempFileInv, Temp!TypeOK
<1> QED
  BY <1>1, <1>2, <1>3 DEF Temp!Removed

---------------------------------------------------------------------------
LEMMA TempFileInvStep == TempFileInv /\ [Temp!Next]_(Temp!vars) => TempFileInv'
<1> SUFFICES ASSUME TempFileInv, [Temp!Next]_(Temp!vars) PROVE TempFileInv'
  OBVIOUS
<1>1. ASSUME NEW b \in {Builder}, NEW x \in Name, Temp!probe(b, x) PROVE TempFileInv'
  <2>1. CASE Temp!exists(x)
    BY TempFileFacts, <1>1, <2>1
       DEF Temp!probe, TempFileInv, Temp!TypeOK, Temp!OneOwner, Temp!Held
  <2>2. CASE ~Temp!exists(x)
    BY TempFileFacts, <1>1, <2>2
       DEF Temp!probe, Temp!exists, TempFileInv, Temp!TypeOK, Temp!OneOwner, Temp!Held
  <2> QED
    BY <2>1, <2>2
<1>2. ASSUME NEW b \in {Builder}, NEW o \in Object, Temp!create(b, o) PROVE TempFileInv'
  <2> DEFINE name == trying[b]
  <2>1. /\ file' = [file EXCEPT ![o] = name] /\ dir' = [dir EXCEPT ![name] = "ours"]
        /\ trying' = [trying EXCEPT ![b] = Null]
        /\ shared' = IF name \in theirs THEN shared \cup {name}
                     ELSE IF name \in Temp!Held THEN shared ELSE shared \ {name}
        /\ theirs' = theirs /\ orphans' = orphans /\ file[o] = Null
    BY <1>2 DEF Temp!create
  <2>2. /\ name \in Name /\ name # Null /\ dir[name] # "ours"
        /\ file \in [Object -> Name \cup {Null}]
        /\ dir \in [Name -> {"nothing", "ours", "foreign"}]
    BY TempFileFacts, <1>2 DEF Temp!create, TempFileInv, Temp!TypeOK
  <2>3. Temp!TypeOK'
    <3>1. attempt' = [attempt EXCEPT ![b] = 0] /\ 0 \in 0 .. Attempts
      BY TempFileFacts, <1>2 DEF Temp!create
    <3> QED
      BY <2>1, <2>2, <3>1 DEF TempFileInv, Temp!TypeOK
  <2>4. name \notin Temp!Held \ shared
    BY <2>2 DEF TempFileInv, Temp!OneOwner
  <2>5. Temp!Held' = Temp!Held \cup {name}
    BY <2>1, <2>2 DEF Temp!Held
  <2>6. \A x \in Temp!Held' \ shared' :
           x # name => x \in Temp!Held \ shared /\ dir'[x] = "ours"
    BY <2>1, <2>2, <2>5 DEF TempFileInv, Temp!OneOwner, Temp!Held
  <2>7. name \notin shared' => name \notin Temp!Held /\ name \notin theirs
    BY <2>1, <2>4
  <2>8. \A u, v \in Object :
           file'[u] = file'[v] /\ file'[u] \in Temp!Held' \ shared' => u = v
    <3> TAKE u, v \in Object
    <3>1. ASSUME file'[u] = file'[v], file'[u] \in Temp!Held' \ shared', file'[u] # name
          PROVE  u = v
      <4>1. file'[u] = file[u] /\ file'[v] = file[v]
        BY <2>1, <2>2, <3>1
      <4> QED
        BY <2>6, <3>1, <4>1 DEF TempFileInv, Temp!OneOwner
    <3>2. ASSUME file'[u] = file'[v], file'[u] \notin shared', file'[u] = name
          PROVE  u = v
      <4>1. \A y \in Object : file[y] # name
        BY <2>2, <2>7, <3>2 DEF Temp!Held
      <4> QED
        BY <2>1, <2>2, <3>2, <4>1
    <3> QED
      BY <3>1, <3>2
  <2>9. \A x \in Temp!Held' \ shared' : dir'[x] = "ours"
    BY <2>1, <2>2, <2>6
  <2>10. \A x \in Name : dir'[x] = "ours" => x \in Temp!Held' \cup orphans'
    BY <2>1, <2>2, <2>5 DEF TempFileInv, Temp!OneOwner
  <2>11. \A c \in {Builder} : trying'[c] = Null
    BY <2>1 DEF TempFileInv, Temp!TypeOK
  <2>12. \A x \in theirs' : x \notin Temp!Held' \ shared'
    BY <2>1, <2>6, <2>7 DEF TempFileInv
  <2> HIDE DEF name
  <2> QED
    BY <2>3, <2>8, <2>9, <2>10, <2>11, <2>12 DEF TempFileInv, Temp!OneOwner
<1>3. ASSUME NEW b \in {Builder}, Temp!throw(b) PROVE TempFileInv'
  BY TempFileFacts, <1>3 DEF Temp!throw, TempFileInv, Temp!TypeOK, Temp!OneOwner, Temp!Held
<1>4. ASSUME NEW o \in Object, NEW f \in [Object -> Name \cup {Null}],
             Temp!Removed(o), file' = f, UNCHANGED <<trying, attempt, theirs, shared>>,
             \A u, v \in Object : f[u] = f[v] /\ f[u] # Null /\ f[u] \notin shared => u = v,
             Temp!Held' \subseteq Temp!Held, Temp!Held \ {file[o]} \subseteq Temp!Held',
             file[o] \notin Temp!Held' \ shared
      PROVE  TempFileInv'
  <2>1. Temp!TypeOK'
    BY <1>4, RemovedStep DEF TempFileInv, Temp!TypeOK
  <2>2. \A x \in Temp!Held' \ shared' : x \in Name /\ x \in Temp!Held \ shared /\ x # file[o]
    BY <1>4 DEF Temp!Held, TempFileInv, Temp!TypeOK
  <2>3. \A x \in Temp!Held' \ shared' : dir'[x] = "ours"
    BY <1>4, <2>2, RemovedStep DEF TempFileInv, Temp!OneOwner
  <2>4. \A x \in Name : dir'[x] = "ours" => x \in Temp!Held' \cup orphans'
    <3> SUFFICES ASSUME NEW x \in Name, dir'[x] = "ours"
                 PROVE  x \in Temp!Held' \cup orphans'
      OBVIOUS
    <3>1. x \in Temp!Held \cup orphans
      BY <1>4, RemovedStep DEF TempFileInv, Temp!OneOwner
    <3>2. x = file[o] => x \in orphans'
      BY TempFileFacts, <1>4, RemovedStep
    <3> QED
      BY <1>4, <3>1, <3>2, RemovedStep
  <2>5. \A c \in {Builder} : trying'[c] # Null => dir'[trying'[c]] # "ours"
    BY <1>4, RemovedStep DEF TempFileInv, Temp!TypeOK
  <2>6. \A u, v \in Object :
           file'[u] = file'[v] /\ file'[u] \in Temp!Held' \ shared' => u = v
    BY <1>4 DEF Temp!Held
  <2>7. \A x \in theirs' : x \notin Temp!Held' \ shared'
    BY <1>4 DEF TempFileInv
  <2> QED
    BY <2>1, <2>3, <2>4, <2>5, <2>6, <2>7 DEF TempFileInv, Temp!OneOwner
<1>5. ASSUME NEW o \in Object, Temp!reset(o) PROVE TempFileInv'
  <2> DEFINE f == [file EXCEPT ![o] = Null]
  <2>0. file' = f /\ file \in [Object -> Name \cup {Null}]
    BY <1>5 DEF Temp!reset, TempFileInv, Temp!TypeOK
  <2>1. f \in [Object -> Name \cup {Null}]
    BY <2>0
  <2>2. \A u, v \in Object : f[u] = f[v] /\ f[u] # Null /\ f[u] \notin shared => u = v
    BY <2>0 DEF TempFileInv, Temp!OneOwner, Temp!Held
  <2>3. /\ Temp!Held' \subseteq Temp!Held /\ Temp!Held \ {file[o]} \subseteq Temp!Held'
        /\ file[o] \notin Temp!Held' \ shared
    BY <2>0 DEF TempFileInv, Temp!OneOwner, Temp!Held
  <2> QED
    BY <1>4, <1>5, <2>0, <2>1, <2>2, <2>3 DEF Temp!reset
<1>6. ASSUME NEW o \in Object, NEW other \in Object, Temp!move(o, other) PROVE TempFileInv'
  <2>1. CASE o = other
    BY <1>6, <2>1 DEF Temp!move, Temp!vars, TempFileInv, Temp!TypeOK, Temp!OneOwner, Temp!Held
  <2>2. CASE o # other
    <3> DEFINE f == [file EXCEPT ![o] = file[other], ![other] = Null]
    <3>0. file' = f /\ file \in [Object -> Name \cup {Null}]
      BY <1>6, <2>2 DEF Temp!move, TempFileInv, Temp!TypeOK
    <3>1. f \in [Object -> Name \cup {Null}]
      BY <3>0
    <3>2. \A u, v \in Object : f[u] = f[v] /\ f[u] # Null /\ f[u] \notin shared => u = v
      BY <2>2, <3>0 DEF TempFileInv, Temp!OneOwner, Temp!Held
    <3>3. /\ Temp!Held' \subseteq Temp!Held /\ Temp!Held \ {file[o]} \subseteq Temp!Held'
          /\ file[o] \notin Temp!Held' \ shared
      <4>1. Temp!Held' \subseteq Temp!Held
        BY <2>2, <3>0 DEF Temp!Held
      <4>2. Temp!Held \ {file[o]} \subseteq Temp!Held'
        <5> SUFFICES ASSUME NEW u \in Object, file[u] # Null, file[u] # file[o]
                     PROVE  \E v \in Object : f[v] = file[u]
          BY <3>0 DEF Temp!Held
        <5>1. CASE u = other
          BY <2>2, <3>0, <5>1
        <5>2. CASE u # other
          BY <2>2, <3>0, <5>2
        <5> QED
          BY <5>1, <5>2
      <4>3. ASSUME file[o] \in Temp!Held' \ shared PROVE FALSE
        <5>1. PICK u \in Object : f[u] = file[o] /\ file[o] # Null
          BY <3>0, <4>3 DEF Temp!Held
        <5>2. file[o] \in Temp!Held \ shared
          BY <4>1, <4>3
        <5>3. \E v \in Object : v # o /\ file[v] = file[o]
          BY <2>2, <3>0, <5>1
        <5> QED
          BY <5>2, <5>3 DEF TempFileInv, Temp!OneOwner
      <4> QED
        BY <4>1, <4>2, <4>3
    <3> QED
      BY <1>4, <1>6, <2>2, <3>0, <3>1, <3>2, <3>3 DEF Temp!move
  <2> QED
    BY <2>1, <2>2
<1>7. ASSUME NEW x \in Name, Temp!foreign(x) PROVE TempFileInv'
  BY <1>7 DEF Temp!foreign, TempFileInv, Temp!TypeOK, Temp!OneOwner, Temp!Held
<1>8. CASE UNCHANGED Temp!vars
  BY <1>8 DEF Temp!vars, TempFileInv, Temp!TypeOK, Temp!OneOwner, Temp!Held
<1> QED
  BY <1>1, <1>2, <1>3, <1>5, <1>6, <1>7, <1>8 DEF Temp!Next

\* Every file of ours has one object that will remove it, unless a removal has
\* failed, however files are moved and whatever other processes do meanwhile.
LEMMA TempFileOwners ==
    Temp!Spec => [](Temp!TypeOK /\ Temp!OneOwner)
<1>1. Temp!Init => TempFileInv
  <2> SUFFICES ASSUME Temp!Init PROVE TempFileInv
    OBVIOUS
  <2>1. Temp!Held = {}
    BY DEF Temp!Init, Temp!Held
  <2>2. Temp!TypeOK
    BY TempFileFacts DEF Temp!Init, Temp!TypeOK
  <2> QED
    BY <2>1, <2>2 DEF Temp!Init, TempFileInv, Temp!OneOwner
<1>2. TempFileInv /\ [Temp!Next]_(Temp!vars) => TempFileInv'
  BY TempFileInvStep
<1>3. TempFileInv => Temp!TypeOK /\ Temp!OneOwner
  BY DEF TempFileInv
<1> QED
  BY <1>1, <1>2, <1>3, PTL DEF Temp!Spec

---------------------------------------------------------------------------
(* Mirror                                                                    *)

\* No file is newer than the last edit.
NothingNewer == \A p \in Path : src[p].time <= now /\ dst[p].time <= now

\* A file of the destination that is not older than that of the source is a
\* copy of it, whole or cut off, unless it is odd.
NewerIsCopy == \A p \in Path :
    /\ Mirr!Is(src, p, "file") /\ Mirr!Is(dst, p, "file")
    /\ src[p].time <= dst[p].time
    /\ p \notin odd
    => dst[p].data \in {src[p].data, Partial}

\* What syncDirectory() does for an entry.
Copied(p) == /\ Mirr!Is(src, p, "directory") => Mirr!Is(dst, p, "directory")
             /\ Mirr!Is(src, p, "file") => Mirr!Is(dst, p, "file")
             /\ Mirr!Differs(p) => /\ p \in odd
                                   /\ Size[dst[p].data] = Size[src[p].data]
                                   /\ dst[p].time >= src[p].time

\* What pruneDirectory() does for an entry ...
Pruned(p) == ~Mirr!exists(src, p) /\ Mirr!exists(dst, p)
                => p \in kept \/ Mirr!Children(dst, p) # {}

\* ... and nothing in it is still to be removed, which would leave it empty:
\* longer paths came first.
Empty(p) == ~Mirr!exists(src, p) /\ Mirr!exists(dst, p) => \A q \in todo : Parent[q] # p

\* The entries that the halves of the call have not handled yet.
ToCopy == IF "sync" \in left THEN Path ELSE IF phase = "sync" THEN todo ELSE {}
ToRemove == IF "prune" \in left THEN Path ELSE IF phase = "prune" THEN todo ELSE {}

\* What a call has achieved so far, in whatever order it does its halves.
Halfway ==
    /\ phase \notin left
    /\ phase = "call" => left = {"sync", "prune"}
    /\ \A p \in Path \ ToCopy : Copied(p)
    /\ \A p \in Path \ ToRemove : Pruned(p)
    /\ phase = "sync" => \A p \in todo : Mirr!exists(src, p)
    /\ phase = "prune" => /\ \A p \in todo : ~Mirr!exists(src, p)
                          /\ \A p \in Path \ todo : Empty(p)

MirrorInv ==
    /\ Mirr!TypeOK
    /\ NothingNewer
    /\ NewerIsCopy
    /\ exact => phase = "idle" /\ Mirr!MirrorExactButOdd
    /\ phase # "idle" => Halfway

LEMMA MirrorEntries ==
    \A e \in Mirr!DstEntry :
        /\ e.time \in 0 .. MaxTime
        /\ e.is = "file" => e.data \in Data \cup {Old, Partial}
        /\ e \in Mirr!SrcEntry /\ e.is = "file" => e.data \in Data
BY MirrorFacts DEF Mirr!SrcEntry, Mirr!DstEntry, Mirr!Other, Mirr!Nothing, Mirr!Directory,
   Mirr!Special, Mirr!File

LEMMA MirrorMakes ==
    /\ {Mirr!Nothing, Mirr!Directory, Mirr!Special} \subseteq Mirr!SrcEntry
    /\ \A d \in Data, t \in 0 .. MaxTime : Mirr!File(d, t) \in Mirr!SrcEntry
    /\ Mirr!SrcEntry \subseteq Mirr!DstEntry
    /\ \A d \in {Old, Partial}, t \in 0 .. MaxTime : Mirr!File(d, t) \in Mirr!DstEntry
BY DEF Mirr!SrcEntry, Mirr!DstEntry, Mirr!Other

LEMMA MirrorTrees ==
    ASSUME MirrorInv
    PROVE  /\ src \in [Path -> Mirr!SrcEntry] /\ dst \in [Path -> Mirr!DstEntry]
           /\ now \in 0 .. MaxTime /\ MaxTime \in Nat
           /\ todo \subseteq Path /\ left \subseteq {"sync", "prune"}
           /\ \A q \in Path : /\ src[q].time \in 0 .. MaxTime /\ src[q].time <= now
                              /\ dst[q].time \in 0 .. MaxTime /\ dst[q].time <= now
<1>1. /\ src \in [Path -> Mirr!SrcEntry] /\ dst \in [Path -> Mirr!DstEntry]
      /\ now \in 0 .. MaxTime /\ todo \subseteq Path /\ left \subseteq {"sync", "prune"}
  BY DEF MirrorInv, Mirr!TypeOK, Mirr!Halves
<1>2. \A q \in Path : src[q] \in Mirr!DstEntry /\ dst[q] \in Mirr!DstEntry
  BY <1>1, MirrorMakes
<1> QED
  BY <1>1, <1>2, MirrorFacts, MirrorEntries DEF MirrorInv, NothingNewer

LEMMA MirrorInit == Mirr!Init => MirrorInv
<1> SUFFICES ASSUME Mirr!Init PROVE MirrorInv
  OBVIOUS
<1>1. Mirr!TypeOK
  <2>1. src \in [Path -> Mirr!SrcEntry]
    BY MirrorMakes DEF Mirr!Init
  <2>2. dst \in [Path -> Mirr!Other \cup {Mirr!File(Old, 0)}]
    BY DEF Mirr!Init
  <2>3. dst \in [Path -> Mirr!DstEntry]
    <3>1. 0 \in 0 .. MaxTime
      BY MirrorFacts
    <3> QED
      BY <2>2, <3>1, MirrorMakes DEF Mirr!Other
  <2>4. now \in 0 .. MaxTime
    BY MirrorFacts DEF Mirr!Init
  <2>5. exact \in BOOLEAN /\ phase = "idle" /\ left = {}
    BY DEF Mirr!Init
  <2> QED
    BY <2>1, <2>3, <2>4, <2>5 DEF Mirr!Init, Mirr!TypeOK
<1>2. \A p \in Path : src[p].time = 0 /\ dst[p].time = 0 /\ ~Mirr!Is(src, p, "file")
  BY DEF Mirr!Init, Mirr!Other, Mirr!Nothing, Mirr!Directory, Mirr!Special, Mirr!File, Mirr!Is
<1> QED
  BY <1>1, <1>2 DEF Mirr!Init, MirrorInv, NothingNewer, NewerIsCopy

\* A file is skipped only if the destination has its contents, or is odd.
LEMMA SkippedIsCopied ==
    ASSUME MirrorInv, NEW p \in Path, Mirr!Is(src, p, "file"), Mirr!Is(dst, p, "file"),
           ~Mirr!needsUpdate(p)
    PROVE  Copied(p)
<1>1. Size[src[p].data] = Size[dst[p].data] /\ ~(src[p].time > dst[p].time)
  BY DEF Mirr!needsUpdate
<1>2. src[p] \in Mirr!SrcEntry /\ src[p] \in Mirr!DstEntry /\ src[p].is = "file"
  BY MirrorMakes, MirrorTrees DEF Mirr!Is
<1>3. src[p].time \in Int /\ dst[p].time \in Int /\ src[p].data \in Data
  BY <1>2, MirrorEntries, MirrorTrees
<1>4. p \notin odd => dst[p].data \in {src[p].data, Partial}
  BY <1>1, <1>3 DEF MirrorInv, NewerIsCopy
<1>5. Size[Partial] \in Nat /\ Size[src[p].data] \in Nat /\ Size[Partial] < Size[src[p].data]
  BY <1>3, MirrorFacts
<1>6. p \notin odd => dst[p].data = src[p].data
  BY <1>1, <1>4, <1>5
<1> QED
  BY <1>1, <1>2, <1>3, <1>6 DEF Copied, Mirr!Differs, Mirr!Is

\* The call ends early, with the destination as it is.
LEMMA MirrorThrow ==
    ASSUME MirrorInv, phase # "idle", Mirr!Throw, UNCHANGED <<src, dst, now, exact, kept, odd>>
    PROVE  MirrorInv'
<1>1. ~exact /\ phase' = "idle" /\ left' = {} /\ todo' = {}
  BY DEF MirrorInv, Mirr!Throw
<1>2. Mirr!TypeOK'
  BY <1>1 DEF MirrorInv, Mirr!TypeOK
<1>3. NothingNewer' /\ NewerIsCopy'
  BY DEF MirrorInv, NothingNewer, NewerIsCopy, Mirr!Is
<1> QED
  BY <1>1, <1>2, <1>3 DEF MirrorInv

\* syncDirectory() has handled its entry.
LEMMA MirrorHandled ==
    ASSUME MirrorInv, NEW p \in todo, phase = "sync", Mirr!Handled(p),
           UNCHANGED <<src, now, exact, kept>>,
           NEW e \in Mirr!DstEntry, e.time <= now, Mirr!exists(dst, p) => e.is # "nothing",
           dst' = [dst EXCEPT ![p] = e], odd' \subseteq Path, odd' \cup {p} = odd \cup {p},
           /\ Mirr!Is(src, p, "file") /\ e.is = "file" /\ src[p].time <= e.time /\ p \notin odd'
              => e.data \in {src[p].data, Partial},
           Copied(p)'
    PROVE  MirrorInv'
<1>1. /\ ~exact /\ Halfway /\ phase' = "sync" /\ left' = left /\ todo' = todo \ {p}
      /\ p \in Path /\ Mirr!exists(src, p)
  BY MirrorTrees DEF MirrorInv, Halfway, Mirr!Handled
<1>2. /\ \A q \in Path : q # p => dst'[q] = dst[q] /\ (q \in odd' <=> q \in odd)
      /\ dst'[p] = e /\ src' = src
      /\ dst' \in [Path -> Mirr!DstEntry]
  BY <1>1, MirrorTrees
<1>3. Mirr!TypeOK'
  BY <1>1, <1>2 DEF MirrorInv, Mirr!TypeOK
<1>4. NothingNewer'
  BY <1>2, MirrorTrees DEF NothingNewer
<1>5. NewerIsCopy'
  BY <1>2 DEF MirrorInv, NewerIsCopy, Mirr!Is
<1>6. \A q \in Path \ ToCopy' : Copied(q)'
  <2>1. ToCopy' = todo \ {p} /\ ToCopy = todo
    BY <1>1 DEF ToCopy, Halfway
  <2>2. ASSUME NEW q \in Path \ todo, q # p PROVE Copied(q)'
    BY <1>1, <1>2, <2>1, <2>2 DEF Halfway, Copied, Mirr!Differs, Mirr!Is
  <2> QED
    BY <2>1, <2>2
<1>7. \A q \in Path \ ToRemove' : Pruned(q)'
  <2>1. ToRemove' = ToRemove
    BY <1>1 DEF ToRemove
  <2>2. ASSUME NEW q \in Path \ ToRemove PROVE Pruned(q)'
    <3>1. CASE q = p
      BY <1>1, <1>2, <3>1 DEF Pruned, Mirr!exists, Mirr!Is
    <3>2. CASE q # p
      <4>1. Mirr!Children(dst, q) \subseteq Mirr!Children(dst, q)'
        BY <1>2 DEF Mirr!Children, Mirr!exists, Mirr!Is
      <4> QED
        BY <1>1, <1>2, <2>2, <3>2, <4>1 DEF Halfway, Pruned, Mirr!exists, Mirr!Is
    <3> QED
      BY <3>1, <3>2
  <2> QED
    BY <2>1, <2>2
<1>8. \A q \in todo' : Mirr!exists(src, q)'
  BY <1>1, <1>2 DEF Halfway, Mirr!exists, Mirr!Is
<1>9. Halfway'
  BY <1>1, <1>6, <1>7, <1>8 DEF Halfway
<1> QED
  BY <1>1, <1>3, <1>4, <1>5, <1>9 DEF MirrorInv

\* A step of syncDirectory() that handles its entry, or fails.
LEMMA MirrorSyncStep ==
    ASSUME MirrorInv, NEW p \in Path, Mirr!syncEntry(p)
    PROVE  MirrorInv'
<1>1. phase = "sync" /\ p \in todo /\ UNCHANGED <<src, now, exact, kept>>
  BY DEF Mirr!syncEntry
<1>2. /\ src[p] \in Mirr!SrcEntry /\ dst[p] \in Mirr!DstEntry
      /\ dst \in [Path -> Mirr!DstEntry] /\ odd \subseteq Path
      /\ now \in 0 .. MaxTime /\ dst[p].time <= now
  BY MirrorTrees DEF MirrorInv, Mirr!TypeOK
<1>3. ASSUME Mirr!Handled(p), UNCHANGED <<dst, odd>>, Copied(p)
      PROVE  MirrorInv'
  <2>1. dst' = [dst EXCEPT ![p] = dst[p]]
    BY <1>2, <1>3
  <2>2. Copied(p)'
    BY <1>1, <1>3 DEF Copied, Mirr!Differs, Mirr!Is
  <2>3. Mirr!Is(src, p, "file") /\ dst[p].is = "file" /\ src[p].time <= dst[p].time
        /\ p \notin odd' => dst[p].data \in {src[p].data, Partial}
    BY <1>3 DEF MirrorInv, NewerIsCopy, Mirr!Is
  <2>4. Mirr!exists(dst, p) => dst[p].is # "nothing"
    BY DEF Mirr!exists, Mirr!Is
  <2> QED
    BY <1>1, <1>2, <1>3, <2>1, <2>2, <2>3, <2>4, MirrorHandled
<1>4. CASE /\ Mirr!Is(src, p, "directory") /\ dst' = [dst EXCEPT ![p] = Mirr!Directory]
           /\ Mirr!Handled(p) /\ UNCHANGED odd
  <2>1. /\ Mirr!Directory \in Mirr!DstEntry
        /\ Mirr!Directory.is = "directory" /\ Mirr!Directory.time = 0 /\ 0 <= now
    BY <1>2, MirrorMakes DEF Mirr!Directory
  <2>2. src[p].is = "directory" /\ dst'[p].is = "directory"
    BY <1>2, <1>4, <2>1 DEF Mirr!Is
  <2>3. Copied(p)'
    BY <1>1, <2>2 DEF Copied, Mirr!Differs, Mirr!Is
  <2> QED
    BY <1>1, <1>2, <1>4, <2>1, <2>2, <2>3, MirrorHandled DEF Mirr!Is
<1>5. CASE Mirr!Is(src, p, "file") /\ dst[p].is \in {"nothing", "file"} /\ Mirr!needsUpdate(p)
           /\ Mirr!copy(p)
  <2>1. src[p].is = "file" /\ src[p].data \in Data
    BY <1>2, <1>5, MirrorEntries, MirrorMakes DEF Mirr!Is
  <2>2. CASE /\ dst' = [dst EXCEPT ![p] = Mirr!File(src[p].data, now)]
             /\ odd' = odd \ {p} /\ Mirr!Handled(p)
    <3>1. Mirr!File(src[p].data, now) \in Mirr!DstEntry
      BY <1>2, <2>1, MirrorMakes
    <3>2. /\ Mirr!File(src[p].data, now).is = "file"
          /\ Mirr!File(src[p].data, now).data = src[p].data
          /\ Mirr!File(src[p].data, now).time <= now
      BY <1>2 DEF Mirr!File
    <3>3. Copied(p)'
      BY <1>1, <1>2, <2>1, <2>2, <3>2 DEF Copied, Mirr!Differs, Mirr!Is
    <3> QED
      BY <1>1, <1>2, <2>2, <3>1, <3>2, <3>3, MirrorHandled
  <2>3. CASE dst' = [dst EXCEPT ![p] = Mirr!File(Partial, now)] /\ Mirr!Throw /\ UNCHANGED odd
    <3>1. /\ Mirr!File(Partial, now) \in Mirr!DstEntry
          /\ Mirr!File(Partial, now).data = Partial /\ Mirr!File(Partial, now).time <= now
      BY <1>2, MirrorMakes DEF Mirr!File
    <3>2. ~exact /\ phase' = "idle" /\ left' = {} /\ todo' = {}
      BY <1>1, <2>3 DEF MirrorInv, Mirr!Throw
    <3>3. /\ \A q \in Path : q # p => dst'[q] = dst[q]
          /\ dst'[p] = Mirr!File(Partial, now) /\ dst' \in [Path -> Mirr!DstEntry]
      BY <1>2, <2>3, <3>1
    <3>4. Mirr!TypeOK'
      BY <1>1, <2>3, <3>2, <3>3 DEF MirrorInv, Mirr!TypeOK
    <3>5. NothingNewer'
      BY <1>1, <3>1, <3>3, MirrorTrees DEF NothingNewer
    <3>6. NewerIsCopy'
      BY <1>1, <2>3, <3>1, <3>3 DEF MirrorInv, NewerIsCopy, Mirr!Is
    <3> QED
      BY <1>1, <3>2, <3>4, <3>5, <3>6 DEF MirrorInv
  <2>4. CASE dst' = dst /\ Mirr!Throw /\ UNCHANGED odd
    BY <1>1, <2>4, MirrorThrow
  <2> QED
    BY <1>5, <2>2, <2>3, <2>4 DEF Mirr!copy
<1>6. CASE /\ Mirr!Is(src, p, "file") /\ dst[p].is \in {"nothing", "file"}
           /\ ~Mirr!needsUpdate(p) /\ Mirr!Handled(p) /\ UNCHANGED <<dst, odd>>
  <2>1. Mirr!Is(dst, p, "file")
    BY <1>6 DEF Mirr!needsUpdate, Mirr!exists, Mirr!Is
  <2> QED
    BY <1>3, <1>6, <2>1, SkippedIsCopied
<1>7. CASE Mirr!Throw /\ UNCHANGED <<dst, odd>>
  BY <1>1, <1>7, MirrorThrow
<1>8. CASE Mirr!Is(src, p, "special") /\ Mirr!Handled(p) /\ UNCHANGED <<dst, odd>>
  <2>1. Copied(p)
    BY <1>8 DEF Copied, Mirr!Differs, Mirr!Is
  <2> QED
    BY <1>3, <1>8, <2>1
<1> QED
  BY <1>4, <1>5, <1>6, <1>7, <1>8 DEF Mirr!syncEntry

LEMMA MirrorRemoveStep ==
    ASSUME MirrorInv, NEW p \in Path, Mirr!removeEntry(p)
    PROVE  MirrorInv'
<1>1. /\ phase = "prune" /\ ~exact /\ UNCHANGED <<src, phase, left, now, exact, odd>>
      /\ todo' = todo \ {p} /\ p \in todo /\ Halfway
      /\ \A q \in todo : Parent[q] # p
  BY DEF Mirr!removeEntry, Mirr!MayRemove, MirrorInv
<1>2. /\ ToCopy' = ToCopy /\ ToRemove = todo /\ ToRemove' = todo \ {p}
      /\ ~Mirr!exists(src, p)
      /\ \A q \in todo : ~Mirr!exists(src, q)
      /\ \A q \in Path \ todo : Pruned(q) /\ Empty(q)
      /\ \A q \in Path \ ToCopy : Copied(q)
  BY <1>1 DEF Halfway, ToCopy, ToRemove
<1>3. dst \in [Path -> Mirr!DstEntry] /\ now \in 0 .. MaxTime /\ kept \subseteq Path
  BY DEF MirrorInv, Mirr!TypeOK
<1>4. ~Mirr!Is(src, p, "directory") /\ ~Mirr!Is(src, p, "file")
  BY <1>2 DEF Mirr!exists, Mirr!Is
<1>5. CASE /\ dst' = [dst EXCEPT ![p] = Mirr!Nothing] /\ kept' = kept
  <2>1. Mirr!Nothing \in Mirr!DstEntry
    BY MirrorMakes
  <2>2. Mirr!TypeOK'
    BY <1>1, <1>5, <2>1 DEF MirrorInv, Mirr!TypeOK
  <2>3. Mirr!Nothing.is = "nothing" /\ Mirr!Nothing.time = 0
    BY DEF Mirr!Nothing
  <2>4. NothingNewer'
    BY <1>1, <1>3, <1>5, <2>3 DEF MirrorInv, NothingNewer
  <2>5. NewerIsCopy'
    BY <1>1, <1>3, <1>5, <2>3 DEF MirrorInv, NewerIsCopy, Mirr!Is
  <2>6. ASSUME NEW q \in Path \ ToCopy PROVE Copied(q)'
    <3>1. CASE q = p
      BY <1>1, <1>4, <3>1 DEF Copied, Mirr!Differs, Mirr!Is
    <3>2. CASE q # p
      <4>1. dst'[q] = dst[q] /\ Copied(q)
        BY <1>2, <1>3, <1>5, <3>2
      <4> QED
        BY <1>1, <4>1 DEF Copied, Mirr!Differs, Mirr!Is
    <3> QED
      BY <3>1, <3>2
  <2>7. ASSUME NEW q \in Path \ todo' PROVE Pruned(q)' /\ Empty(q)'
    <3>1. CASE q = p
      BY <1>3, <1>5, <2>3, <3>1 DEF Pruned, Empty, Mirr!exists, Mirr!Is
    <3>2. CASE q # p
      <4>1. (q \notin todo /\ Parent[p] # q) \/ ~(~Mirr!exists(src, q) /\ Mirr!exists(dst, q))
        BY <1>1, <1>2, <3>2 DEF Empty
      <4>2. dst'[q] = dst[q] /\ src'[q] = src[q]
        BY <1>1, <1>3, <1>5, <3>2
      <4>3. Parent[p] # q => Mirr!Children(dst, q)' = Mirr!Children(dst, q)
        BY <1>3, <1>5 DEF Mirr!Children, Mirr!exists, Mirr!Is
      <4> QED
        BY <1>1, <1>2, <1>5, <3>2, <4>1, <4>2, <4>3 DEF Pruned, Empty, Mirr!exists, Mirr!Is
    <3> QED
      BY <3>1, <3>2
  <2>8. \A q \in todo' : ~Mirr!exists(src, q)'
    BY <1>1, <1>2 DEF Mirr!exists, Mirr!Is
  <2>9. Halfway'
    BY <1>1, <1>2, <2>6, <2>7, <2>8 DEF Halfway
  <2> QED
    BY <1>1, <2>2, <2>4, <2>5, <2>9 DEF MirrorInv
<1>6. CASE /\ dst' = dst
           /\ \/ kept' = kept \cup {p}
              \/ kept' = kept /\ Mirr!Children(dst, p) # {}
  <2>1. Mirr!TypeOK'
    BY <1>1, <1>3, <1>6 DEF MirrorInv, Mirr!TypeOK
  <2>2. NothingNewer' /\ NewerIsCopy'
    BY <1>1, <1>6 DEF MirrorInv, NothingNewer, NewerIsCopy, Mirr!Is
  <2>3. \A q \in Path \ ToCopy : Copied(q)'
    BY <1>1, <1>2, <1>6 DEF Copied, Mirr!Differs, Mirr!Is
  <2>4. \A q \in Path \ todo' : Pruned(q)' /\ Empty(q)'
    BY <1>1, <1>2, <1>6 DEF Pruned, Empty, Mirr!exists, Mirr!Is, Mirr!Children
  <2>5. \A q \in todo' : ~Mirr!exists(src, q)'
    BY <1>1, <1>2 DEF Mirr!exists, Mirr!Is
  <2>6. Halfway'
    BY <1>1, <1>2, <2>3, <2>4, <2>5 DEF Halfway
  <2> QED
    BY <1>1, <2>1, <2>2, <2>6 DEF MirrorInv
<1> QED
  BY <1>5, <1>6 DEF Mirr!removeEntry

\* Between two calls an entry of one of the trees changes.
LEMMA MirrorEditStep ==
    ASSUME MirrorInv, NEW p \in Path, NEW entry \in Mirr!DstEntry, entry.time <= now + 1,
           \/ entry \in Mirr!SrcEntry /\ Mirr!edit(p, entry)
           \/ Mirr!disturb(p, entry)
    PROVE  MirrorInv'
<1>1. /\ phase = "idle" /\ now' = now + 1 /\ now \in 0 .. MaxTime /\ now' \in 0 .. MaxTime
      /\ exact' = FALSE /\ UNCHANGED <<phase, left, todo, kept>>
      /\ odd' \in SUBSET Path /\ \A q \in Path : q # p => (q \in odd' <=> q \in odd)
  BY MirrorFacts DEF Mirr!edit, Mirr!disturb, MirrorInv, Mirr!TypeOK
<1>2. /\ src \in [Path -> Mirr!SrcEntry] /\ dst \in [Path -> Mirr!DstEntry]
      /\ \A q \in Path : src[q].time \in Int /\ dst[q].time \in Int
      /\ \A q \in Path : src[q].time <= now /\ dst[q].time <= now
      /\ entry.time \in Int
  BY MirrorTrees, MirrorEntries
<1>3. CASE /\ entry \in Mirr!SrcEntry /\ src' = [src EXCEPT ![p] = entry] /\ dst' = dst
           /\ odd' = IF entry.time > dst[p].time THEN odd \ {p} ELSE odd \cup {p}
  <2>1. (\A q \in Path : q # p => src'[q] = src[q]) /\ src'[p] = entry
    BY <1>2, <1>3
  <2>2. Mirr!TypeOK'
    BY <1>1, <1>2, <1>3 DEF MirrorInv, Mirr!TypeOK
  <2>3. NothingNewer'
    BY <1>1, <1>2, <1>3, <2>1 DEF NothingNewer
  <2>4. p \in odd' \/ ~(entry.time <= dst[p].time)
    BY <1>2, <1>3
  <2>5. NewerIsCopy'
    BY <1>1, <1>3, <2>1, <2>4 DEF MirrorInv, NewerIsCopy, Mirr!Is
  <2> QED
    BY <1>1, <2>2, <2>3, <2>5 DEF MirrorInv
<1>4. CASE dst' = [dst EXCEPT ![p] = entry] /\ src' = src /\ odd' = odd \cup {p}
  <2>1. (\A q \in Path : q # p => dst'[q] = dst[q]) /\ dst'[p] = entry
    BY <1>2, <1>4
  <2>2. Mirr!TypeOK'
    BY <1>1, <1>2, <1>4 DEF MirrorInv, Mirr!TypeOK
  <2>3. NothingNewer'
    BY <1>1, <1>2, <1>4, <2>1 DEF NothingNewer
  <2>4. NewerIsCopy'
    BY <1>1, <1>4, <2>1 DEF MirrorInv, NewerIsCopy, Mirr!Is
  <2> QED
    BY <1>1, <2>2, <2>3, <2>4 DEF MirrorInv
<1> QED
  BY <1>3, <1>4 DEF Mirr!edit, Mirr!disturb

LEMMA MirrorBeginStep ==
    ASSUME MirrorInv, Mirr!syncDirectory \/ Mirr!pruneDirectory
    PROVE  MirrorInv'
<1>1. phase # "idle" /\ Halfway /\ todo = {} /\ ~exact /\ UNCHANGED <<src, dst, now, exact, kept, odd>>
  BY DEF Mirr!syncDirectory, Mirr!pruneDirectory, Mirr!Begin, MirrorInv
<1>2. NothingNewer' /\ NewerIsCopy'
  BY <1>1 DEF MirrorInv, NothingNewer, NewerIsCopy, Mirr!Is
<1>3. \A p \in Path : (Copied(p) => Copied(p)') /\ (Pruned(p) => Pruned(p)')
  BY <1>1 DEF Copied, Pruned, Mirr!Differs, Mirr!Is, Mirr!exists, Mirr!Children
<1>4. /\ phase \in {"call", "sync", "prune"} /\ left \subseteq {"sync", "prune"}
      /\ (phase = "call" => left = {"sync", "prune"}) /\ phase \notin left
      /\ \A p \in Path \ ToCopy : Copied(p)
      /\ \A p \in Path \ ToRemove : Pruned(p)
  BY <1>1, MirrorTrees DEF Halfway, MirrorInv, Mirr!TypeOK, Mirr!Halves
<1>5. CASE Mirr!syncDirectory
  <2>1. /\ phase' = "sync" /\ left' = left \ {"sync"} /\ "sync" \in left
        /\ todo' = {p \in Path : Mirr!exists(src, p)}
    BY <1>5 DEF Mirr!syncDirectory, Mirr!Begin
  <2>2. Mirr!TypeOK'
    BY <1>1, <1>4, <2>1 DEF MirrorInv, Mirr!TypeOK, Mirr!Halves
  <2>3. ToCopy' = todo' /\ ToRemove' = ToRemove
    BY <1>1, <1>4, <2>1 DEF ToCopy, ToRemove
  <2>4. \A p \in Path \ todo' : Copied(p)'
    BY <1>1, <2>1 DEF Copied, Mirr!Differs, Mirr!exists, Mirr!Is
  <2>5. \A p \in todo' : Mirr!exists(src, p)'
    BY <1>1, <2>1 DEF Mirr!exists, Mirr!Is
  <2>6. \A p \in Path \ ToRemove' : Pruned(p)'
    BY <1>3, <1>4, <2>3
  <2>7. Halfway'
    BY <2>1, <2>3, <2>4, <2>5, <2>6 DEF Halfway
  <2> QED
    BY <1>1, <1>2, <2>1, <2>2, <2>7 DEF MirrorInv
<1>6. CASE Mirr!pruneDirectory
  <2>1. /\ phase' = "prune" /\ left' = left \ {"prune"} /\ "prune" \in left
        /\ todo' = {p \in Path : Mirr!exists(dst, p) /\ ~Mirr!exists(src, p)}
    BY <1>6 DEF Mirr!pruneDirectory, Mirr!Begin
  <2>2. Mirr!TypeOK'
    BY <1>1, <1>4, <2>1 DEF MirrorInv, Mirr!TypeOK, Mirr!Halves
  <2>3. ToRemove' = todo' /\ ToCopy' = ToCopy
    BY <1>1, <1>4, <2>1 DEF ToCopy, ToRemove
  <2>4. \A p \in Path \ todo' : Pruned(p)' /\ Empty(p)'
    BY <1>1, <2>1 DEF Pruned, Empty, Mirr!exists, Mirr!Is
  <2>5. \A p \in todo' : ~Mirr!exists(src, p)'
    BY <1>1, <2>1 DEF Mirr!exists, Mirr!Is
  <2>6. \A p \in Path \ ToCopy' : Copied(p)'
    BY <1>3, <1>4, <2>3
  <2>7. Halfway'
    BY <2>1, <2>3, <2>4, <2>5, <2>6 DEF Halfway
  <2> QED
    BY <1>1, <1>2, <2>1, <2>2, <2>7 DEF MirrorInv
<1> QED
  BY <1>5, <1>6

LEMMA MirrorStep == MirrorInv /\ [Mirr!Next]_(Mirr!vars) => MirrorInv'
<1> SUFFICES ASSUME MirrorInv, [Mirr!Next]_(Mirr!vars) PROVE MirrorInv'
  OBVIOUS
<1>1. ASSUME NEW p \in Path, Mirr!Edits(p) PROVE MirrorInv'
  <2>1. now \in 0 .. MaxTime /\ MaxTime \in Nat /\ now < MaxTime
    BY <1>1, MirrorTrees DEF Mirr!Edits, Mirr!edit, Mirr!disturb
  <2>2. ASSUME NEW e \in Mirr!Other, Mirr!edit(p, e) \/ Mirr!disturb(p, e) PROVE MirrorInv'
    <3>1. e \in Mirr!SrcEntry /\ e \in Mirr!DstEntry /\ e.time = 0 /\ 0 <= now + 1
      BY <2>1, MirrorMakes DEF Mirr!Other, Mirr!Nothing, Mirr!Directory, Mirr!Special
    <3> QED
      BY <2>2, <3>1, MirrorEditStep
  <2>3. ASSUME NEW t \in 0 .. now + 1, NEW d \in Data, Mirr!edit(p, Mirr!File(d, t))
        PROVE  MirrorInv'
    <3>1. t \in 0 .. MaxTime /\ t <= now + 1
      BY <2>1
    <3>2. /\ Mirr!File(d, t) \in Mirr!SrcEntry /\ Mirr!File(d, t) \in Mirr!DstEntry
          /\ Mirr!File(d, t).time = t
      BY <3>1, MirrorMakes DEF Mirr!File
    <3> QED
      BY <2>3, <3>1, <3>2, MirrorEditStep
  <2>4. ASSUME NEW t \in 0 .. now + 1, Mirr!disturb(p, Mirr!File(Old, t))
        PROVE  MirrorInv'
    <3>1. t \in 0 .. MaxTime /\ t <= now + 1
      BY <2>1
    <3>2. Mirr!File(Old, t) \in Mirr!DstEntry /\ Mirr!File(Old, t).time = t
      BY <3>1, MirrorMakes DEF Mirr!File
    <3> QED
      BY <2>4, <3>1, <3>2, MirrorEditStep
  <2> QED
    BY <1>1, <2>2, <2>3, <2>4 DEF Mirr!Edits
<1>2. ASSUME Mirr!mirrorDirectory PROVE MirrorInv'
  <2>1. /\ phase' = "call" /\ left' = {"sync", "prune"} /\ kept' = {} /\ exact' = FALSE
        /\ UNCHANGED <<src, dst, todo, now, odd>>
    BY <1>2 DEF Mirr!mirrorDirectory, Mirr!Halves
  <2>2. Mirr!TypeOK'
    BY <2>1 DEF MirrorInv, Mirr!TypeOK, Mirr!Halves
  <2>3. NothingNewer' /\ NewerIsCopy'
    BY <2>1 DEF MirrorInv, NothingNewer, NewerIsCopy, Mirr!Is
  <2>4. Halfway'
    BY <2>1 DEF Halfway, ToCopy, ToRemove
  <2> QED
    BY <2>1, <2>2, <2>3, <2>4 DEF MirrorInv
<1>3. ASSUME Mirr!fail PROVE MirrorInv'
  BY <1>3, MirrorThrow DEF Mirr!fail
<1>4. ASSUME Mirr!return PROVE MirrorInv'
  <2>1. /\ phase # "idle" /\ todo = {} /\ left = {} /\ phase' = "idle" /\ exact' = TRUE
        /\ UNCHANGED <<src, dst, left, todo, now, kept, odd>> /\ Halfway
    BY <1>4 DEF Mirr!return, MirrorInv
  <2>2. Mirr!TypeOK'
    BY <2>1 DEF MirrorInv, Mirr!TypeOK
  <2>3. NothingNewer' /\ NewerIsCopy'
    BY <2>1 DEF MirrorInv, NothingNewer, NewerIsCopy, Mirr!Is
  <2>4. \A p \in Path : Copied(p) /\ Pruned(p)
    BY <2>1 DEF Halfway, ToCopy, ToRemove
  <2>5. Mirr!MirrorExactButOdd'
    BY <2>1, <2>4 DEF Mirr!MirrorExactButOdd, Mirr!SameTree, Mirr!Differs, Copied, Pruned,
       Mirr!exists, Mirr!Is, Mirr!Children
  <2> QED
    BY <2>1, <2>2, <2>3, <2>5 DEF MirrorInv
<1>5. CASE UNCHANGED Mirr!vars
  <2> USE <1>5 DEF Mirr!vars
  <2>1. Mirr!TypeOK' /\ NothingNewer' /\ NewerIsCopy'
    BY DEF MirrorInv, Mirr!TypeOK, NothingNewer, NewerIsCopy, Mirr!Is
  <2>2. Mirr!MirrorExactButOdd' = Mirr!MirrorExactButOdd
    BY DEF Mirr!MirrorExactButOdd, Mirr!SameTree, Mirr!Differs, Mirr!Is, Mirr!exists,
           Mirr!Children
  <2>3. \A p \in Path : /\ Copied(p)' = Copied(p) /\ Pruned(p)' = Pruned(p)
                        /\ Empty(p)' = Empty(p)
    BY DEF Copied, Pruned, Empty, Mirr!Differs, Mirr!Is, Mirr!exists, Mirr!Children
  <2>4. \A p \in Path : Mirr!exists(src, p)' = Mirr!exists(src, p)
    BY DEF Mirr!Is, Mirr!exists
  <2>5. todo \subseteq Path /\ ToCopy' = ToCopy /\ ToRemove' = ToRemove
    BY DEF MirrorInv, Mirr!TypeOK, ToCopy, ToRemove
  <2>6. Halfway => Halfway'
    BY <2>3, <2>4, <2>5 DEF Halfway
  <2> QED
    BY <2>1, <2>2, <2>6 DEF MirrorInv
<1> QED
  BY <1>1, <1>2, <1>3, <1>4, <1>5, MirrorBeginStep, MirrorSyncStep, MirrorRemoveStep
     DEF Mirr!Next

LEMMA MirrorInvariant == Mirr!Spec => []MirrorInv
BY MirrorInit, MirrorStep, PTL DEF Mirr!Spec

LEMMA MirrorReturns == MirrorInv => Mirr!MirrorExactButOdd
BY DEF MirrorInv, Mirr!MirrorExactButOdd

---------------------------------------------------------------------------
(* The composition                                                           *)

\* Whatever is moved, swapped, closed or replaced, and whatever fails, each open
\* handle has one object that will close it, and no object has a closed one.
THEOREM HandlesHaveOwners == Spec => []HandlesAccounted
BY PartsAsAlone, ZipHandles, PTL DEF HandlesAccounted

\* Wherever replace() fails, the archive it was to replace is an archive still.
THEOREM ReplaceIsSafe == Spec => OldArchiveKept
BY PartsAsAlone, ZipReplaces DEF OldArchiveKept

\* Every file of ours has one object that will remove it, unless a removal has
\* failed, however files are moved and whatever other processes do meanwhile.
THEOREM FilesHaveOwners == Spec => []OneOwner
BY PartsAsAlone, TempFileOwners, PTL DEF OneOwner

\* For every tree, and whatever happened to it and to its copy before: when
\* mirrorDirectory() has returned the trees are the same, but for what could not
\* be removed, and so are the files, but for those that were edited behind the
\* back of their times.  Of the others, what the destination has under a newer
\* time is a copy, whole or cut off, which comparing the sizes tells apart.
THEOREM MirrorsAreExact == Spec => []MirrorExactButOdd
BY PartsAsAlone, MirrorInvariant, MirrorReturns, PTL DEF MirrorExactButOdd
============================================================================
