------------------------- MODULE SetDocumentProofs -------------------------
(***************************************************************************)
(* What is saved survives, whatever the values of the constants: with any  *)
(* number of fields, paths, names and images, with failing calls, crashes  *)
(* and undo across saves; where a write has failed unnoticed, again from   *)
(* the next save on in which none does.                                    *)
(*                                                                         *)
(* The invariant DocumentInv has the types, and follows a save to a zip    *)
(* file: what is asked for is the document with all it refers to (ZipAsked,*)
(* which needs that the entries of the old archive can still be read,      *)
(* Streamed), so that the archive written is complete before anything at   *)
(* its path is touched, or known as one that is not (NewArchiveComplete),  *)
(* and what is renamed to .bak is there (BackedUp).                        *)
(*                                                                         *)
(* The second part is about calm use, in which the images in memory and on *)
(* disk are the right ones as well (CalmInv).                              *)
(***************************************************************************)
EXTENDS SetDocument, SequenceTheorems, WellFoundedInduction, TLAPS

-----------------------------------------------------------------------------
SaveSteps == {"idle", "zip", "backup", "rename", "commit", "clean", "dir", "dir rename"}
ZipSteps == {"zip", "backup", "rename", "commit", "clean"}
WrittenSteps == {"backup", "rename", "commit", "clean"}
DirSteps == {"dir", "dir rename"}

Archives == {a \in UNION {[S -> AllContents] : S \in SUBSET FileNames} :
               \A n \in DOMAIN a : a[n] \in Contents(n)}

FileRecord == [keep : BOOLEAN, written : BOOLEAN, entry : BOOLEAN]

FilesType ==
  /\ DOMAIN files \subseteq FileNames
  /\ files \in [DOMAIN files -> FileRecord]

MemoryType ==
  /\ filename \in Paths \cup {NoPath}
  /\ stream \in Archives \cup {None}
  /\ temps = [n \in FileNames |-> temps[n]]
  /\ \A n \in FileNames : temps[n] \in Contents(n) \cup {None}

DiskType ==
  /\ disk \in [Paths -> Archives \cup {None}]
  /\ tmp \in [Paths -> Archives \cup {None}]
  /\ bak \in [Paths -> Archives \cup {None}]
  /\ \A p \in DirPaths : disk[p] # None

ProgressType ==
  /\ pc \in SaveSteps
  /\ job \in [to : Paths, copy : BOOLEAN, cut : BOOLEAN]
  /\ job.cut => Faults
  /\ pc \in ZipSteps => job.to \notin DirPaths
  /\ pc \in DirSteps => job.to \in DirPaths /\ ~job.copy /\ todo \subseteq Known
  /\ pc = "dir rename" => todo # {}
  /\ mode # "open" => pc = "idle"

HistoryType ==
  /\ hist \in Seq(Doc)
  /\ pos \in 1..Len(hist)
  /\ savedPos \in Nat
  /\ images \in 0..MaxImage
  /\ saved = [p \in Zips |-> saved[p]]
  /\ torn \subseteq Zips

\* A record that says its file is an entry of the archive is right.
Streamed ==
  mode # "crashed" /\ (pc \in WrittenSteps => job.copy) =>
    \A n \in Known : files[n].entry => Holds(stream, n)

\* What is about to be written is the document and all it refers to.
ZipAsked ==
  pc = "zip" => /\ Data \in Kept /\ files[Data].written /\ Refers(doc) \subseteq Kept
                /\ job.cut \/ temps[Data] = DocFile(doc)

\* What is about to be committed is a complete archive of it, or a write has
\* failed and is known to have.
NewArchiveComplete ==
  pc \in {"backup", "rename", "commit"} =>
    tmp[job.to] # None /\ (job.cut \/ Complete(tmp[job.to], doc))

\* The backup that is removed is replaced by an archive that exists.
BackedUp == pc = "rename" => disk[job.to] # None

DocumentInv == /\ FilesType /\ MemoryType /\ DiskType /\ ProgressType /\ HistoryType
               /\ Streamed /\ ZipAsked /\ NewArchiveComplete /\ BackedUp /\ SavedSurvives

-----------------------------------------------------------------------------
(* Names, documents and archives.                                            *)

\* A set of numbers that is not empty has a smallest.
LEMMA SmallestNumber ==
  ASSUME NEW S \in SUBSET Nat, S # {}
  PROVE  \E n \in S : \A m \in S : n <= m
  <1>1. PICK n \in S : \A m \in S : ~(<<m, n>> \in OpToRel(<, Nat))
    BY NatLessThanWellFounded, WFMin
  <1>2. ASSUME NEW m \in S
        PROVE  n <= m
    <2>1. m < n => <<m, n>> \in OpToRel(<, Nat)
      BY DEF OpToRel
    <2>2. ~(m < n)
      BY <1>1, <2>1
    <2>3. m \in Nat /\ n \in Nat
      OBVIOUS
    <2> QED BY <2>2, <2>3
  <1> QED BY <1>2

\* The data file has a name of its own, after those of the images.
LEMMA NamesApart ==
  /\ Data \in Nat /\ Data \in FileNames /\ Data \notin Names
  /\ Names \subseteq FileNames /\ FileNames \subseteq Nat
  /\ NoName \notin FileNames
  BY BoundsAssumption DEF Data, Names, FileNames, NoName

\* newFileName finds a name that is not taken, as long as there is one.
LEMMA UnusedNameIsUnused ==
  ASSUME Names \ Known # {}
  PROVE  UnusedName \in Names \ Known
  <1>1. PICK n \in Names \ Known : \A m \in Names \ Known : n <= m
    BY SmallestNumber, NamesApart
  <1> QED BY <1>1 DEF UnusedName

\* A directory is written file by file, of those still to do.
LEMMA NextIsToDo ==
  ASSUME todo \subseteq FileNames, todo # {}
  PROVE  Next1 \in todo
  <1>1. PICK n \in todo : \A m \in todo : n <= m
    BY SmallestNumber, NamesApart
  <1> QED BY <1>1 DEF Next1, Min

\* None is no document, no archive and not what is in a file.
LEMMA NoneIsNothing ==
  /\ None \notin Doc
  /\ None \notin Archives
  /\ \A n \in FileNames : None \notin Contents(n)
  <1>1. None \notin Doc /\ None \notin AllContents
    BY NoneAssumption
  <1>2. \A n \in FileNames : None \notin Contents(n)
    BY <1>1 DEF AllContents
  <1>3. None \notin UNION {[S -> AllContents] : S \in SUBSET FileNames}
    BY NoneAssumption
  <1> QED BY <1>1, <1>2, <1>3 DEF Archives

\* A function from file names to what can be in these files is an archive.
LEMMA MakeArchive ==
  ASSUME NEW S \in SUBSET FileNames, NEW a,
         a = [n \in S |-> a[n]], \A n \in S : a[n] \in Contents(n)
  PROVE  a \in Archives /\ a # None /\ DOMAIN a = S
  <1>1. DOMAIN a = S
    OBVIOUS
  <1>2. \A n \in S : a[n] \in AllContents
    BY DEF AllContents
  <1>3. a \in [S -> AllContents]
    BY <1>2
  <1>4. a \in UNION {[T -> AllContents] : T \in SUBSET FileNames}
    BY <1>3
  <1>5. a \in Archives
    BY <1>1, <1>4 DEF Archives
  <1> QED BY <1>1, <1>5, NoneIsNothing

\* And the other way around.
LEMMA ArchiveProperties ==
  ASSUME NEW a \in Archives
  PROVE  /\ a # None
         /\ DOMAIN a \subseteq FileNames
         /\ a = [n \in DOMAIN a |-> a[n]]
         /\ \A n \in DOMAIN a : Holds(a, n) /\ a[n] \in Contents(n)
  <1>1. PICK S \in SUBSET FileNames : a \in [S -> AllContents]
    <2>1. a \in UNION {[T -> AllContents] : T \in SUBSET FileNames}
      BY DEF Archives
    <2> QED BY <2>1
  <1>2. \A n \in DOMAIN a : a[n] \in Contents(n)
    BY DEF Archives
  <1>3. a # None
    BY NoneIsNothing
  <1>4. DOMAIN a = S /\ a = [n \in S |-> a[n]]
    BY <1>1
  <1> QED BY <1>2, <1>3, <1>4 DEF Holds

\* The data file holds a document, or what was written of one.
LEMMA DataContents ==
  /\ \A d \in Doc \cup {None} : DocFile(d) \in Contents(Data) /\ DocFile(d).doc = d
  /\ \A c \in Contents(Data) : c.doc \in Doc \cup {None} /\ c = DocFile(c.doc)
  <1>1. \A d : DocFile(d).doc = d
    BY DEF DocFile
  <1>2. Contents(Data) = {DocFile(d) : d \in Doc \cup {None}}
    BY DEF Contents
  <1> QED BY <1>1, <1>2

\* The other files hold images.
LEMMA ImageContents ==
  ASSUME NEW n \in Names, NEW i \in 0..MaxImage
  PROVE  ImageFile(i) \in Contents(n)
  BY NamesApart DEF Contents

\* What a document refers to are names of images.
LEMMA RefersToNames ==
  ASSUME NEW d \in Doc
  PROVE  /\ Refers(d) \subseteq Names
         /\ \A f \in Fields : d[f] \in Value /\ d[f].name \in Names \cup {NoName}
         /\ \A f \in Fields : d[f].name # NoName => d[f].name \in Refers(d)
  <1>1. \A f \in Fields : d[f] \in Value
    BY DEF Doc
  <1>2. \A f \in Fields : d[f].name \in Names \cup {NoName}
    BY <1>1 DEF Value
  <1> QED BY <1>1, <1>2 DEF Refers

\* A document whose references are all known is written to the end, and all
\* of them are kept.
LEMMA ReferableMeans ==
  ASSUME NEW d \in Doc, Referable(d)
  PROVE  /\ \A f \in Fields : d[f].name \in Known \cup {NoName}
         /\ Refers(d) \subseteq References(d) /\ Refers(d) \subseteq Known
  <1>1. \A f \in Fields : f \in Before(d)
    BY DEF Referable
  <1>2. ASSUME NEW f \in Fields
        PROVE  d[f].name \in Known \cup {NoName}
    <2>1. f <= f
      BY FieldsAssumption
    <2> QED BY <1>1, <2>1 DEF Before
  <1> QED BY <1>1, <1>2 DEF Refers, References

LEMMA KnownIsReferable ==
  ASSUME NEW d \in Doc, Refers(d) \subseteq Known
  PROVE  Referable(d)
  <1>1. \A f \in Fields : d[f].name \in Known \cup {NoName}
    BY DEF Refers
  <1> QED BY <1>1 DEF Referable, Before

-----------------------------------------------------------------------------
(* Records of files, and the history.                                        *)

\* nameOut adds a record or finds it, and marks it.
LEMMA WrittenFile ==
  ASSUME FilesType, NEW n \in FileNames, NEW w,
         w = [WithFile(n) EXCEPT ![n].written = TRUE]
  PROVE  /\ DOMAIN w = Known \cup {n}
         /\ w \in [Known \cup {n} -> FileRecord]
         /\ w[n].written
         /\ \A m \in Known \ {n} : w[m] = files[m]
         /\ w[n].entry => n \in Known /\ files[n].entry
         /\ w[n].keep => n \in Known /\ files[n].keep
  <1>1. NewFile \in FileRecord /\ ~NewFile.entry /\ ~NewFile.keep
    BY DEF NewFile, FileRecord
  <1>2. files \in [Known -> FileRecord]
    BY DEF FilesType, Known
  <1>3. CASE n \in Known
    <2>1. w = [files EXCEPT ![n].written = TRUE] /\ Known \cup {n} = Known
      BY <1>3 DEF WithFile
    <2>2. w = [files EXCEPT ![n] = [files[n] EXCEPT !.written = TRUE]]
      BY <2>1
    <2>3. /\ [files[n] EXCEPT !.written = TRUE] \in FileRecord
          /\ [files[n] EXCEPT !.written = TRUE].written
          /\ [files[n] EXCEPT !.written = TRUE].entry = files[n].entry
          /\ [files[n] EXCEPT !.written = TRUE].keep = files[n].keep
      <3>1. files[n] \in FileRecord
        BY <1>2, <1>3
      <3> QED BY <3>1 DEF FileRecord
    <2>4. w[n] = [files[n] EXCEPT !.written = TRUE]
      BY <1>2, <1>3, <2>2
    <2>5. \A m \in Known \ {n} : w[m] = files[m]
      BY <1>2, <2>2
    <2>6. w \in [Known -> FileRecord] /\ DOMAIN w = Known
      BY <1>2, <2>2, <2>3
    <2> QED BY <1>3, <2>1, <2>3, <2>4, <2>5, <2>6
  <1>4. CASE n \notin Known
    <2> DEFINE g == [m \in Known \cup {n} |-> IF m = n THEN NewFile ELSE files[m]]
    <2>1. w = [g EXCEPT ![n] = [g[n] EXCEPT !.written = TRUE]]
      BY <1>4 DEF WithFile
    <2>2. DOMAIN g = Known \cup {n} /\ g[n] = NewFile /\ \A m \in Known \ {n} : g[m] = files[m]
      OBVIOUS
    <2>3. g \in [Known \cup {n} -> FileRecord]
      BY <1>1, <1>2
    <2> HIDE DEF g
    <2>4. /\ [NewFile EXCEPT !.written = TRUE] \in FileRecord
          /\ [NewFile EXCEPT !.written = TRUE].written
          /\ ~[NewFile EXCEPT !.written = TRUE].entry
          /\ ~[NewFile EXCEPT !.written = TRUE].keep
      BY DEF NewFile, FileRecord
    <2>5. w = [g EXCEPT ![n] = [NewFile EXCEPT !.written = TRUE]]
      BY <2>1, <2>2
    <2>6. w[n] = [NewFile EXCEPT !.written = TRUE] /\ DOMAIN w = Known \cup {n}
      BY <2>2, <2>5
    <2>7. \A m \in Known \ {n} : w[m] = files[m]
      BY <2>2, <2>5
    <2>8. w \in [Known \cup {n} -> FileRecord]
      BY <2>3, <2>4, <2>5
    <2> QED BY <2>4, <2>6, <2>7, <2>8
  <1> QED BY <1>3, <1>4

\* referenceFile marks some records and leaves the rest of them alone.
LEMMA KeepingMarks ==
  ASSUME NEW S, NEW s \in [S -> FileRecord], NEW keep
  PROVE  /\ DOMAIN Keeping(s, keep) = S
         /\ Keeping(s, keep) \in [S -> FileRecord]
         /\ \A n \in S : /\ Keeping(s, keep)[n].written = s[n].written
                         /\ Keeping(s, keep)[n].entry = s[n].entry
                         /\ Keeping(s, keep)[n].keep = (s[n].keep \/ n \in keep)
  <1> DEFINE r(n) == [s[n] EXCEPT !.keep = @ \/ n \in keep]
  <1>1. Keeping(s, keep) = [n \in S |-> r(n)]
    BY DEF Keeping
  <1>2. ASSUME NEW n \in S
        PROVE  /\ r(n) \in FileRecord /\ r(n).written = s[n].written /\ r(n).entry = s[n].entry
               /\ r(n).keep = (s[n].keep \/ n \in keep)
    <2>1. s[n] \in FileRecord
      OBVIOUS
    <2> QED BY <2>1 DEF FileRecord
  <1> HIDE DEF r
  <1>3. DOMAIN Keeping(s, keep) = S /\ \A n \in S : Keeping(s, keep)[n] = r(n)
    BY <1>1
  <1>4. Keeping(s, keep) \in [S -> FileRecord]
    BY <1>1, <1>2
  <1> QED BY <1>2, <1>3, <1>4

LEMMA DocIsDocument ==
  ASSUME HistoryType
  PROVE  doc \in Doc
  BY ElementOfSeq DEF HistoryType, doc

\* addAction drops what could be redone, and the save point with it.
LEMMA NewAction ==
  ASSUME HistoryType, NEW d \in Doc, Do(d)
  PROVE  /\ hist' \in Seq(Doc) /\ pos' = pos + 1 /\ Len(hist') = pos + 1
         /\ \A i \in 1..pos : hist'[i] = hist[i]
         /\ hist'[pos + 1] = d
         /\ (savedPos' = savedPos /\ savedPos <= pos) \/ savedPos' = 0
  <1> DEFINE s == SubSeq(hist, 1, pos)
  <1>1. hist \in Seq(Doc) /\ pos \in 1..Len(hist) /\ savedPos \in Nat /\ Len(hist) \in Nat
    BY LenProperties DEF HistoryType
  <1>2. s \in Seq(Doc) /\ Len(s) = pos /\ \A i \in 1..pos : s[i] = hist[i]
    BY <1>1
  <1>3. hist' = Append(s, d) /\ pos' = pos + 1
    BY DEF Do
  <1> HIDE DEF s
  <1>4. hist' \in Seq(Doc) /\ Len(hist') = pos + 1 /\ hist'[pos + 1] = d
    BY <1>1, <1>2, <1>3
  <1>5. \A i \in 1..pos : hist'[i] = hist[i]
    BY <1>1, <1>2, <1>3
  <1>6. (savedPos' = savedPos /\ savedPos <= pos) \/ savedPos' = 0
    <2>1. savedPos' = IF savedPos > pos THEN 0 ELSE savedPos
      BY DEF Do
    <2>2. savedPos > pos \/ savedPos <= pos
      BY <1>1
    <2> QED BY <2>1, <2>2
  <1> QED BY <1>3, <1>4, <1>5, <1>6

-----------------------------------------------------------------------------
(* The beginning, and the edits.                                             *)

LEMMA DocumentInit == Init => DocumentInv
  <1> SUFFICES ASSUME Init PROVE DocumentInv
    OBVIOUS
  <1> USE DEF Init, PackageInit
  <1>1. FilesType /\ Known = {}
    BY DEF FilesType, Known
  <1>2. MemoryType
    BY NamesApart DEF MemoryType, NoTemps
  <1>3. DiskType
    <2>1. << >> \in Archives
      <3>1. << >> = [n \in {} |-> << >>[n]]
        OBVIOUS
      <3> QED BY <3>1, MakeArchive
    <2>2. disk \in [Paths -> Archives \cup {None}] /\ \A p \in DirPaths : disk[p] # None
      BY <2>1, NoneIsNothing, PathsAssumption
    <2> QED BY <2>2 DEF DiskType
  <1>4. ProgressType
    BY DEF ProgressType, SaveSteps, ZipSteps, DirSteps, Known
  <1>5. HistoryType
    <2>1. Empty \in Value
      BY BoundsAssumption DEF Empty, Value, NoName
    <2>2. [f \in Fields |-> Empty] \in Doc
      BY <2>1 DEF Doc
    <2>3. 0 \in 0..MaxImage
      BY BoundsAssumption
    <2> QED BY <2>2, <2>3 DEF HistoryType
  <1>6. Streamed /\ ZipAsked /\ NewArchiveComplete /\ BackedUp
    BY <1>1 DEF Streamed, ZipAsked, NewArchiveComplete, BackedUp
  <1>7. SavedSurvives
    BY DEF SavedSurvives
  <1> QED BY <1>1, <1>2, <1>3, <1>4, <1>5, <1>6, <1>7 DEF DocumentInv

\* Nothing but a save changes what is on the disk.
LEMMA DiskStays ==
  ASSUME DiskType, UNCHANGED outside
  PROVE  DiskType'
  BY DEF DiskType, outside

LEMMA SavedStays ==
  ASSUME SavedSurvives, UNCHANGED <<disk, bak, saved, torn>>
  PROVE  SavedSurvives'
  BY DEF SavedSurvives, Complete, Holds

\* A step that brings no archive to a zip file's path commits nothing.
LEMMA NothingArrives ==
  ASSUME HistoryType, Arrived, \A p \in Zips : disk'[p] \in {disk[p], None}
  PROVE  UNCHANGED <<saved, torn>>
  BY DEF HistoryType, Arrived, Renewed

LEMMA Assigning ==
  ASSUME DocumentInv, NEW f \in Fields, assign(f)
  PROVE  DocumentInv'
  <1> DEFINE n == UnusedName
  <1>1. n \in Names /\ n \notin Known /\ n \in FileNames /\ n # Data
    BY UnusedNameIsUnused, NamesApart DEF assign
  <1>2. images' \in 0..MaxImage
    BY BoundsAssumption DEF assign, DocumentInv, HistoryType
  <1> HIDE DEF n
  <1>3. /\ DOMAIN files' = Known \cup {n} /\ files' \in [Known \cup {n} -> FileRecord]
        /\ \A m \in Known : files'[m] = files[m]
        /\ ~files'[n].entry
    <2>1. files' = [WithFile(n) EXCEPT ![n].written = TRUE]
      BY DEF assign, WriteOut, n
    <2> QED BY <1>1, <2>1, WrittenFile DEF DocumentInv
  <1>4. temps' \in {[temps EXCEPT ![n] = ImageFile(images')], [temps EXCEPT ![n] = ImageFile(0)]}
    BY <1>1 DEF assign, WriteOut, Broken, n
  <1>5. FilesType'
    BY <1>1, <1>3 DEF FilesType, Known, DocumentInv
  <1>6. MemoryType'
    <2>1. ImageFile(images') \in Contents(n) /\ ImageFile(0) \in Contents(n)
      BY <1>1, <1>2, ImageContents, BoundsAssumption
    <2>2. temps' = [m \in FileNames |-> temps'[m]]
          /\ \A m \in FileNames : temps'[m] \in Contents(m) \cup {None}
      BY <1>4, <2>1 DEF DocumentInv, MemoryType
    <2>3. UNCHANGED <<filename, stream>>
      BY DEF assign
    <2> QED BY <2>2, <2>3 DEF DocumentInv, MemoryType
  <1>7. DiskType' /\ SavedSurvives'
    BY DiskStays, SavedStays DEF DocumentInv, assign, outside, commits
  <1>8. ProgressType'
    <2>1. Known \subseteq Known'
      BY <1>3 DEF Known
    <2> QED BY <2>1 DEF DocumentInv, ProgressType, assign, progress, window
  <1>9. HistoryType'
    <2> DEFINE v == [name |-> n, image |-> images']
               d == [doc EXCEPT ![f] = v]
    <2>1. doc \in Doc
      BY DocIsDocument DEF DocumentInv
    <2>2. v \in Value
      BY <1>1, <1>2 DEF Value
    <2>3. d \in Doc
      BY <2>1, <2>2 DEF Doc
    <2>4. Do(d)
      BY DEF assign, n
    <2> HIDE DEF d
    <2>5. /\ hist' \in Seq(Doc) /\ pos' = pos + 1 /\ Len(hist') = pos + 1
          /\ savedPos' \in {savedPos, 0}
      BY <2>3, <2>4, NewAction DEF DocumentInv
    <2>6. pos \in Nat /\ savedPos \in Nat
      BY LenProperties DEF DocumentInv, HistoryType
    <2>7. pos' \in 1..Len(hist') /\ savedPos' \in Nat
      BY <2>5, <2>6
    <2>8. UNCHANGED <<saved, torn>>
      BY DEF assign, commits
    <2> QED BY <1>2, <2>5, <2>7, <2>8 DEF DocumentInv, HistoryType
  <1>10. Streamed'
    BY <1>3 DEF DocumentInv, Streamed, Known, assign, progress, window, Holds
  <1>11. pc' = "idle"
    BY DEF assign, Idle, progress
  <1> QED BY <1>5, <1>6, <1>7, <1>8, <1>9, <1>10, <1>11
         DEF DocumentInv, ZipAsked, NewArchiveComplete, BackedUp

LEMMA Clearing ==
  ASSUME DocumentInv, NEW f \in Fields, clear(f)
  PROVE  DocumentInv'
  <1> DEFINE d == [doc EXCEPT ![f] = Empty]
  <1>1. d \in Doc
    <2>1. doc \in Doc
      BY DocIsDocument DEF DocumentInv
    <2>2. Empty \in Value
      BY BoundsAssumption DEF Empty, Value, NoName
    <2> QED BY <2>1, <2>2 DEF Doc
  <1>2. Do(d)
    BY DEF clear
  <1> HIDE DEF d
  <1>3. HistoryType'
    <2>1. /\ hist' \in Seq(Doc) /\ pos' = pos + 1 /\ Len(hist') = pos + 1
          /\ savedPos' \in {savedPos, 0}
      BY <1>1, <1>2, NewAction DEF DocumentInv
    <2>2. pos \in Nat /\ savedPos \in Nat
      BY LenProperties DEF DocumentInv, HistoryType
    <2>3. pos' \in 1..Len(hist') /\ savedPos' \in Nat
      BY <2>1, <2>2
    <2> QED BY <2>1, <2>3 DEF DocumentInv, HistoryType, clear, commits
  <1>4. UNCHANGED <<package, mode, saved, torn>> /\ pc = "idle"
    BY DEF clear, window, commits, Idle
  <1>5. FilesType' /\ MemoryType' /\ DiskType' /\ ProgressType' /\ Streamed' /\ SavedSurvives'
    BY <1>4, DiskStays, SavedStays
       DEF DocumentInv, FilesType, MemoryType, ProgressType, Streamed, Known, Holds,
           package, inside, outside, progress
  <1>6. pc' = "idle"
    BY <1>4 DEF package, progress
  <1> QED BY <1>3, <1>5, <1>6 DEF DocumentInv, ZipAsked, NewArchiveComplete, BackedUp

LEMMA Moving ==
  ASSUME DocumentInv, NEW i \in DOMAIN hist, move(i)
  PROVE  DocumentInv'
  <1>1. HistoryType'
    <2>1. i \in 1..Len(hist)
      BY LenProperties DEF DocumentInv, HistoryType
    <2> QED BY <2>1 DEF DocumentInv, HistoryType, move, commits
  <1>2. UNCHANGED <<package, mode, saved, torn>> /\ pc = "idle"
    BY DEF move, window, commits, Idle
  <1>3. FilesType' /\ MemoryType' /\ DiskType' /\ ProgressType' /\ Streamed' /\ SavedSurvives'
    BY <1>2, DiskStays, SavedStays
       DEF DocumentInv, FilesType, MemoryType, ProgressType, Streamed, Known, Holds,
           package, inside, outside, progress
  <1>4. pc' = "idle"
    BY <1>2 DEF package, progress
  <1> QED BY <1>1, <1>3, <1>4 DEF DocumentInv, ZipAsked, NewArchiveComplete, BackedUp

-----------------------------------------------------------------------------
(* Saving.                                                                   *)

\* A save begins by writing the data file, which marks what it refers to.
LEMMA SaveStarts ==
  ASSUME DocumentInv, NEW to \in Paths, NEW copy \in BOOLEAN, startSave(to, copy, doc)
  PROVE  /\ DOMAIN files' = Known \cup {Data} /\ files' \in [Known \cup {Data} -> FileRecord]
         /\ \A n \in Known \ {Data} : /\ files'[n].written = files[n].written
                                      /\ files'[n].entry = files[n].entry
         /\ files'[Data].written
         /\ files'[Data].entry => Data \in Known /\ files[Data].entry
         /\ Referable(doc) => Data \in Kept' /\ Refers(doc) \subseteq Kept'
  <1> DEFINE s == [WithFile(Data) EXCEPT ![Data].written = TRUE]
             keep == References(doc) \cup (IF Referable(doc) THEN {Data} ELSE {})
  <1>1. files' = Keeping(s, keep)
    BY DEF startSave
  <1>2. /\ s \in [Known \cup {Data} -> FileRecord] /\ s[Data].written
        /\ \A m \in Known \ {Data} : s[m] = files[m]
        /\ s[Data].entry => Data \in Known /\ files[Data].entry
    BY NamesApart, WrittenFile DEF DocumentInv
  <1> HIDE DEF s, keep
  <1>3. /\ DOMAIN files' = Known \cup {Data} /\ files' \in [Known \cup {Data} -> FileRecord]
        /\ \A n \in Known \cup {Data} : /\ files'[n].written = s[n].written
                                        /\ files'[n].entry = s[n].entry
                                        /\ files'[n].keep = (s[n].keep \/ n \in keep)
    BY <1>1, <1>2, KeepingMarks
  <1>4. ASSUME Referable(doc)
        PROVE  Data \in Kept' /\ Refers(doc) \subseteq Kept'
    <2>1. Data \in keep /\ Refers(doc) \subseteq keep /\ Refers(doc) \subseteq Known
      BY <1>4, DocIsDocument, ReferableMeans DEF keep, DocumentInv
    <2> QED BY <1>3, <2>1 DEF Kept, Known
  <1> QED BY <1>2, <1>3, <1>4

LEMMA StartingSave ==
  ASSUME DocumentInv, NEW to \in Paths, NEW copy \in BOOLEAN, mode = "open",
         startSave(to, copy, doc), UNCHANGED <<history, mode, saved, torn>>
  PROVE  DocumentInv'
  <1>1. doc \in Doc /\ UNCHANGED doc
    BY DocIsDocument DEF DocumentInv, history, doc
  <1>2. /\ pc = "idle" /\ (to \in DirPaths => ~copy)
        /\ UNCHANGED <<filename, stream, disk, tmp, bak>>
    BY DEF startSave, outside
  <1>3. /\ DOMAIN files' = Known \cup {Data} /\ files' \in [Known \cup {Data} -> FileRecord]
        /\ files'[Data].written
        /\ \A n \in Known' : files'[n].entry => n \in Known /\ files[n].entry
    BY SaveStarts DEF Known
  <1>4. FilesType'
    BY <1>3, NamesApart DEF FilesType, Known, DocumentInv
  <1>5. MemoryType'
    <2>1. PICK c \in {DocFile(doc), DocFile(None)} : temps' = [temps EXCEPT ![Data] = c]
      BY DEF startSave, Broken
    <2>2. c \in Contents(Data)
      BY <1>1, DataContents
    <2>3. temps' = [m \in FileNames |-> temps'[m]]
          /\ \A m \in FileNames : temps'[m] \in Contents(m) \cup {None}
      BY <2>1, <2>2 DEF DocumentInv, MemoryType
    <2> QED BY <1>2, <2>3 DEF DocumentInv, MemoryType
  <1>6. DiskType' /\ SavedSurvives'
    BY <1>2, DiskStays, SavedStays DEF DocumentInv, outside
  <1>7. HistoryType'
    BY DEF DocumentInv, HistoryType, history
  <1>8. Streamed'
    <2>1. \A n \in Known : files[n].entry => Holds(stream, n)
      BY <1>2 DEF DocumentInv, Streamed, WrittenSteps
    <2> QED BY <1>2, <1>3, <2>1 DEF Streamed, Holds
  <1>9. CASE Referable(doc)
    <2>1. PICK cut \in BOOLEAN :
            /\ cut => Faults
            /\ job' = [to |-> to, copy |-> copy, cut |-> cut]
            /\ temps' = [temps EXCEPT ![Data] = IF cut THEN Broken(Data) ELSE DocFile(doc)]
            /\ pc' = IF to \in DirPaths THEN "dir" ELSE "zip"
            /\ todo' = IF to \in DirPaths THEN DOMAIN files' ELSE {}
      BY <1>9 DEF startSave
    <2>2. ProgressType'
      <3>1. job' \in [to : Paths, copy : BOOLEAN, cut : BOOLEAN] /\ (job'.cut => Faults)
        <4>1. cut \in BOOLEAN /\ (cut => Faults)
          BY <2>1
        <4>2. job' = [to |-> to, copy |-> copy, cut |-> cut]
          BY <2>1
        <4> QED BY <4>1, <4>2
      <3> QED BY <1>2, <2>1, <3>1 DEF ProgressType, SaveSteps, ZipSteps, DirSteps, Known
    <2>3. ZipAsked'
      <3>1. job'.cut = cut /\ (cut \/ temps'[Data] = DocFile(doc))
        BY <2>1, NamesApart DEF DocumentInv, MemoryType
      <3>2. Data \in Kept' /\ Refers(doc) \subseteq Kept'
        BY <1>9, SaveStarts
      <3>3. Refers(doc)' = Refers(doc)
        BY <1>1 DEF Refers
      <3> QED BY <1>1, <1>3, <3>1, <3>2, <3>3 DEF ZipAsked
    <2>4. NewArchiveComplete' /\ BackedUp'
      BY <2>1 DEF NewArchiveComplete, BackedUp
    <2> QED BY <1>4, <1>5, <1>6, <1>7, <1>8, <2>2, <2>3, <2>4 DEF DocumentInv
  <1>10. CASE ~Referable(doc)
    <2>1. UNCHANGED progress
      BY <1>10 DEF startSave
    <2>2. ProgressType'
      BY <1>2, <2>1 DEF DocumentInv, ProgressType, progress, ZipSteps, DirSteps
    <2>3. ZipAsked' /\ NewArchiveComplete' /\ BackedUp'
      BY <1>2, <2>1 DEF ZipAsked, NewArchiveComplete, BackedUp, progress
    <2> QED BY <1>4, <1>5, <1>6, <1>7, <1>8, <2>2, <2>3 DEF DocumentInv
  <1> QED BY <1>9, <1>10

\* What is read of a file is what can be in it.
LEMMA ReadIsContents ==
  ASSUME FilesType, MemoryType, DiskType, NEW n \in Known, Readable(n)
  PROVE  ReadIn(n) \in Contents(n)
  <1>1. n \in FileNames
    BY DEF FilesType, Known
  <1>2. CASE Written(n)
    BY <1>1, <1>2 DEF Readable, ReadIn, MemoryType
  <1>3. CASE ~Written(n)
    <2>1. filename \in Paths /\ Holds(disk[filename], n)
      BY <1>3, PathsAssumption DEF Readable, InDir, InZip
    <2>2. disk[filename] \in Archives
      BY <2>1 DEF DiskType, Holds
    <2>3. disk[filename][n] \in Contents(n)
      BY <2>1, <2>2, ArchiveProperties DEF Holds
    <2> QED BY <1>3, <2>3 DEF ReadIn
  <1> QED BY <1>2, <1>3

\* The records of a save keep their marks while entries are used up.
LEMMA UsingEntries ==
  ASSUME FilesType, NEW S
  PROVE  /\ DOMAIN UseEntries(S) = Known /\ UseEntries(S) \in [Known -> FileRecord]
         /\ \A n \in Known : /\ UseEntries(S)[n].keep = files[n].keep
                             /\ UseEntries(S)[n].written = files[n].written
                             /\ UseEntries(S)[n].entry = (files[n].entry /\ ~(n \in S /\ FromEntry(n)))
  <1> DEFINE r(n) == [files[n] EXCEPT !.entry = @ /\ ~(n \in S /\ FromEntry(n))]
  <1>1. UseEntries(S) = [n \in Known |-> r(n)]
    BY DEF UseEntries
  <1>2. ASSUME NEW n \in Known
        PROVE  /\ r(n) \in FileRecord /\ r(n).keep = files[n].keep /\ r(n).written = files[n].written
               /\ r(n).entry = (files[n].entry /\ ~(n \in S /\ FromEntry(n)))
    <2>1. files[n] \in FileRecord
      BY DEF FilesType, Known
    <2> QED BY <2>1 DEF FileRecord
  <1> HIDE DEF r
  <1>3. DOMAIN UseEntries(S) = Known /\ \A n \in Known : UseEntries(S)[n] = r(n)
    BY <1>1
  <1>4. UseEntries(S) \in [Known -> FileRecord]
    BY <1>1, <1>2
  <1> QED BY <1>2, <1>3, <1>4

\* What is copied to the new archive is what can be in these files.
LEMMA CopiedIsContents ==
  ASSUME DocumentInv, pc = "zip", mode = "open", NEW n \in Kept, FromEntry(n) \/ Readable(n)
  PROVE  CopyFrom(n) \in Contents(n)
  <1>1. n \in Known
    BY DEF Kept
  <1>2. CASE FromEntry(n)
    <2>1. Holds(stream, n)
      BY <1>1, <1>2 DEF DocumentInv, Streamed, WrittenSteps, FromEntry
    <2>2. stream \in Archives
      BY <2>1 DEF Holds, DocumentInv, MemoryType
    <2> QED BY <1>2, <2>1, <2>2, ArchiveProperties DEF Holds, CopyFrom
  <1>3. CASE ~FromEntry(n)
    BY <1>1, <1>3, ReadIsContents DEF CopyFrom, DocumentInv
  <1> QED BY <1>2, <1>3

\* An archive is written to the .tmp: a complete one of the document, or one
\* that is known not to be.
LEMMA WritingArchive ==
  ASSUME DocumentInv, mode = "open", Arrived, UNCHANGED <<history, mode>>,
         NEW a \in Archives, zipTo(a),
         job' \in {job, [job EXCEPT !.cut = TRUE]}, job'.cut => Faults,
         job'.cut \/ Complete(a, doc)
  PROVE  DocumentInv'
  <1>1. /\ pc = "zip" /\ pc' = "backup" /\ tmp' = [tmp EXCEPT ![job.to] = a]
        /\ files' = UseEntries(Kept) /\ stream' = IF job.copy THEN stream ELSE None
        /\ UNCHANGED <<filename, temps, disk, bak, todo>>
        /\ job'.to = job.to /\ job'.copy = job.copy /\ job'.cut \in BOOLEAN
        /\ job' \in [to : Paths, copy : BOOLEAN, cut : BOOLEAN]
    BY DEF zipTo, DocumentInv, ProgressType
  <1>2. job.to \in Paths \ DirPaths /\ job.copy \in BOOLEAN
    BY <1>1 DEF DocumentInv, ProgressType, ZipSteps
  <1>3. Kept \subseteq Known /\ Known \subseteq FileNames
    BY DEF Kept, Known, DocumentInv, FilesType
  <1>5. a # None
    BY NoneIsNothing
  <1>6. /\ DOMAIN files' = Known /\ files' \in [Known -> FileRecord]
        /\ \A n \in Known : files'[n].entry => files[n].entry /\ ~(n \in Kept /\ FromEntry(n))
    BY <1>1, UsingEntries DEF DocumentInv
  <1>7. FilesType'
    BY <1>3, <1>6 DEF FilesType, Known
  <1>8. MemoryType'
    BY <1>1 DEF DocumentInv, MemoryType
  <1>9. DiskType'
    BY <1>1, <1>2, <1>5 DEF DocumentInv, DiskType
  <1>10. ProgressType'
    <2>1. Known' = Known
      BY <1>6 DEF Known
    <2> QED BY <1>1, <1>2, <2>1 DEF DocumentInv, ProgressType, SaveSteps, ZipSteps, DirSteps
  <1>11. UNCHANGED <<saved, torn>>
    BY <1>1, NothingArrives DEF DocumentInv, DiskType
  <1>12. HistoryType' /\ SavedSurvives'
    BY <1>1, <1>11, SavedStays DEF DocumentInv, HistoryType, history
  <1>13. Streamed'
    BY <1>1, <1>6 DEF DocumentInv, Streamed, Known, Holds, WrittenSteps
  <1>14. NewArchiveComplete'
    <2>1. tmp'[job'.to] = a
      BY <1>1, <1>2 DEF DocumentInv, DiskType
    <2>2. doc' = doc
      BY DEF history, doc
    <2> QED BY <1>5, <2>1, <2>2 DEF NewArchiveComplete, Complete, Holds, Refers
  <1> QED BY <1>1, <1>7, <1>8, <1>9, <1>10, <1>12, <1>13, <1>14
         DEF DocumentInv, ZipAsked, BackedUp

\* Every kept file reaches the new archive, the data file with the document
\* unless writing that has failed.
LEMMA WritingZip ==
  ASSUME DocumentInv, mode = "open", writeZip, Arrived, UNCHANGED <<history, mode>>
  PROVE  DocumentInv'
  <1> DEFINE a == [n \in Kept |-> CopyFrom(n)]
  <1>1. pc = "zip" /\ zipTo(a) /\ job' = job /\ \A n \in Kept : FromEntry(n) \/ Readable(n)
    BY DEF writeZip, zipTo
  <1>2. Kept \subseteq Known /\ Known \subseteq FileNames
    BY DEF Kept, Known, DocumentInv, FilesType
  <1>3. a \in Archives /\ a # None /\ DOMAIN a = Kept
    <2>1. \A n \in Kept : a[n] \in Contents(n)
      BY <1>1, CopiedIsContents
    <2>2. a = [n \in Kept |-> a[n]]
      OBVIOUS
    <2> HIDE DEF a
    <2> QED BY <1>2, <2>1, <2>2, MakeArchive
  <1>4. job.cut \/ Complete(a, doc)
    <2>1. /\ Data \in Kept /\ files[Data].written /\ Refers(doc) \subseteq Kept
          /\ job.cut \/ temps[Data] = DocFile(doc)
      BY <1>1 DEF DocumentInv, ZipAsked
    <2>2. CopyFrom(Data) = temps[Data]
      BY <1>2, <2>1 DEF CopyFrom, FromEntry, ReadIn, Written
    <2> QED BY <1>3, <2>1, <2>2 DEF Complete, Holds
  <1>5. job.cut => Faults
    BY DEF DocumentInv, ProgressType
  <1> HIDE DEF a
  <1> QED BY <1>1, <1>3, <1>4, <1>5, WritingArchive

\* Of the files some are missing and some are cut short.
LEMMA CuttingZip ==
  ASSUME DocumentInv, mode = "open", writeZipCut, Arrived, UNCHANGED <<history, mode>>
  PROVE  DocumentInv'
  <1>0. PICK there \in SUBSET Kept : \E whole \in (SUBSET there) \ {Kept} :
          zipTo([n \in there |-> IF n \in whole THEN CopyFrom(n) ELSE Broken(n)])
    BY DEF writeZipCut
  <1>1. PICK whole \in SUBSET there :
          zipTo([n \in there |-> IF n \in whole THEN CopyFrom(n) ELSE Broken(n)])
    BY <1>0
  <1> DEFINE a == [n \in there |-> IF n \in whole THEN CopyFrom(n) ELSE Broken(n)]
  <1>2. pc = "zip" /\ \A n \in Kept : FromEntry(n) \/ Readable(n)
    BY <1>1 DEF zipTo
  <1>3. there \subseteq FileNames
    BY DEF Kept, Known, DocumentInv, FilesType
  <1>4. \A n \in there : a[n] \in Contents(n)
    <2>1. \A n \in FileNames : Broken(n) \in Contents(n)
      BY DataContents, ImageContents, NamesApart, BoundsAssumption DEF Broken, FileNames
    <2>2. \A n \in Kept : CopyFrom(n) \in Contents(n)
      BY <1>2, CopiedIsContents
    <2> QED BY <1>3, <2>1, <2>2
  <1>5. a \in Archives
    <2>1. a = [n \in there |-> a[n]]
      OBVIOUS
    <2> HIDE DEF a
    <2> QED BY <1>3, <1>4, <2>1, MakeArchive
  <1>6. Faults /\ job' = [job EXCEPT !.cut = TRUE] /\ job'.cut
    BY DEF writeZipCut, DocumentInv, ProgressType
  <1>7. zipTo(a)
    BY <1>1
  <1> HIDE DEF a
  <1> QED BY <1>5, <1>6, <1>7, WritingArchive

LEMMA FailingZip ==
  ASSUME DocumentInv, mode = "open", writeZipFails, Arrived, UNCHANGED <<history, mode>>
  PROVE  DocumentInv'
  <1>1. /\ pc = "zip" /\ pc' = "idle" /\ tmp' = [tmp EXCEPT ![job.to] = None]
        /\ UNCHANGED <<filename, stream, temps, disk, bak, job, todo>>
    BY DEF writeZipFails, fail
  <1>2. PICK S : files' = UseEntries(S)
    BY DEF writeZipFails
  <1>3. /\ DOMAIN files' = Known /\ files' \in [Known -> FileRecord]
        /\ \A n \in Known : files'[n].entry => files[n].entry
    BY <1>2, UsingEntries DEF DocumentInv
  <1>4. FilesType'
    BY <1>3 DEF DocumentInv, FilesType, Known
  <1>5. MemoryType' /\ DiskType'
    BY <1>1 DEF DocumentInv, MemoryType, DiskType
  <1>6. ProgressType'
    <2>1. Known' = Known
      BY <1>3 DEF Known
    <2> QED BY <1>1, <2>1 DEF DocumentInv, ProgressType, SaveSteps, ZipSteps, DirSteps
  <1>7. UNCHANGED <<saved, torn>>
    BY <1>1, NothingArrives DEF DocumentInv, DiskType
  <1>8. HistoryType' /\ SavedSurvives'
    BY <1>1, <1>7, SavedStays DEF DocumentInv, HistoryType, history
  <1>9. Streamed'
    BY <1>1, <1>3 DEF DocumentInv, Streamed, Known, Holds, WrittenSteps
  <1> QED BY <1>1, <1>4, <1>5, <1>6, <1>8, <1>9
         DEF DocumentInv, ZipAsked, NewArchiveComplete, BackedUp

\* The old backup goes only while the file itself is there.
LEMMA RemovingBackup ==
  ASSUME DocumentInv, mode = "open", removeBackup, Arrived, UNCHANGED <<history, mode>>
  PROVE  DocumentInv'
  <1>1. /\ pc = "backup" /\ UNCHANGED <<filename, files, stream, temps, disk, tmp, job, todo>>
        /\ \/ disk[job.to] # None /\ pc' = "rename" /\ bak' = [bak EXCEPT ![job.to] = None]
           \/ disk[job.to] = None /\ pc' = "commit" /\ bak' = bak
    BY DEF removeBackup, NeedsBackup, inside
  <1>2. job.to \in Paths \ DirPaths
    BY <1>1 DEF DocumentInv, ProgressType, ZipSteps
  <1>3. FilesType' /\ MemoryType' /\ DiskType'
    BY <1>1 DEF DocumentInv, FilesType, MemoryType, DiskType, Known
  <1>4. ProgressType'
    BY <1>1, <1>2 DEF DocumentInv, ProgressType, SaveSteps, ZipSteps, DirSteps, Known
  <1>5. UNCHANGED <<saved, torn>>
    BY <1>1, NothingArrives DEF DocumentInv, DiskType
  <1>6. HistoryType'
    BY <1>5 DEF DocumentInv, HistoryType, history
  <1>7. Streamed'
    BY <1>1 DEF DocumentInv, Streamed, Known, Holds, WrittenSteps
  <1>8. NewArchiveComplete' /\ BackedUp' /\ ZipAsked'
    BY <1>1 DEF DocumentInv, NewArchiveComplete, BackedUp, ZipAsked, Complete, Holds, Refers, doc, history
  <1>9. SavedSurvives'
    <2> SUFFICES ASSUME NEW p \in Zips, saved[p] # None, p \notin torn
                 PROVE  \/ Complete(disk[p], saved[p])
                        \/ disk[p] = None /\ Complete(bak'[p], saved[p])
      BY <1>1, <1>5 DEF SavedSurvives, Complete, Holds
    <2>1. \/ Complete(disk[p], saved[p])
          \/ disk[p] = None /\ Complete(bak[p], saved[p])
      BY DEF DocumentInv, SavedSurvives
    <2>2. disk[p] = None => bak'[p] = bak[p]
      BY <1>1 DEF DocumentInv, DiskType, Zips
    <2> QED BY <2>1, <2>2
  <1> QED BY <1>3, <1>4, <1>6, <1>7, <1>8, <1>9 DEF DocumentInv

\* Renaming moves what was saved to its backup, or does nothing.
LEMMA MakingBackup ==
  ASSUME DocumentInv, mode = "open", makeBackup, Arrived, UNCHANGED <<history, mode>>
  PROVE  DocumentInv'
  <1>1. /\ pc = "rename" /\ pc' = "commit" /\ UNCHANGED <<filename, files, stream, temps, tmp, job, todo>>
        /\ \/ /\ disk' = [disk EXCEPT ![job.to] = None]
              /\ bak' = [bak EXCEPT ![job.to] = disk[job.to]]
           \/ disk' = disk /\ bak' = bak
    BY DEF makeBackup, inside
  <1>2. job.to \in Paths \ DirPaths /\ disk[job.to] # None
    BY <1>1 DEF DocumentInv, ProgressType, ZipSteps, BackedUp
  <1>3. FilesType' /\ MemoryType'
    BY <1>1 DEF DocumentInv, FilesType, MemoryType, Known
  <1>4. DiskType'
    <2>1. job.to \in Paths /\ disk[job.to] \in Archives \cup {None} /\ tmp[job.to] \in Archives \cup {None}
      BY <1>2 DEF DocumentInv, DiskType
    <2>2. disk' \in [Paths -> Archives \cup {None}] /\ \A p \in DirPaths : disk'[p] # None
      BY <1>1, <1>2, <2>1, PathsAssumption DEF DocumentInv, DiskType
    <2>3. tmp' \in [Paths -> Archives \cup {None}] /\ bak' \in [Paths -> Archives \cup {None}]
      BY <1>1, <2>1 DEF DocumentInv, DiskType
    <2> QED BY <2>2, <2>3 DEF DiskType
  <1>5. ProgressType'
    BY <1>1, <1>2 DEF DocumentInv, ProgressType, SaveSteps, ZipSteps, DirSteps, Known
  <1>6. UNCHANGED <<saved, torn>>
    <2>1. \A p \in Zips : disk'[p] \in {disk[p], None}
      BY <1>1 DEF DocumentInv, DiskType, Zips
    <2> QED BY <2>1, NothingArrives DEF DocumentInv
  <1>7. HistoryType'
    BY <1>6 DEF DocumentInv, HistoryType, history
  <1>8. Streamed'
    BY <1>1 DEF DocumentInv, Streamed, Known, Holds, WrittenSteps
  <1>9. NewArchiveComplete' /\ BackedUp' /\ ZipAsked'
    BY <1>1 DEF DocumentInv, NewArchiveComplete, BackedUp, ZipAsked, Complete, Holds, Refers, doc, history
  <1>10. SavedSurvives'
    <2> SUFFICES ASSUME NEW p \in Zips, saved[p] # None, p \notin torn
                 PROVE  \/ Complete(disk'[p], saved[p])
                        \/ disk'[p] = None /\ Complete(bak'[p], saved[p])
      BY <1>6 DEF SavedSurvives, Complete, Holds
    <2>1. \/ Complete(disk[p], saved[p])
          \/ disk[p] = None /\ Complete(bak[p], saved[p])
      BY DEF DocumentInv, SavedSurvives
    <2>2. \/ disk'[p] = disk[p] /\ bak'[p] = bak[p]
          \/ disk[p] # None /\ disk'[p] = None /\ bak'[p] = disk[p]
      BY <1>1, <1>2 DEF DocumentInv, DiskType, Zips
    <2> QED BY <2>1, <2>2
  <1> QED BY <1>3, <1>4, <1>5, <1>7, <1>8, <1>9, <1>10 DEF DocumentInv

\* The new archive is complete when it takes the place of the old one.
LEMMA Committing ==
  ASSUME DocumentInv, mode = "open", commit, Arrived, UNCHANGED <<history, mode>>
  PROVE  DocumentInv'
  <1>1. /\ pc = "commit" /\ pc' = "clean" /\ UNCHANGED <<filename, files, stream, temps, bak, job, todo>>
        /\ \/ /\ disk' = [disk EXCEPT ![job.to] = tmp[job.to]]
              /\ tmp' = [tmp EXCEPT ![job.to] = None]
           \/ disk' = disk /\ tmp' = tmp
    BY DEF commit, inside
  <1>2. job.to \in Paths \ DirPaths
    BY <1>1 DEF DocumentInv, ProgressType, ZipSteps
  <1>3. FilesType' /\ MemoryType'
    BY <1>1 DEF DocumentInv, FilesType, MemoryType, Known
  <1>4. DiskType'
    <2>1. job.to \in Paths /\ disk[job.to] \in Archives \cup {None} /\ tmp[job.to] \in Archives \cup {None}
      BY <1>2 DEF DocumentInv, DiskType
    <2>2. disk' \in [Paths -> Archives \cup {None}] /\ \A p \in DirPaths : disk'[p] # None
      BY <1>1, <1>2, <2>1, PathsAssumption DEF DocumentInv, DiskType
    <2>3. tmp' \in [Paths -> Archives \cup {None}] /\ bak' \in [Paths -> Archives \cup {None}]
      BY <1>1, <2>1 DEF DocumentInv, DiskType
    <2> QED BY <2>2, <2>3 DEF DiskType
  <1>5. ProgressType'
    BY <1>1, <1>2 DEF DocumentInv, ProgressType, SaveSteps, ZipSteps, DirSteps, Known
  <1>6. HistoryType'
    BY DEF DocumentInv, HistoryType, history, Arrived
  <1>7. Streamed'
    BY <1>1 DEF DocumentInv, Streamed, Known, Holds, WrittenSteps
  <1>8. NewArchiveComplete' /\ BackedUp' /\ ZipAsked'
    BY <1>1 DEF NewArchiveComplete, BackedUp, ZipAsked
  <1>9. SavedSurvives'
    <2> SUFFICES ASSUME NEW p \in Zips, saved'[p] # None, p \notin torn'
                 PROVE  \/ Complete(disk'[p], saved'[p])
                        \/ disk'[p] = None /\ Complete(bak[p], saved'[p])
      BY <1>1 DEF SavedSurvives, Complete, Holds
    <2>1. CASE disk'[p] = disk[p]
      <3>1. saved'[p] = saved[p] /\ p \notin torn
        BY <2>1 DEF Arrived, Renewed
      <3> QED BY <1>1, <2>1, <3>1 DEF DocumentInv, SavedSurvives
    <2>2. CASE disk'[p] # disk[p]
      <3>1. p = job.to /\ disk'[p] = tmp[job.to]
        BY <1>1, <1>2, <2>2 DEF DocumentInv, DiskType, Zips
      <3>2. Renewed(p)
        BY <1>1, <2>2, <3>1 DEF DocumentInv, NewArchiveComplete, Renewed
      <3>3. ~job.cut
        BY <3>2 DEF Arrived
      <3>4. Complete(disk'[p], doc)
        BY <1>1, <3>1, <3>3 DEF DocumentInv, NewArchiveComplete
      <3>5. saved'[p] = DocFile(doc).doc
        BY <3>2, <3>3, <3>4 DEF Arrived, Complete
      <3>6. saved'[p] = doc
        BY <3>5 DEF DocFile
      <3> QED BY <3>4, <3>6
    <2> QED BY <2>1, <2>2
  <1> QED BY <1>3, <1>4, <1>5, <1>6, <1>7, <1>8, <1>9 DEF DocumentInv

\* Writing a directory changes nothing in a zip file, nor what is said of one.
LEMMA WritingDirectory ==
  ASSUME DocumentInv, mode = "open", pc \in DirSteps, Arrived,
         UNCHANGED <<history, mode, filename, files, stream, tmp, bak, job>>,
         temps' = [n \in FileNames |-> temps'[n]],
         \A n \in FileNames : temps'[n] \in Contents(n) \cup {None},
         NEW a \in Archives, disk' \in {disk, [disk EXCEPT ![job.to] = a]},
         pc' \in {"dir", "dir rename", "idle"}, todo' \subseteq todo,
         pc' = "dir rename" => todo' # {}
  PROVE  DocumentInv'
  <1>1. job.to \in DirPaths /\ job.to \in Paths /\ ~job.copy
    BY PathsAssumption DEF DocumentInv, ProgressType
  <1>2. FilesType' /\ MemoryType'
    BY DEF DocumentInv, FilesType, MemoryType, Known
  <1>3. /\ disk' \in [Paths -> Archives \cup {None}]
        /\ \A p \in Paths \ DirPaths : disk'[p] = disk[p]
        /\ \A p \in DirPaths : disk'[p] # None
    <2>1. a # None
      BY NoneIsNothing
    <2>2. CASE disk' = disk
      BY <2>2 DEF DocumentInv, DiskType
    <2>3. CASE disk' = [disk EXCEPT ![job.to] = a]
      <3>1. disk \in [Paths -> Archives \cup {None}] /\ \A p \in DirPaths : disk[p] # None
        BY DEF DocumentInv, DiskType
      <3>2. \A p \in Paths : disk'[p] = IF p = job.to THEN a ELSE disk[p]
        BY <2>3, <3>1
      <3>3. disk' \in [Paths -> Archives \cup {None}]
        BY <2>3, <3>1
      <3> QED BY <1>1, <2>1, <3>1, <3>2, <3>3, PathsAssumption
    <2> QED BY <2>2, <2>3
  <1>4. DiskType'
    BY <1>3 DEF DocumentInv, DiskType
  <1>5. ProgressType'
    BY <1>1 DEF DocumentInv, ProgressType, SaveSteps, ZipSteps, DirSteps, Known
  <1>6. HistoryType'
    BY DEF DocumentInv, HistoryType, history, Arrived
  <1>7. Streamed'
    BY DEF DocumentInv, Streamed, Known, Holds, WrittenSteps, DirSteps
  <1>8. NewArchiveComplete' /\ BackedUp' /\ ZipAsked'
    BY DEF NewArchiveComplete, BackedUp, ZipAsked
  <1>9. SavedSurvives'
    <2> SUFFICES ASSUME NEW p \in Zips, saved'[p] # None, p \notin torn'
                 PROVE  \/ Complete(disk'[p], saved'[p])
                        \/ disk'[p] = None /\ Complete(bak[p], saved'[p])
      BY DEF SavedSurvives, Complete, Holds
    <2>1. disk'[p] = disk[p]
      BY <1>3 DEF Zips
    <2>2. saved'[p] = saved[p] /\ p \notin torn
      BY <2>1 DEF Arrived, Renewed
    <2> QED BY <2>1, <2>2 DEF DocumentInv, SavedSurvives
  <1> QED BY <1>2, <1>4, <1>5, <1>6, <1>7, <1>8, <1>9 DEF DocumentInv

\* An archive without a file is an archive, and so is one with a file more.
LEMMA WithArrives ==
  ASSUME NEW a \in Archives, NEW n \in FileNames, NEW c \in Contents(n)
  PROVE  /\ With(a, n, c) \in Archives /\ DOMAIN With(a, n, c) = DOMAIN a \cup {n}
         /\ With(a, n, c)[n] = c
         /\ \A m \in DOMAIN a \ {n} : With(a, n, c)[m] = a[m]
  <1>1. DOMAIN a \subseteq FileNames /\ \A m \in DOMAIN a : a[m] \in Contents(m)
    BY ArchiveProperties
  <1>2. /\ With(a, n, c) = [m \in DOMAIN a \cup {n} |-> With(a, n, c)[m]]
        /\ With(a, n, c)[n] = c
        /\ \A m \in DOMAIN a \ {n} : With(a, n, c)[m] = a[m]
    BY DEF With
  <1>3. \A m \in DOMAIN a \cup {n} : With(a, n, c)[m] \in Contents(m)
    BY <1>1, <1>2
  <1>4. DOMAIN a \cup {n} \in SUBSET FileNames
    BY <1>1
  <1> QED BY <1>2, <1>3, <1>4, MakeArchive

LEMMA WithoutAndWith ==
  ASSUME NEW a \in Archives, NEW n \in FileNames
  PROVE  /\ Without(a, n) \in Archives /\ DOMAIN Without(a, n) = DOMAIN a \ {n}
         /\ \A m \in DOMAIN a \ {n} : Without(a, n)[m] = a[m]
         /\ \A c \in Contents(n) : /\ With(a, n, c) \in Archives
                                   /\ DOMAIN With(a, n, c) = DOMAIN a \cup {n}
                                   /\ With(a, n, c)[n] = c
                                   /\ \A m \in DOMAIN a \ {n} : With(a, n, c)[m] = a[m]
  <1>1. DOMAIN a \subseteq FileNames /\ \A m \in DOMAIN a : a[m] \in Contents(m)
    BY ArchiveProperties
  <1>2. /\ Without(a, n) = [m \in DOMAIN a \ {n} |-> Without(a, n)[m]]
        /\ \A m \in DOMAIN a \ {n} : Without(a, n)[m] = a[m]
    BY DEF Without
  <1>3. Without(a, n) \in Archives /\ DOMAIN Without(a, n) = DOMAIN a \ {n}
    BY <1>1, <1>2, MakeArchive
  <1> QED BY <1>2, <1>3, WithArrives

\* The directory, the file that is next, and the temporary files.
LEMMA Directory ==
  ASSUME DocumentInv, pc \in DirSteps
  PROVE  /\ job.to \in DirPaths /\ job.to \in Paths /\ disk[job.to] \in Archives
         /\ todo # {} => Next1 \in todo /\ Next1 \in Known /\ Next1 \in FileNames
         /\ temps = [n \in FileNames |-> temps[n]]
         /\ \A n \in FileNames : temps[n] \in Contents(n) \cup {None}
  <1>1. job.to \in DirPaths /\ job.to \in Paths
    BY PathsAssumption DEF DocumentInv, ProgressType
  <1>2. disk[job.to] \in Archives
    BY <1>1 DEF DocumentInv, DiskType
  <1>3. todo \subseteq Known /\ Known \subseteq FileNames
    BY DEF DocumentInv, ProgressType, FilesType, Known
  <1>4. todo # {} => Next1 \in todo
    BY <1>3, NextIsToDo
  <1> QED BY <1>1, <1>2, <1>3, <1>4 DEF DocumentInv, MemoryType

LEMMA DirectorySteps ==
  ASSUME DocumentInv, mode = "open", dirSkip \/ dirRemove \/ dirRename \/ dirCopy,
         Arrived, UNCHANGED <<history, mode>>
  PROVE  DocumentInv'
  <1>1. CASE dirSkip
    <2>1. /\ pc = "dir" /\ pc' = "dir" /\ todo' \subseteq todo
          /\ UNCHANGED <<filename, files, stream, temps, disk, tmp, bak, job>>
      BY <1>1 DEF dirSkip, inside, outside
    <2> QED BY <2>1, Directory, WritingDirectory DEF DirSteps
  <1>2. CASE dirRemove
    <2>1. /\ pc = "dir" /\ todo # {} /\ pc' = "dir rename"
          /\ disk' = [disk EXCEPT ![job.to] = Without(disk[job.to], Next1)]
          /\ UNCHANGED <<filename, files, stream, temps, tmp, bak, job, todo>>
      BY <1>2 DEF dirRemove, inside
    <2>2. Without(disk[job.to], Next1) \in Archives
      BY <2>1, Directory, WithoutAndWith DEF DirSteps
    <2> QED BY <2>1, <2>2, Directory, WritingDirectory DEF DirSteps
  <1>3. CASE dirRename
    <2>1. pc = "dir rename" /\ UNCHANGED <<filename, files, stream, tmp, bak>>
      BY <1>3 DEF dirRename
    <2>2. todo # {}
      BY <2>1 DEF DocumentInv, ProgressType
    <2>3. CASE /\ temps[Next1] # None
               /\ disk' = [disk EXCEPT ![job.to] = With(@, Next1, temps[Next1])]
               /\ temps' = [temps EXCEPT ![Next1] = None]
               /\ pc' = "dir" /\ todo' = todo \ {Next1} /\ UNCHANGED job
      <3>1. temps[Next1] \in Contents(Next1)
        BY <2>1, <2>2, <2>3, Directory DEF DirSteps
      <3>2. With(disk[job.to], Next1, temps[Next1]) \in Archives
        BY <2>1, <2>2, <3>1, Directory, WithoutAndWith DEF DirSteps
      <3>3. disk' = [disk EXCEPT ![job.to] = With(disk[job.to], Next1, temps[Next1])]
        BY <2>3
      <3>4. temps' = [n \in FileNames |-> temps'[n]]
            /\ \A n \in FileNames : temps'[n] \in Contents(n) \cup {None}
        <4>1. temps = [n \in FileNames |-> temps[n]]
              /\ \A n \in FileNames : temps[n] \in Contents(n) \cup {None}
          BY <2>1, Directory DEF DirSteps
        <4> QED BY <2>3, <4>1
      <3> QED BY <2>1, <2>3, <3>2, <3>3, <3>4, WritingDirectory DEF DirSteps
    <2>4. CASE fail /\ UNCHANGED <<disk, temps>>
      <3>1. pc' = "idle" /\ UNCHANGED <<job, todo>>
        BY <2>4 DEF fail
      <3> QED BY <2>1, <2>4, <3>1, Directory, WritingDirectory DEF DirSteps
    <2> QED BY <1>3, <2>3, <2>4 DEF dirRename
  <1>4. CASE dirCopy
    <2>1. /\ pc = "dir" /\ todo # {}
          /\ UNCHANGED <<filename, files, stream, temps, tmp, bak, job>>
      BY <1>4 DEF dirCopy, inside, fail
    <2>2. CASE /\ InDir(Next1)
               /\ disk' = [disk EXCEPT ![job.to] = With(@, Next1, disk[filename][Next1])]
               /\ todo' = todo \ {Next1} /\ UNCHANGED pc
      <3>1. filename \in Paths /\ Holds(disk[filename], Next1)
        BY <2>2, PathsAssumption DEF InDir
      <3>2. disk[filename][Next1] \in Contents(Next1)
        BY <3>1, ArchiveProperties DEF DocumentInv, DiskType, Holds
      <3>3. With(disk[job.to], Next1, disk[filename][Next1]) \in Archives
        BY <2>1, <3>2, Directory, WithoutAndWith DEF DirSteps
      <3>4. disk' = [disk EXCEPT ![job.to] = With(disk[job.to], Next1, disk[filename][Next1])]
        BY <2>2
      <3> QED BY <2>1, <2>2, <3>3, <3>4, Directory, WritingDirectory DEF DirSteps
    <2>3. CASE fail /\ UNCHANGED disk
      <3>1. pc' = "idle" /\ UNCHANGED <<job, todo>>
        BY <2>3 DEF fail
      <3> QED BY <2>1, <2>3, <3>1, Directory, WritingDirectory DEF DirSteps
    <2> QED BY <1>4, <2>2, <2>3 DEF dirCopy
  <1> QED BY <1>1, <1>2, <1>3, <1>4

-----------------------------------------------------------------------------
(* The end of a save, of the window and of the program.                      *)

\* A record that is new says nothing of an old archive.
LEMMA NewRecords ==
  /\ NewFile \in FileRecord /\ ~NewFile.entry /\ ~NewFile.keep /\ ~NewFile.written
  /\ \A b \in BOOLEAN : /\ [NewFile EXCEPT !.entry = b] \in FileRecord
                        /\ [NewFile EXCEPT !.entry = b].entry = b
                        /\ ~[NewFile EXCEPT !.entry = b].written
  BY DEF NewFile, FileRecord

LEMMA FinishingCopy ==
  ASSUME DocumentInv, mode = "open", finishCopy, Arrived, UNCHANGED <<history, mode>>
  PROVE  DocumentInv'
  <1>1. /\ pc \in {"clean", "dir"} /\ job.copy /\ pc' = "idle"
        /\ files' = [n \in Known |-> [files[n] EXCEPT !.keep = FALSE]]
        /\ UNCHANGED <<filename, stream, temps, disk, tmp, bak, job, todo>>
    BY DEF finishCopy, AfterSave, outside
  <1>2. \A n \in Known : /\ [files[n] EXCEPT !.keep = FALSE] \in FileRecord
                         /\ [files[n] EXCEPT !.keep = FALSE].entry = files[n].entry
    <2>1. \A n \in Known : files[n] \in FileRecord
      BY DEF DocumentInv, FilesType, Known
    <2> QED BY <2>1 DEF FileRecord
  <1>3. /\ DOMAIN files' = Known /\ files' \in [Known -> FileRecord]
        /\ \A n \in Known : files'[n].entry = files[n].entry
    BY <1>1, <1>2
  <1>4. FilesType'
    BY <1>3 DEF DocumentInv, FilesType, Known
  <1>5. MemoryType' /\ DiskType'
    BY <1>1 DEF DocumentInv, MemoryType, DiskType
  <1>6. ProgressType'
    <2>1. Known' = Known
      BY <1>3 DEF Known
    <2> QED BY <1>1, <2>1 DEF DocumentInv, ProgressType, SaveSteps, ZipSteps, DirSteps
  <1>7. UNCHANGED <<saved, torn>>
    BY <1>1, NothingArrives DEF DocumentInv, DiskType
  <1>8. HistoryType' /\ SavedSurvives'
    BY <1>1, <1>7, SavedStays DEF DocumentInv, HistoryType, history
  <1>9. Streamed'
    BY <1>1, <1>3 DEF DocumentInv, Streamed, Known, Holds, WrittenSteps
  <1> QED BY <1>1, <1>4, <1>5, <1>6, <1>8, <1>9
         DEF DocumentInv, ZipAsked, NewArchiveComplete, BackedUp

\* After a save, or when a set is opened, the package starts with the files
\* that are left, and with what can be read of the archive.
LEMMA StartingAnew ==
  ASSUME DocumentInv, NEW S \in SUBSET FileNames,
         \/ files' = [n \in S |-> NewFile] /\ stream' = None
         \/ \E a \in Archives : /\ S = S \cup DOMAIN a /\ stream' = a
                                /\ files' = [n \in S |-> [NewFile EXCEPT !.entry = n \in DOMAIN a]],
         filename' \in Paths, temps' = NoTemps, UNCHANGED outside
  PROVE  FilesType' /\ MemoryType' /\ DiskType' /\ Streamed' /\ Known' = S
  <1>1. temps' = [n \in FileNames |-> temps'[n]]
        /\ \A n \in FileNames : temps'[n] \in Contents(n) \cup {None}
    BY DEF NoTemps
  <1>2. DiskType'
    BY DiskStays DEF DocumentInv
  <1>3. CASE files' = [n \in S |-> NewFile] /\ stream' = None
    <2>1. DOMAIN files' = S /\ files' \in [S -> FileRecord] /\ \A n \in S : ~files'[n].entry
      BY <1>3, NewRecords
    <2> QED BY <1>1, <1>2, <1>3, <2>1 DEF FilesType, MemoryType, Streamed, Known
  <1>4. ASSUME NEW a \in Archives, S = S \cup DOMAIN a, stream' = a,
               files' = [n \in S |-> [NewFile EXCEPT !.entry = n \in DOMAIN a]]
        PROVE  FilesType' /\ MemoryType' /\ DiskType' /\ Streamed' /\ Known' = S
    <2>1. ASSUME NEW n \in S
          PROVE  /\ [NewFile EXCEPT !.entry = n \in DOMAIN a] \in FileRecord
                 /\ [NewFile EXCEPT !.entry = n \in DOMAIN a].entry = (n \in DOMAIN a)
      <3> DEFINE b == n \in DOMAIN a
      <3>1. b \in BOOLEAN
        OBVIOUS
      <3> HIDE DEF b
      <3>2. [NewFile EXCEPT !.entry = b] \in FileRecord /\ [NewFile EXCEPT !.entry = b].entry = b
        BY <3>1, NewRecords
      <3> QED BY <3>2 DEF b
    <2>2. /\ DOMAIN files' = S /\ files' \in [S -> FileRecord]
          /\ \A n \in S : files'[n].entry => n \in DOMAIN a
      BY <1>4, <2>1
    <2>3. \A n \in DOMAIN a : Holds(a, n)
      BY ArchiveProperties
    <2> QED BY <1>1, <1>2, <1>4, <2>2, <2>3 DEF FilesType, MemoryType, Streamed, Known, Holds
  <1> QED BY <1>3, <1>4

LEMMA KeptIsKnown ==
  ASSUME DocumentInv
  PROVE  Kept \subseteq FileNames
  BY DEF Kept, Known, DocumentInv, FilesType

LEMMA FailingToReopen ==
  ASSUME DocumentInv, mode = "open", finishSaveFails, Arrived, UNCHANGED <<history, mode>>
  PROVE  DocumentInv'
  <1>1. /\ filename' = job.to /\ temps' = NoTemps /\ files' = [n \in Kept |-> NewFile]
        /\ stream' = None /\ pc' = "idle" /\ pc \in {"clean", "dir"} /\ job.to \notin DirPaths
        /\ UNCHANGED <<disk, tmp, bak, job, todo>>
    BY DEF finishSaveFails, NewFilename, Cleaned, fail, outside, AfterSave
  <1>2. job.to \in Paths
    BY DEF DocumentInv, ProgressType
  <1>3. FilesType' /\ MemoryType' /\ DiskType' /\ Streamed' /\ Known' = Kept
    BY <1>1, <1>2, KeptIsKnown, StartingAnew DEF outside
  <1>4. ProgressType'
    BY <1>1 DEF DocumentInv, ProgressType, SaveSteps, ZipSteps, DirSteps
  <1>5. UNCHANGED <<saved, torn>>
    BY <1>1, NothingArrives DEF DocumentInv, DiskType
  <1>6. HistoryType' /\ SavedSurvives'
    BY <1>1, <1>5, SavedStays DEF DocumentInv, HistoryType, history
  <1> QED BY <1>1, <1>3, <1>4, <1>6
         DEF DocumentInv, ZipAsked, NewArchiveComplete, BackedUp

LEMMA Saved ==
  ASSUME DocumentInv, saveDone
  PROVE  DocumentInv'
  <1>1. /\ mode = "open" /\ pc' = "idle" /\ temps' = NoTemps /\ filename' = job.to
        /\ UNCHANGED <<disk, tmp, bak, job, todo, images, saved, torn>>
    BY DEF saveDone, finishSave, NewFilename, outside, commits
  <1>2. job.to \in Paths
    BY DEF DocumentInv, ProgressType
  <1>3. FilesType' /\ MemoryType' /\ DiskType' /\ Streamed'
    <2>1. CASE job.to \in DirPaths
      <3>1. files' = [n \in Kept |-> NewFile] /\ stream' = None
        BY <2>1 DEF saveDone, finishSave, Cleaned
      <3> QED BY <1>1, <1>2, <3>1, KeptIsKnown, StartingAnew DEF outside
    <2>2. CASE job.to \notin DirPaths
      <3> DEFINE a == disk[job.to]
                 S == Kept \cup DOMAIN a
      <3>1. files' = [n \in S |-> [NewFile EXCEPT !.entry = n \in DOMAIN a]] /\ stream' = a
        BY <2>2 DEF saveDone, finishSave, Reopened
      <3>2. a \in Archives
        BY <1>2, <2>2 DEF saveDone, finishSave, DocumentInv, DiskType
      <3>3. S \in SUBSET FileNames /\ S = S \cup DOMAIN a
        BY <3>2, KeptIsKnown, ArchiveProperties
      <3> HIDE DEF a, S
      <3> QED BY <1>1, <1>2, <3>1, <3>2, <3>3, StartingAnew DEF outside
    <2> QED BY <2>1, <2>2
  <1>4. ProgressType'
    BY <1>1 DEF DocumentInv, ProgressType, SaveSteps, ZipSteps, DirSteps
  <1>5. HistoryType'
    <2>1. doc \in Doc
      BY DocIsDocument DEF DocumentInv
    <2>2. CASE UndoAcrossSave
      <3>1. pos \in Nat
        BY LenProperties DEF DocumentInv, HistoryType
      <3> QED BY <1>1, <2>2, <3>1 DEF DocumentInv, HistoryType, saveDone
    <2>3. CASE ~UndoAcrossSave
      <3>1. hist' = <<doc>> /\ pos' = 1 /\ savedPos' = 1
        BY <2>3 DEF saveDone
      <3>2. hist' \in Seq(Doc) /\ Len(hist') = 1
        BY <2>1, <3>1
      <3>3. pos' \in 1..Len(hist') /\ savedPos' \in Nat
        BY <3>1, <3>2
      <3> QED BY <1>1, <3>2, <3>3 DEF DocumentInv, HistoryType
    <2> QED BY <2>2, <2>3
  <1>6. SavedSurvives'
    BY <1>1, SavedStays DEF DocumentInv
  <1> QED BY <1>1, <1>3, <1>4, <1>5, <1>6
         DEF DocumentInv, ZipAsked, NewArchiveComplete, BackedUp

LEMMA Closing ==
  ASSUME DocumentInv, close
  PROVE  DocumentInv'
  <1>1. mode = "open" /\ pc = "idle" /\ UNCHANGED <<history, saved, torn>>
    BY DEF close, Idle, commits
  <1>2. CASE UNCHANGED package /\ mode' = "closed"
    <2>1. UNCHANGED <<filename, files, stream, temps, disk, tmp, bak, pc, job, todo>>
      BY <1>2 DEF package, inside, outside, progress
    <2>2. /\ FilesType' /\ MemoryType' /\ DiskType' /\ ProgressType' /\ HistoryType' /\ Streamed'
          /\ SavedSurvives'
      BY <1>1, <1>2, <2>1, SavedStays
         DEF DocumentInv, FilesType, MemoryType, DiskType, ProgressType, HistoryType, Streamed,
             Known, Holds, history
    <2> QED BY <1>1, <2>1, <2>2 DEF DocumentInv, ZipAsked, NewArchiveComplete, BackedUp
  <1>3. ASSUME NEW p \in Targets, startSave(p, FALSE, doc), UNCHANGED mode
        PROVE  DocumentInv'
    <2>1. p \in Paths
      BY DEF Targets, DocumentInv, MemoryType
    <2> QED BY <1>1, <1>3, <2>1, StartingSave
  <1> QED BY <1>2, <1>3 DEF close

LEMMA Crashing ==
  ASSUME DocumentInv, crash
  PROVE  DocumentInv'
  <1>1. /\ mode' = "crashed" /\ pc' = "idle"
        /\ UNCHANGED <<filename, files, stream, temps, disk, tmp, bak, job, todo, history, saved, torn>>
    BY DEF crash, inside, outside, commits
  <1>2. /\ FilesType' /\ MemoryType' /\ DiskType' /\ HistoryType' /\ Streamed' /\ SavedSurvives'
    BY <1>1, SavedStays
       DEF DocumentInv, FilesType, MemoryType, DiskType, HistoryType, Streamed, Known, history
  <1>3. ProgressType'
    BY <1>1 DEF DocumentInv, ProgressType, SaveSteps, ZipSteps, DirSteps
  <1> QED BY <1>1, <1>2, <1>3 DEF DocumentInv, ZipAsked, NewArchiveComplete, BackedUp

LEMMA Reopening ==
  ASSUME DocumentInv, NEW p \in Paths, reopenSet(p)
  PROVE  DocumentInv'
  <1> DEFINE a == disk[p]
             S == DOMAIN a
  <1>1. /\ mode # "open" /\ mode' = "open" /\ Holds(a, Data) /\ a[Data] # DocFile(None)
        /\ filename' = p /\ temps' = NoTemps /\ todo' = {}
        /\ hist' = <<a[Data].doc>> /\ pos' = 1 /\ savedPos' = 1
        /\ UNCHANGED <<disk, tmp, bak, pc, job, images, saved, torn>>
    BY DEF reopenSet, open, outside, commits
  <1>2. a \in Archives /\ S \in SUBSET FileNames
    BY <1>1, ArchiveProperties DEF DocumentInv, DiskType, Holds
  <1>3. FilesType' /\ MemoryType' /\ DiskType' /\ Streamed'
    <2>1. files' = [n \in S |-> [NewFile EXCEPT !.entry = p \notin DirPaths]]
          /\ stream' = IF p \in DirPaths THEN None ELSE a
      BY DEF reopenSet, open
    <2>2. CASE p \in DirPaths
      <3>1. [NewFile EXCEPT !.entry = FALSE] = NewFile
        <4>1. NewFile \in FileRecord /\ NewFile.entry = FALSE
          BY DEF NewFile, FileRecord
        <4> QED BY <4>1 DEF FileRecord
      <3>2. files' = [n \in S |-> NewFile] /\ stream' = None
        BY <2>1, <2>2, <3>1
      <3> HIDE DEF a, S
      <3> QED BY <1>1, <1>2, <3>2, StartingAnew DEF outside
    <2>3. CASE p \notin DirPaths
      <3>1. files' = [n \in S |-> [NewFile EXCEPT !.entry = n \in DOMAIN a]] /\ stream' = a
        BY <2>1, <2>3
      <3>2. S = S \cup DOMAIN a
        OBVIOUS
      <3> HIDE DEF a, S
      <3> QED BY <1>1, <1>2, <3>1, <3>2, StartingAnew DEF outside
    <2> QED BY <2>2, <2>3
  <1>4. pc = "idle"
    BY <1>1 DEF DocumentInv, ProgressType
  <1>5. ProgressType'
    BY <1>1, <1>4 DEF DocumentInv, ProgressType, SaveSteps, ZipSteps, DirSteps
  <1>6. HistoryType'
    <2>1. a[Data] \in Contents(Data)
      BY <1>1, <1>2, ArchiveProperties DEF Holds
    <2>2. a[Data].doc \in Doc
      BY <1>1, <2>1, DataContents
    <2>3. hist' \in Seq(Doc) /\ Len(hist') = 1
      BY <1>1, <2>2
    <2>4. pos' \in 1..Len(hist') /\ savedPos' \in Nat
      BY <1>1, <2>3
    <2> QED BY <1>1, <2>3, <2>4 DEF DocumentInv, HistoryType
  <1>7. SavedSurvives'
    BY <1>1, SavedStays DEF DocumentInv
  <1> QED BY <1>1, <1>3, <1>4, <1>5, <1>6, <1>7
         DEF DocumentInv, ZipAsked, NewArchiveComplete, BackedUp

-----------------------------------------------------------------------------
(* Every behaviour.                                                          *)

LEMMA DocumentNext ==
  ASSUME DocumentInv, [Next]_vars
  PROVE  DocumentInv'
  <1>1. ASSUME NEW f \in Fields, assign(f) \/ clear(f)
        PROVE  DocumentInv'
    BY <1>1, Assigning, Clearing
  <1>2. ASSUME NEW i \in DOMAIN hist, move(i)
        PROVE  DocumentInv'
    BY <1>2, Moving
  <1>3. ASSUME NEW p \in Paths, NEW copy \in BOOLEAN, save(p, copy)
        PROVE  DocumentInv'
    <2>1. mode = "open" /\ startSave(p, copy, doc) /\ UNCHANGED <<history, mode, saved, torn>>
      BY <1>3 DEF save, Idle, window, commits
    <2> QED BY <2>1, StartingSave
  <1>4. CASE saveStep
    <2>1. mode = "open" /\ SaveStep /\ Arrived /\ UNCHANGED <<history, mode>>
      BY <1>4 DEF saveStep
    <2> QED BY <2>1, WritingZip, CuttingZip, FailingZip, RemovingBackup, MakingBackup, Committing,
               DirectorySteps, FinishingCopy, FailingToReopen DEF SaveStep
  <1>5. CASE saveDone
    BY <1>5, Saved
  <1>6. CASE close
    BY <1>6, Closing
  <1>7. CASE crash
    BY <1>7, Crashing
  <1>8. ASSUME NEW p \in Paths, reopenSet(p)
        PROVE  DocumentInv'
    BY <1>8, Reopening
  <1>9. CASE UNCHANGED vars
    <2>1. UNCHANGED <<filename, files, stream, temps, disk, tmp, bak, pc, job, todo,
                      hist, pos, savedPos, images, mode, saved, torn>>
      BY <1>9 DEF vars, package, inside, outside, progress, history, window, commits
    <2>2. FilesType' /\ MemoryType' /\ DiskType' /\ ProgressType' /\ HistoryType' /\ Streamed'
      BY <2>1 DEF DocumentInv, FilesType, MemoryType, DiskType, ProgressType, HistoryType, Streamed,
                  Known, Holds
    <2>3. ZipAsked' /\ NewArchiveComplete' /\ BackedUp'
      BY <2>1 DEF DocumentInv, ZipAsked, NewArchiveComplete, BackedUp, Known, Kept, Refers, Complete,
                  Holds, doc
    <2> QED BY <2>1, <2>2, <2>3, SavedStays DEF DocumentInv
  <1> QED BY <1>1, <1>2, <1>3, <1>4, <1>5, <1>6, <1>7, <1>8, <1>9 DEF Next

LEMMA DocumentAlways == Spec => []DocumentInv
  BY DocumentInit, DocumentNext, PTL DEF Spec

\* Once committed to a zip file a document stays on disk, complete, at its
\* path or as its .bak, until the next one is: with any number of fields,
\* names and files on disk, whatever cannot be opened, read or renamed,
\* whatever is undone, and wherever the program ends (package.cpp:486-497).
\* Only a write that fails in a save to the same path, which nothing notices
\* (package.cpp:472, 478), suspends this, and only until the next save to it
\* in which none fails.
THEOREM SavedSurvivesAlways == Spec => []SavedSurvives
  BY DocumentAlways, PTL DEF DocumentInv

-----------------------------------------------------------------------------
(***************************************************************************)
(* What SetDocument keeps when no call fails, nothing crashes, the user    *)
(* undoes nothing older than the last save and does not turn a zip file    *)
(* into a directory.  Without each of these the properties are false (see  *)
(* README.md).                                                             *)
(*                                                                         *)
(* CalmInv says where the images of a document are: of every document in   *)
(* the history, in files of the package that can be read (HistoryShown);   *)
(* of the one at the save point, on the disk (SavePointStored); of what a  *)
(* save has written, in the new archive (ArchiveStored) or, while the files*)
(* arrive in a directory one after the other, partly there and partly where*)
(* they still have to come from (DirectoryStored).                         *)
(***************************************************************************)

CalmUse == ~Faults /\ ~MayCrash /\ ~UndoAcrossSave /\ ~UnpackToDirectory

\* Between saves, and as long as a save has changed nothing of the package;
\* a copy never does.
InMemory == pc \in {"idle", "zip"} \/ job.copy

\* Each image of d is in the file it names, which can be read; and the same
\* for an archive a on the disk, with the data file.
Shown(d) == \A f \in Fields : d[f] = Empty \/
  LET n == d[f].name IN n \in Names /\ Readable(n) /\ ReadIn(n) = ImageFile(d[f].image)

Stored(a, d) ==
  /\ Holds(a, Data) /\ a[Data] = DocFile(d)
  /\ \A f \in Fields : d[f] = Empty \/
       LET n == d[f].name IN n \in Names /\ Holds(a, n) /\ a[n] = ImageFile(d[f].image)

Readables ==
  InMemory => /\ \A n \in Known : Readable(n)
              /\ stream = IF filename \in Paths \ DirPaths THEN disk[filename] ELSE None

HistoryShown == InMemory => \A i \in DOMAIN hist : Shown(hist[i])

SavePointStored ==
  InMemory /\ savedPos # 0 =>
    /\ savedPos \in DOMAIN hist
    /\ IF filename = NoPath THEN \A f \in Fields : hist[savedPos][f] = Empty
                            ELSE Stored(disk[filename], hist[savedPos])

\* Whatever can be opened is a document with its images; the directory that
\* is being written is between two of them.
DisksStored ==
  \A p \in Paths : Holds(disk[p], Data) /\ (pc \in DirSteps => p # job.to) =>
    \E d \in Doc : Stored(disk[p], d)

\* A copy never goes to the package's own file.
CopyApart == pc # "idle" /\ job.copy => job.to # filename

ArchiveStored ==
  /\ pc \in {"backup", "rename", "commit"} => Stored(tmp[job.to], doc) /\ DOMAIN tmp[job.to] = Kept
  /\ pc = "clean" => Stored(disk[job.to], doc) /\ DOMAIN disk[job.to] = Kept

\* What the directory has, or will have, in file n.
Arriving(n) == IF n \in todo THEN ReadIn(n) ELSE disk[job.to][n]

DirectoryStored ==
  pc \in DirSteps =>
    /\ filename \notin Paths \ DirPaths
    /\ Data \in Kept /\ files[Data].written /\ Refers(doc) \subseteq Kept
    /\ \A n \in todo : Readable(n)
    /\ \A n \in Kept \ todo : Holds(disk[job.to], n)
    /\ Arriving(Data) = DocFile(doc)
    /\ \A f \in Fields : doc[f] = Empty \/
         LET n == doc[f].name IN n \in Names /\ Arriving(n) = ImageFile(doc[f].image)
    /\ pc = "dir rename" => files[Next1].keep /\ files[Next1].written

ClosedAtSavePoint == /\ mode # "crashed"
                     /\ mode = "closed" /\ ~discarded => savedPos = pos

CalmInv == /\ Readables /\ HistoryShown /\ SavePointStored /\ DisksStored /\ CopyApart
           /\ ArchiveStored /\ DirectoryStored /\ ClosedAtSavePoint

-----------------------------------------------------------------------------
(* What the properties ask for is part of the invariant.                     *)

\* What is stored is complete.
LEMMA StoredIsComplete ==
  ASSUME NEW a, NEW d \in Doc, Stored(a, d)
  PROVE  /\ Complete(a, d)
         /\ \A f \in Fields : d[f] # Empty => a[d[f].name] = ImageFile(d[f].image)
  <1>1. ASSUME NEW n \in Refers(d)
        PROVE  Holds(a, n)
    <2>1. PICK f \in Fields : d[f].name = n /\ n # NoName
      BY DEF Refers
    <2>2. d[f] # Empty
      BY <2>1 DEF Empty
    <2> QED BY <2>1, <2>2 DEF Stored
  <1> QED BY <1>1 DEF Stored, Complete

LEMMA InvariantImplies ==
  ASSUME DocumentInv, CalmInv
  PROVE  ImagesIntact /\ CleanMeansSaved /\ ClosedMeansSaved
  <1>1. doc \in Doc
    BY DocIsDocument DEF DocumentInv
  <1>2. pos \in DOMAIN hist /\ pos # 0
    <2>1. pos \in 1..Len(hist) /\ DOMAIN hist = 1..Len(hist) /\ Len(hist) \in Nat
      BY LenProperties DEF DocumentInv, HistoryType
    <2> QED BY <2>1
  <1>3. ImagesIntact
    <2> SUFFICES ASSUME Idle, NEW n \in Refers(doc)
                 PROVE  /\ Readable(n)
                        /\ \A f \in Fields : doc[f].name = n => ReadIn(n) = ImageFile(doc[f].image)
      BY DEF ImagesIntact
    <2>1. Shown(doc)
      BY <1>2 DEF CalmInv, HistoryShown, InMemory, Idle, doc
    <2>2. \A f \in Fields : doc[f].name = n => doc[f] # Empty
      BY DEF Refers, Empty
    <2>3. \E f \in Fields : doc[f].name = n
      BY DEF Refers
    <2> QED BY <2>1, <2>2, <2>3 DEF Shown
  <1>4. InMemory /\ savedPos = pos =>
          IF filename = NoPath THEN \A f \in Fields : doc[f] = Empty ELSE Stored(disk[filename], doc)
    BY <1>2 DEF CalmInv, SavePointStored, doc
  <1>5. CleanMeansSaved
    BY <1>1, <1>4, StoredIsComplete DEF CleanMeansSaved, Idle, AtSavePoint, InMemory
  <1>6. ClosedMeansSaved
    <2> SUFFICES ASSUME mode = "closed", ~discarded, doc # [f \in Fields |-> Empty]
                 PROVE  filename # NoPath /\ Complete(disk[filename], doc)
      BY DEF ClosedMeansSaved
    <2>1. pc = "idle" /\ savedPos = pos
      BY DEF CalmInv, ClosedAtSavePoint, DocumentInv, ProgressType
    <2>2. doc = [f \in Fields |-> doc[f]]
      BY <1>1 DEF Doc
    <2>3. ~(\A f \in Fields : doc[f] = Empty)
      BY <2>2
    <2> QED BY <1>1, <1>4, <2>1, <2>3, StoredIsComplete DEF InMemory
  <1> QED BY <1>3, <1>5, <1>6

-----------------------------------------------------------------------------
(* What keeps files readable.                                                *)

\* A file is read from where it was read before.
LEMMA ReadAsBefore ==
  ASSUME NEW n, Readable(n), filename' = filename, n \in Known', temps'[n] = temps[n],
         files'[n].written = files[n].written, files'[n].entry = files[n].entry,
         ~Written(n) /\ filename \in Paths => disk'[filename] = disk[filename]
  PROVE  Readable(n)' /\ ReadIn(n)' = ReadIn(n)
  <1>1. n \in Known /\ Written(n)' = Written(n)
    BY DEF Readable, Written
  <1>2. CASE Written(n)
    BY <1>1, <1>2 DEF Readable, ReadIn
  <1>3. CASE ~Written(n)
    <2>1. filename \in Paths
      BY <1>3, PathsAssumption DEF Readable, InDir, InZip
    <2>2. disk'[filename] = disk[filename]
      BY <1>3, <2>1
    <2> QED BY <1>1, <1>3, <2>2 DEF Readable, ReadIn, InDir, InZip, Holds
  <1> QED BY <1>2, <1>3

\* A document is shown as long as the images are read as before.
LEMMA ShownAsBefore ==
  ASSUME \A n \in Names : Readable(n) => Readable(n)' /\ ReadIn(n)' = ReadIn(n)
  PROVE  \A d : Shown(d) => Shown(d)'
  BY DEF Shown

\* A step that changes no file of the package, but perhaps others.
LEMMA MemoryStays ==
  ASSUME DocumentInv, CalmInv, InMemory,
         UNCHANGED <<filename, stream, temps, hist, savedPos>>, Known' = Known,
         \A n \in Known : files'[n].written = files[n].written /\ files'[n].entry = files[n].entry,
         filename \in Paths => disk'[filename] = disk[filename]
  PROVE  Readables' /\ HistoryShown' /\ SavePointStored'
  <1>1. \A n \in Known : Readable(n) => Readable(n)' /\ ReadIn(n)' = ReadIn(n)
    BY ReadAsBefore
  <1>2. \A n : Readable(n) => n \in Known
    BY DEF Readable
  <1>3. Readables'
    BY <1>1 DEF CalmInv, Readables
  <1>4. HistoryShown'
    <2>1. \A d : Shown(d) => Shown(d)'
      BY <1>1, <1>2, ShownAsBefore
    <2>2. \A i \in DOMAIN hist : Shown(hist[i])
      BY DEF CalmInv, HistoryShown
    <2> QED BY <2>1, <2>2 DEF HistoryShown
  <1>5. SavePointStored'
    <2>1. filename = NoPath \/ filename \in Paths
      BY DEF DocumentInv, MemoryType
    <2> QED BY <2>1 DEF CalmInv, SavePointStored
  <1> QED BY <1>3, <1>4, <1>5

\* Between saves the disk stays as it is.
LEMMA DisksStay ==
  ASSUME CalmInv, pc = "idle", pc' = "idle", UNCHANGED disk
  PROVE  DisksStored' /\ CopyApart' /\ ArchiveStored' /\ DirectoryStored'
  BY DEF CalmInv, DisksStored, CopyApart, ArchiveStored, DirectoryStored, DirSteps

-----------------------------------------------------------------------------
(* The beginning, and the edits.                                             *)

LEMMA CalmInit == Init => CalmInv
  <1> SUFFICES ASSUME Init PROVE CalmInv
    OBVIOUS
  <1> USE DEF Init, PackageInit
  <1>1. Known = {} /\ filename \notin Paths
    BY PathsAssumption DEF Known
  <1>2. Readables /\ CopyApart /\ ArchiveStored /\ DirectoryStored /\ ClosedAtSavePoint
    BY <1>1 DEF Readables, CopyApart, ArchiveStored, DirectoryStored, ClosedAtSavePoint, DirSteps
  <1>3. DOMAIN hist = {1} /\ \A f \in Fields : hist[1][f] = Empty
    OBVIOUS
  <1>4. HistoryShown /\ SavePointStored
    BY <1>3 DEF HistoryShown, SavePointStored, Shown
  <1>5. DisksStored
    BY DEF DisksStored, Holds
  <1> QED BY <1>2, <1>4, <1>5 DEF CalmInv

\* What is done is shown, and the save point stays where it was or is lost.
LEMMA Doing ==
  ASSUME DocumentInv, CalmInv, pc = "idle", pc' = "idle", NEW d \in Doc, Do(d),
         UNCHANGED <<filename, disk, job>>, Shown(d)', \A c : Shown(c) => Shown(c)'
  PROVE  HistoryShown' /\ SavePointStored'
  <1>1. /\ hist' \in Seq(Doc) /\ pos' = pos + 1 /\ Len(hist') = pos + 1
        /\ \A i \in 1..pos : hist'[i] = hist[i]
        /\ hist'[pos + 1] = d
        /\ (savedPos' = savedPos /\ savedPos <= pos) \/ savedPos' = 0
    BY NewAction DEF DocumentInv
  <1>2. /\ hist \in Seq(Doc) /\ DOMAIN hist = 1..Len(hist) /\ Len(hist) \in Nat
        /\ pos \in 1..Len(hist) /\ savedPos \in Nat
    BY LenProperties DEF DocumentInv, HistoryType
  <1>3. DOMAIN hist' = 1..(pos + 1)
    BY <1>1, LenProperties
  <1>4. ASSUME NEW i \in 1..(pos + 1)
        PROVE  Shown(hist[i])'
    <2>1. CASE i = pos + 1
      BY <1>1, <2>1
    <2>2. CASE i # pos + 1
      <3>1. i \in 1..pos /\ i \in 1..Len(hist)
        BY <1>2, <2>2
      <3>2. Shown(hist[i])
        BY <1>2, <3>1 DEF CalmInv, HistoryShown, InMemory
      <3>3. hist'[i] = hist[i]
        BY <1>1, <3>1
      <3> QED BY <3>2, <3>3
    <2> QED BY <2>1, <2>2
  <1>5. HistoryShown'
    BY <1>3, <1>4 DEF HistoryShown
  <1>6. SavePointStored'
    <2> SUFFICES ASSUME savedPos' # 0
                 PROVE  /\ savedPos' \in DOMAIN hist'
                        /\ IF filename = NoPath THEN \A f \in Fields : hist'[savedPos'][f] = Empty
                                                ELSE Stored(disk[filename], hist'[savedPos'])
      BY DEF SavePointStored
    <2>1. savedPos' = savedPos /\ savedPos \in 1..pos /\ savedPos \in 1..(pos + 1)
      BY <1>1, <1>2
    <2>2. hist'[savedPos'] = hist[savedPos]
      BY <1>1, <2>1
    <2>3. IF filename = NoPath THEN \A f \in Fields : hist[savedPos][f] = Empty
                               ELSE Stored(disk[filename], hist[savedPos])
      BY <2>1 DEF CalmInv, SavePointStored, InMemory
    <2> QED BY <1>3, <2>1, <2>2, <2>3
  <1> QED BY <1>5, <1>6

LEMMA CalmAssigning ==
  ASSUME ~Faults, DocumentInv, CalmInv, NEW f \in Fields, assign(f)
  PROVE  CalmInv'
  <1>1. PICK n : n = UnusedName
    OBVIOUS
  <1>2. PICK i : i = images'
    OBVIOUS
  <1>3. PICK d : d = [doc EXCEPT ![f] = [name |-> n, image |-> i]]
    OBVIOUS
  <1>4. n \in Names /\ n \notin Known /\ n \in FileNames
    BY <1>1, UnusedNameIsUnused, NamesApart DEF assign
  <1>5. i \in 0..MaxImage
    BY <1>2, BoundsAssumption DEF assign, DocumentInv, HistoryType
  <1>6. /\ pc = "idle" /\ pc' = "idle" /\ mode = "open"
        /\ UNCHANGED <<filename, stream, disk, job, mode>>
    BY DEF assign, Idle, outside, progress, window
  <1>7. /\ Do(d) /\ files' = [WithFile(n) EXCEPT ![n].written = TRUE]
        /\ temps' = [temps EXCEPT ![n] = ImageFile(i)]
    BY <1>1, <1>2, <1>3 DEF assign, WriteOut
  <1>8. doc \in Doc /\ pos \in DOMAIN hist
    BY DocIsDocument, LenProperties DEF DocumentInv, HistoryType
  <1>9. /\ d \in Doc /\ d[f].name = n /\ d[f].image = i
        /\ \A g \in Fields \ {f} : d[g] = doc[g]
    <2>1. [name |-> n, image |-> i] \in Value
      BY <1>4, <1>5 DEF Value
    <2>2. d \in Doc /\ d[f] = [name |-> n, image |-> i] /\ \A g \in Fields \ {f} : d[g] = doc[g]
      BY <1>3, <1>8, <2>1 DEF Doc
    <2> QED BY <2>2
  <1>10. /\ DOMAIN files' = Known \cup {n} /\ \A m \in Known : files'[m] = files[m]
         /\ files'[n].written
    BY <1>4, <1>7, WrittenFile DEF DocumentInv
  <1>11. /\ \A m \in Known : temps'[m] = temps[m]
         /\ temps'[n] = ImageFile(i) /\ temps'[n] # None
    <2>1. temps = [m \in FileNames |-> temps[m]] /\ Known \subseteq FileNames
      BY DEF DocumentInv, MemoryType, FilesType, Known
    <2>2. ImageFile(i) # None
      BY <1>4, <1>5, ImageContents, NoneIsNothing
    <2> QED BY <1>4, <1>7, <2>1, <2>2
  <1>12. \A m \in Known : Readable(m) => Readable(m)' /\ ReadIn(m)' = ReadIn(m)
    BY <1>6, <1>10, <1>11, ReadAsBefore DEF Known
  <1>13. \A m : Readable(m) => m \in Known
    BY DEF Readable
  <1>14. Readable(n)' /\ ReadIn(n)' = ImageFile(i)
    BY <1>10, <1>11 DEF Readable, ReadIn, Written, Known
  <1>15. Readables'
    <2>1. \A m \in Known' : Readable(m)'
      BY <1>6, <1>10, <1>12, <1>14 DEF CalmInv, Readables, InMemory, Known
    <2> QED BY <1>6, <2>1 DEF CalmInv, Readables, InMemory
  <1>16. \A c : Shown(c) => Shown(c)'
    BY <1>12, <1>13, ShownAsBefore
  <1>17. Shown(d)'
    <2>1. Shown(doc)
      BY <1>6, <1>8 DEF CalmInv, HistoryShown, InMemory, doc
    <2> SUFFICES ASSUME NEW g \in Fields, d[g] # Empty
                 PROVE  /\ d[g].name \in Names /\ Readable(d[g].name)'
                        /\ ReadIn(d[g].name)' = ImageFile(d[g].image)
      BY DEF Shown
    <2>2. CASE g = f
      BY <1>4, <1>9, <1>14, <2>2
    <2>3. CASE g # f
      <3>1. d[g] = doc[g]
        BY <1>9, <2>3
      <3>2. d[g].name \in Names /\ Readable(d[g].name) /\ ReadIn(d[g].name) = ImageFile(d[g].image)
        BY <2>1, <3>1 DEF Shown
      <3> QED BY <1>12, <1>13, <3>2
    <2> QED BY <2>2, <2>3
  <1>18. HistoryShown' /\ SavePointStored'
    BY <1>6, <1>7, <1>9, <1>16, <1>17, Doing
  <1>19. ClosedAtSavePoint'
    BY <1>6 DEF ClosedAtSavePoint
  <1> QED BY <1>6, <1>15, <1>18, <1>19, DisksStay DEF CalmInv

LEMMA CalmClearing ==
  ASSUME DocumentInv, CalmInv, NEW f \in Fields, clear(f)
  PROVE  CalmInv'
  <1>1. PICK d : d = [doc EXCEPT ![f] = Empty]
    OBVIOUS
  <1>2. /\ pc = "idle" /\ pc' = "idle" /\ mode = "open"
        /\ UNCHANGED <<filename, files, stream, temps, disk, job, mode>>
    BY DEF clear, Idle, package, inside, outside, progress, window
  <1>3. doc \in Doc /\ pos \in DOMAIN hist
    BY DocIsDocument, LenProperties DEF DocumentInv, HistoryType
  <1>4. d \in Doc /\ \A g \in Fields : d[g] \in {doc[g], Empty}
    <2>1. Empty \in Value
      BY BoundsAssumption DEF Empty, Value, NoName
    <2> QED BY <1>1, <1>3, <2>1 DEF Doc
  <1>5. Do(d)
    BY <1>1 DEF clear
  <1>6. \A m : /\ Readable(m)' = Readable(m) /\ ReadIn(m)' = ReadIn(m)
    BY <1>2 DEF Readable, ReadIn, Written, InDir, InZip, Known, Holds
  <1>7. \A c : Shown(c) => Shown(c)'
    BY <1>6, ShownAsBefore
  <1>8. Shown(d)'
    <2>1. Shown(doc)
      BY <1>2, <1>3 DEF CalmInv, HistoryShown, InMemory, doc
    <2>2. Shown(d)
      BY <1>4, <2>1 DEF Shown
    <2> QED BY <1>7, <2>2
  <1>9. HistoryShown' /\ SavePointStored'
    BY <1>2, <1>4, <1>5, <1>7, <1>8, Doing
  <1>10. Readables'
    BY <1>2, <1>6 DEF CalmInv, Readables, InMemory, Known
  <1>11. ClosedAtSavePoint'
    BY <1>2 DEF ClosedAtSavePoint
  <1> QED BY <1>2, <1>9, <1>10, <1>11, DisksStay DEF CalmInv

LEMMA CalmMoving ==
  ASSUME DocumentInv, CalmInv, NEW i \in DOMAIN hist, move(i)
  PROVE  CalmInv'
  <1>1. /\ pc = "idle" /\ pc' = "idle" /\ mode = "open"
        /\ UNCHANGED <<filename, files, stream, temps, disk, job, mode, hist, savedPos>>
    BY DEF move, Idle, package, inside, outside, progress, window
  <1>2. Known' = Known
    BY <1>1 DEF Known
  <1>3. Readables' /\ HistoryShown' /\ SavePointStored'
    BY <1>1, <1>2, MemoryStays DEF InMemory
  <1>4. ClosedAtSavePoint'
    BY <1>1 DEF ClosedAtSavePoint
  <1> QED BY <1>1, <1>3, <1>4, DisksStay DEF CalmInv

-----------------------------------------------------------------------------
(* Saving.                                                                   *)

\* All references of the document are known, so the data file is finished.
LEMMA DocumentReferable ==
  ASSUME DocumentInv, CalmInv, InMemory
  PROVE  Shown(doc) /\ Referable(doc)
  <1>1. doc \in Doc /\ pos \in DOMAIN hist
    BY DocIsDocument, LenProperties DEF DocumentInv, HistoryType
  <1>2. Shown(doc)
    BY <1>1 DEF CalmInv, HistoryShown, doc
  <1>3. ASSUME NEW n \in Refers(doc)
        PROVE  n \in Known
    <2>1. PICK f \in Fields : doc[f].name = n /\ n # NoName
      BY DEF Refers
    <2>2. doc[f] # Empty
      BY <2>1 DEF Empty
    <2> QED BY <1>2, <2>1, <2>2 DEF Shown, Readable
  <1> QED BY <1>1, <1>2, <1>3, KnownIsReferable

LEMMA CalmStarting ==
  ASSUME ~Faults, DocumentInv, CalmInv, NEW to \in Paths, NEW copy \in BOOLEAN, mode = "open",
         copy => to # filename, filename \in Paths \ DirPaths => to \notin DirPaths,
         startSave(to, copy, doc), UNCHANGED <<history, mode>>
  PROVE  CalmInv'
  <1>1. /\ pc = "idle" /\ (to \in DirPaths => ~copy)
        /\ UNCHANGED <<filename, stream, disk, tmp>>
    BY DEF startSave, outside
  <1>2. Shown(doc) /\ Referable(doc)
    BY <1>1, DocumentReferable DEF InMemory
  <1>3. /\ job' = [to |-> to, copy |-> copy, cut |-> FALSE] /\ pc' = IF to \in DirPaths THEN "dir" ELSE "zip"
        /\ todo' = IF to \in DirPaths THEN DOMAIN files' ELSE {}
        /\ temps' = [temps EXCEPT ![Data] = DocFile(doc)]
    BY <1>2 DEF startSave
  <1>4. job'.to = to /\ job'.copy = copy
    BY <1>3
  <1>5. /\ DOMAIN files' = Known \cup {Data}
        /\ \A n \in Known \ {Data} : /\ files'[n].written = files[n].written
                                     /\ files'[n].entry = files[n].entry
        /\ files'[Data].written /\ Data \in Kept' /\ Refers(doc) \subseteq Kept'
    BY <1>2, SaveStarts
  <1>6. UNCHANGED <<hist, pos, savedPos, doc>> /\ Refers(doc)' = Refers(doc)
    BY DEF history, doc, Refers
  <1>7. doc \in Doc
    BY DocIsDocument DEF DocumentInv
  <1>8. /\ temps'[Data] = DocFile(doc) /\ temps'[Data] # None
        /\ \A n \in Known \ {Data} : temps'[n] = temps[n]
    <2>1. temps = [m \in FileNames |-> temps[m]] /\ Known \subseteq FileNames
      BY DEF DocumentInv, MemoryType, FilesType, Known
    <2>2. DocFile(doc) # None
      BY <1>7, DataContents, NamesApart, NoneIsNothing
    <2> QED BY <1>3, <2>1, <2>2, NamesApart
  <1>9. \A n \in Known \ {Data} : Readable(n) => Readable(n)' /\ ReadIn(n)' = ReadIn(n)
    BY <1>1, <1>5, <1>8, ReadAsBefore DEF Known
  <1>10. Readable(Data)' /\ ReadIn(Data)' = DocFile(doc)
    BY <1>5, <1>8 DEF Readable, ReadIn, Written, Known
  <1>11. \A n \in Known' : Readable(n)'
    BY <1>1, <1>5, <1>9, <1>10 DEF CalmInv, Readables, InMemory, Known
  <1>12. Readables'
    BY <1>1, <1>11 DEF CalmInv, Readables, InMemory
  <1>13. \A c : Shown(c) => Shown(c)'
    <2>1. \A n \in Names : Readable(n) => n \in Known \ {Data}
      BY NamesApart DEF Readable
    <2> QED BY <1>9, <2>1, ShownAsBefore
  <1>14. HistoryShown'
    BY <1>1, <1>6, <1>13 DEF CalmInv, HistoryShown, InMemory
  <1>15. SavePointStored'
    BY <1>1, <1>6 DEF CalmInv, SavePointStored, InMemory
  <1>16. DisksStored'
    BY <1>1 DEF CalmInv, DisksStored, DirSteps
  <1>17. CopyApart' /\ ArchiveStored'
    BY <1>1, <1>3, <1>4 DEF CopyApart, ArchiveStored
  <1>18. DirectoryStored'
    <2> SUFFICES ASSUME pc' \in DirSteps
                 PROVE  DirectoryStored'
      BY DEF DirectoryStored
    <2>1. to \in DirPaths /\ pc' = "dir" /\ todo' = Known'
      BY <1>3 DEF DirSteps, Known
    <2>2. Kept' \subseteq Known' /\ Kept' \ todo' = {}
      BY <2>1 DEF Kept
    <2>3. \A n \in Known' : Arriving(n)' = ReadIn(n)'
      BY <2>1 DEF Arriving
    <2>4. Arriving(Data)' = DocFile(doc)
      BY <1>5, <1>10, <2>3 DEF Known
    <2>5. ASSUME NEW f \in Fields, doc[f] # Empty
          PROVE  \E n \in Names : n = doc[f].name /\ Arriving(n)' = ImageFile(doc[f].image)
      <3>1. Shown(doc)'
        BY <1>2, <1>6, <1>13
      <3>2. PICK n : n = doc[f].name
        OBVIOUS
      <3>3. n \in Names /\ Readable(n)' /\ ReadIn(n)' = ImageFile(doc[f].image)
        BY <1>6, <2>5, <3>1, <3>2 DEF Shown
      <3>4. n \in Known'
        BY <3>3 DEF Readable
      <3>5. Arriving(n)' = ImageFile(doc[f].image)
        BY <2>3, <3>3, <3>4
      <3> QED BY <3>2, <3>3, <3>5
    <2>6. \A f \in Fields : doc'[f] = Empty \/
            (doc'[f].name \in Names /\ Arriving(doc[f].name)' = ImageFile(doc'[f].image))
      BY <1>6, <2>5
    <2> QED BY <1>1, <1>5, <1>6, <1>11, <2>1, <2>2, <2>4, <2>6, PathsAssumption
            DEF DirectoryStored, DocumentInv, MemoryType
  <1>19. ClosedAtSavePoint'
    BY DEF ClosedAtSavePoint
  <1> QED BY <1>12, <1>14, <1>15, <1>16, <1>17, <1>18, <1>19 DEF CalmInv

\* An entry of the old archive is what would be read under its name.
LEMMA CopyIsRead ==
  ASSUME DocumentInv, CalmInv, mode = "open", pc = "zip", NEW n \in Known
  PROVE  CopyFrom(n) = ReadIn(n)
  <1>1. CASE FromEntry(n)
    <2>1. Holds(stream, n) /\ ~Written(n)
      BY <1>1 DEF DocumentInv, Streamed, WrittenSteps, FromEntry, Written
    <2>2. stream = disk[filename]
      BY <2>1 DEF CalmInv, Readables, InMemory, Holds
    <2> QED BY <1>1, <2>1, <2>2 DEF CopyFrom, ReadIn
  <1>2. CASE ~FromEntry(n)
    BY <1>2 DEF CopyFrom
  <1> QED BY <1>1, <1>2

LEMMA CalmWritingZip ==
  ASSUME ~Faults, DocumentInv, DocumentInv', CalmInv, mode = "open", writeZip,
         UNCHANGED <<history, mode>>
  PROVE  CalmInv'
  <1>1. PICK a : a = [n \in Kept |-> CopyFrom(n)]
    OBVIOUS
  <1>2. /\ pc = "zip" /\ pc' = "backup" /\ tmp' = [tmp EXCEPT ![job.to] = a]
        /\ files' = UseEntries(Kept) /\ stream' = IF job.copy THEN stream ELSE None
        /\ UNCHANGED <<filename, temps, disk, job>>
    BY <1>1 DEF writeZip, zipTo
  <1>3. UNCHANGED <<hist, pos, savedPos, doc>> /\ doc \in Doc
    BY DocIsDocument DEF history, doc, DocumentInv
  <1>4. /\ DOMAIN files' = Known
        /\ \A n \in Known : /\ files'[n].keep = files[n].keep
                            /\ files'[n].written = files[n].written
                            /\ files'[n].entry = (files[n].entry /\ ~(n \in Kept /\ FromEntry(n)))
    BY <1>2, UsingEntries DEF DocumentInv
  <1>5. Known' = Known /\ Kept' = Kept /\ Kept \subseteq Known
    BY <1>4 DEF Known, Kept
  <1>6. tmp'[job.to] = a
    BY <1>2 DEF DocumentInv, DiskType, ProgressType
  <1>7. Stored(a, doc)
    <2>1. /\ Data \in Kept /\ files[Data].written /\ temps[Data] = DocFile(doc)
          /\ Refers(doc) \subseteq Kept
      BY <1>2 DEF DocumentInv, ZipAsked, ProgressType
    <2>2. a # None
      BY <1>2, <1>6 DEF DocumentInv, NewArchiveComplete, Complete, Holds
    <2>3. \A n \in Kept : Holds(a, n) /\ a[n] = ReadIn(n)
      BY <1>1, <1>2, <1>5, <2>2, CopyIsRead DEF Holds
    <2>4. a[Data] = DocFile(doc)
      BY <1>5, <2>1, <2>3 DEF ReadIn, Written
    <2>5. Shown(doc)
      BY <1>2, DocumentReferable DEF InMemory
    <2>6. ASSUME NEW f \in Fields, doc[f] # Empty
          PROVE  /\ doc[f].name \in Names /\ Holds(a, doc[f].name)
                 /\ a[doc[f].name] = ImageFile(doc[f].image)
      <3>1. doc[f].name \in Names /\ ReadIn(doc[f].name) = ImageFile(doc[f].image)
        BY <2>5, <2>6 DEF Shown
      <3>2. doc[f].name \in Kept
        <4>1. doc[f].name # NoName
          BY <3>1, NamesApart
        <4>2. doc[f].name \in Refers(doc)
          BY <1>3, <4>1, RefersToNames
        <4> QED BY <2>1, <4>2
      <3> QED BY <2>3, <3>1, <3>2
    <2> QED BY <2>1, <2>3, <2>4, <2>6 DEF Stored
  <1>8. ArchiveStored'
    BY <1>1, <1>2, <1>3, <1>5, <1>6, <1>7 DEF ArchiveStored
  <1>9. Readables' /\ HistoryShown' /\ SavePointStored'
    <2>1. CASE job.copy
      <3>1. \A n \in Known : files'[n].entry = files[n].entry
        <4>1. \A n \in Known : ~FromEntry(n)
          BY <2>1 DEF FromEntry
        <4>2. \A n \in Known : files[n].entry \in BOOLEAN
          BY DEF DocumentInv, FilesType, FileRecord, Known
        <4> QED BY <1>4, <4>1, <4>2
      <3> QED BY <1>2, <1>3, <1>4, <1>5, <2>1, <3>1, MemoryStays DEF InMemory
    <2>2. CASE ~job.copy
      BY <1>2, <2>2 DEF Readables, HistoryShown, SavePointStored, InMemory
    <2> QED BY <2>1, <2>2
  <1>10. DisksStored' /\ CopyApart' /\ DirectoryStored' /\ ClosedAtSavePoint'
    BY <1>2 DEF CalmInv, DisksStored, CopyApart, DirectoryStored, ClosedAtSavePoint, DirSteps
  <1> QED BY <1>8, <1>9, <1>10 DEF CalmInv

\* A kept file can always be read, so writing the archive does not fail.
LEMMA ZipDoesNotFail ==
  ASSUME ~Faults, DocumentInv, CalmInv
  PROVE  ~writeZipFails /\ ~writeZipCut
  <1>0. ~writeZipCut
    BY DEF writeZipCut
  <1> SUFFICES ASSUME writeZipFails PROVE FALSE
    BY <1>0
  <1>1. pc = "zip"
    BY DEF writeZipFails
  <1>2. PICK b \in Kept \cup {0} : (b = 0 => Faults) /\ (b # 0 => Faults \/ ~Readable(b))
    BY DEF writeZipFails
  <1>3. b \in Known /\ ~Readable(b)
    BY <1>2 DEF Kept
  <1> QED BY <1>1, <1>3 DEF CalmInv, Readables, InMemory

\* Steps that change at most the archive at the place of the save.
LEMMA CalmReplacing ==
  ASSUME DocumentInv, CalmInv, mode = "open",
         pc \in {"backup", "rename", "commit"}, pc' \in {"rename", "commit", "clean"},
         UNCHANGED <<history, mode, filename, files, stream, temps, job>>,
         \A p \in Paths \ {job.to} : disk'[p] = disk[p],
         ArchiveStored',
         \/ UNCHANGED disk
         \/ disk'[job.to] = None
         \/ Stored(disk'[job.to], doc)
  PROVE  CalmInv'
  <1>1. UNCHANGED <<hist, pos, savedPos, doc>> /\ doc \in Doc
    BY DocIsDocument DEF history, doc, DocumentInv
  <1>2. Known' = Known
    BY DEF Known
  <1>3. Readables' /\ HistoryShown' /\ SavePointStored'
    <2>1. CASE job.copy
      <3>1. filename \in Paths => disk'[filename] = disk[filename]
        BY <2>1 DEF CalmInv, CopyApart
      <3> QED BY <1>1, <1>2, <2>1, <3>1, MemoryStays DEF InMemory
    <2>2. CASE ~job.copy
      BY <2>2 DEF Readables, HistoryShown, SavePointStored, InMemory
    <2> QED BY <2>1, <2>2
  <1>4. DisksStored'
    <2>1. ASSUME NEW p \in Paths, Holds(disk'[p], Data)
          PROVE  \E d \in Doc : Stored(disk'[p], d)
      <3>1. CASE disk'[p] = disk[p]
        BY <2>1, <3>1 DEF CalmInv, DisksStored, DirSteps
      <3>2. CASE disk'[p] # disk[p]
        <4>1. p = job.to /\ Stored(disk'[job.to], doc)
          BY <2>1, <3>2 DEF Holds
        <4> QED BY <1>1, <4>1
      <3> QED BY <3>1, <3>2
    <2> QED BY <2>1 DEF DisksStored
  <1>5. CopyApart' /\ DirectoryStored' /\ ClosedAtSavePoint'
    BY DEF CalmInv, CopyApart, DirectoryStored, ClosedAtSavePoint, DirSteps
  <1> QED BY <1>3, <1>4, <1>5 DEF CalmInv

LEMMA CalmZipSteps ==
  ASSUME DocumentInv, CalmInv, ~Faults, mode = "open", removeBackup \/ makeBackup \/ commit,
         UNCHANGED <<history, mode>>
  PROVE  CalmInv'
  <1>1. job.to \in Paths
    BY DEF DocumentInv, ProgressType
  <1>2. UNCHANGED doc
    BY DEF history, doc
  <1>3. CASE removeBackup
    <2>1. /\ pc = "backup" /\ pc' \in {"rename", "commit"}
          /\ UNCHANGED <<filename, files, stream, temps, disk, tmp, job>>
      BY <1>3 DEF removeBackup, inside
    <2>2. ArchiveStored'
      BY <1>2, <2>1 DEF CalmInv, ArchiveStored, Kept, Known
    <2> QED BY <2>1, <2>2, CalmReplacing
  <1>4. CASE makeBackup
    <2>1. /\ pc = "rename" /\ pc' = "commit" /\ disk' = [disk EXCEPT ![job.to] = None]
          /\ UNCHANGED <<filename, files, stream, temps, tmp, job>>
      BY <1>4 DEF makeBackup, inside
    <2>2. ArchiveStored'
      BY <1>2, <2>1 DEF CalmInv, ArchiveStored, Kept, Known
    <2>3. disk'[job.to] = None /\ \A p \in Paths \ {job.to} : disk'[p] = disk[p]
      BY <1>1, <2>1 DEF DocumentInv, DiskType
    <2> QED BY <2>1, <2>2, <2>3, CalmReplacing
  <1>5. CASE commit
    <2>1. /\ pc = "commit" /\ pc' = "clean" /\ disk' = [disk EXCEPT ![job.to] = tmp[job.to]]
          /\ UNCHANGED <<filename, files, stream, temps, job>>
      BY <1>5 DEF commit, inside
    <2>2. Stored(tmp[job.to], doc) /\ DOMAIN tmp[job.to] = Kept
      BY <2>1 DEF CalmInv, ArchiveStored
    <2>3. disk'[job.to] = tmp[job.to] /\ \A p \in Paths \ {job.to} : disk'[p] = disk[p]
      BY <1>1, <2>1 DEF DocumentInv, DiskType
    <2>4. ArchiveStored'
      BY <1>2, <2>1, <2>2, <2>3 DEF ArchiveStored, Kept, Known
    <2> QED BY <2>1, <2>2, <2>3, <2>4, CalmReplacing
  <1> QED BY <1>3, <1>4, <1>5

LEMMA CalmFinishingCopy ==
  ASSUME DocumentInv, CalmInv, mode = "open", finishCopy, UNCHANGED <<history, mode>>
  PROVE  CalmInv'
  <1>1. /\ job.copy /\ pc' = "idle" /\ files' = [n \in Known |-> [files[n] EXCEPT !.keep = FALSE]]
        /\ UNCHANGED <<filename, stream, temps, disk, tmp, job>>
    BY DEF finishCopy, outside
  <1>2. pc = "clean"
    BY <1>1 DEF finishCopy, AfterSave, DocumentInv, ProgressType, DirSteps
  <1>3. \A n \in Known : /\ [files[n] EXCEPT !.keep = FALSE].entry = files[n].entry
                         /\ [files[n] EXCEPT !.keep = FALSE].written = files[n].written
    <2>1. \A n \in Known : files[n] \in FileRecord
      BY DEF DocumentInv, FilesType, Known
    <2> QED BY <2>1 DEF FileRecord
  <1>4. /\ Known' = Known
        /\ \A n \in Known : files'[n].written = files[n].written /\ files'[n].entry = files[n].entry
    BY <1>1, <1>3 DEF Known
  <1>5. UNCHANGED <<hist, pos, savedPos>>
    BY DEF history
  <1>6. Readables' /\ HistoryShown' /\ SavePointStored'
    BY <1>1, <1>4, <1>5, MemoryStays DEF InMemory
  <1>7. DisksStored'
    BY <1>1, <1>2 DEF CalmInv, DisksStored, DirSteps
  <1>8. CopyApart' /\ ArchiveStored' /\ DirectoryStored' /\ ClosedAtSavePoint'
    BY <1>1 DEF CalmInv, CopyApart, ArchiveStored, DirectoryStored, ClosedAtSavePoint, DirSteps
  <1> QED BY <1>6, <1>7, <1>8 DEF CalmInv

\* What was to be committed is there.
LEMMA ReopenDoesNotFail ==
  ASSUME DocumentInv, CalmInv
  PROVE  ~finishSaveFails
  <1> SUFFICES ASSUME finishSaveFails PROVE FALSE
    OBVIOUS
  <1>1. job.to \notin DirPaths /\ disk[job.to] = None /\ (pc = "clean" \/ pc = "dir")
    BY DEF finishSaveFails, AfterSave
  <1>2. pc = "clean"
    BY <1>1 DEF DocumentInv, ProgressType, DirSteps
  <1> QED BY <1>1, <1>2 DEF CalmInv, ArchiveStored, Stored, Holds

-----------------------------------------------------------------------------
(* Saving to a directory.                                                    *)

\* The file that is next, with what holds of it and of the directory.
LEMMA NextFile ==
  ASSUME DocumentInv, CalmInv, pc \in DirSteps, todo # {}
  PROVE  /\ Next1 \in todo /\ Next1 \in Known /\ Next1 \in FileNames /\ Readable(Next1)
         /\ files[Next1].written => temps[Next1] # None /\ ReadIn(Next1) = temps[Next1]
         /\ ~files[Next1].written => InDir(Next1) /\ ReadIn(Next1) = disk[filename][Next1]
  <1>1. Next1 \in todo /\ Next1 \in Known /\ Next1 \in FileNames
    BY Directory
  <1>2. Readable(Next1) /\ filename \notin Paths \ DirPaths
    BY <1>1 DEF CalmInv, DirectoryStored
  <1>3. files[Next1].written = Written(Next1)
    BY <1>1 DEF Written, DocumentInv, FilesType, FileRecord, Known
  <1> QED BY <1>1, <1>2, <1>3 DEF Readable, ReadIn, InZip

\* When the step is about file n, and what arrives of each file stays, the
\* directory still gets the document.
LEMMA CalmDirectory ==
  ASSUME DocumentInv, CalmInv, mode = "open", pc \in DirSteps, pc' \in DirSteps,
         UNCHANGED <<history, mode, filename, files, job>>,
         \A p \in Paths \ {job.to} : disk'[p] = disk[p],
         todo' \subseteq todo,
         \A n \in todo' : Readable(n)',
         \A n \in Kept \ todo' : Holds(disk'[job.to], n),
         \A n \in Kept : Arriving(n)' = Arriving(n),
         pc' = "dir rename" => files[Next1'].keep /\ files[Next1'].written
  PROVE  CalmInv'
  <1>1. UNCHANGED <<hist, pos, savedPos, doc>> /\ doc \in Doc
    BY DocIsDocument DEF history, doc, DocumentInv
  <1>2. ~job.copy /\ pc \notin {"idle", "zip"} /\ pc' \notin {"idle", "zip"}
    BY DEF DocumentInv, ProgressType, DirSteps
  <1>3. Readables' /\ HistoryShown' /\ SavePointStored'
    BY <1>2 DEF Readables, HistoryShown, SavePointStored, InMemory
  <1>4. DisksStored' /\ CopyApart' /\ ArchiveStored' /\ ClosedAtSavePoint'
    BY <1>2 DEF CalmInv, DisksStored, CopyApart, ArchiveStored, ClosedAtSavePoint, DirSteps
  <1>5. Kept' = Kept /\ Refers(doc)' = Refers(doc)
    BY <1>1 DEF Kept, Known, Refers
  <1>6. /\ filename \notin Paths \ DirPaths
        /\ Data \in Kept /\ files[Data].written /\ Refers(doc) \subseteq Kept
        /\ Arriving(Data) = DocFile(doc)
        /\ \A f \in Fields : doc[f] = Empty \/
             (doc[f].name \in Names /\ Arriving(doc[f].name) = ImageFile(doc[f].image))
    BY DEF CalmInv, DirectoryStored
  <1>7. Arriving(Data)' = DocFile(doc)
    BY <1>6
  <1>8. ASSUME NEW f \in Fields, doc[f] # Empty
        PROVE  \E n \in Names : n = doc[f].name /\ Arriving(n)' = ImageFile(doc[f].image)
    <2>1. PICK n : n = doc[f].name
      OBVIOUS
    <2>2. n \in Names /\ Arriving(n) = ImageFile(doc[f].image)
      BY <1>6, <1>8, <2>1
    <2>3. n \in Refers(doc)
      BY <1>1, <2>1, <2>2, NamesApart, RefersToNames
    <2>4. Arriving(n)' = Arriving(n)
      BY <1>6, <2>3
    <2> QED BY <2>1, <2>2, <2>4
  <1>9. \A f \in Fields : doc'[f] = Empty \/
          (doc'[f].name \in Names /\ Arriving(doc[f].name)' = ImageFile(doc'[f].image))
    BY <1>1, <1>8
  <1>10. DirectoryStored'
    BY <1>1, <1>5, <1>6, <1>7, <1>9 DEF DirectoryStored
  <1> QED BY <1>3, <1>4, <1>10 DEF CalmInv

\* A file is read as before if the directory still has it as it was.
LEMMA StillRead ==
  ASSUME NEW n \in Known, Readable(n), filename \notin Paths \ DirPaths,
         UNCHANGED <<filename, files>>, temps'[n] = temps[n],
         filename \in Paths /\ ~Written(n) /\ Holds(disk[filename], n) =>
           Holds(disk'[filename], n) /\ disk'[filename][n] = disk[filename][n]
  PROVE  Readable(n)' /\ ReadIn(n)' = ReadIn(n)
  <1>1. Written(n)' = Written(n) /\ Known' = Known
    BY DEF Written, Known
  <1>2. CASE Written(n)
    BY <1>1, <1>2 DEF Readable, ReadIn
  <1>3. CASE ~Written(n)
    <2>1. filename \in DirPaths /\ filename \in Paths /\ Holds(disk[filename], n)
      BY <1>3, PathsAssumption DEF Readable, InDir, InZip
    <2>2. Holds(disk'[filename], n) /\ disk'[filename][n] = disk[filename][n]
      BY <1>3, <2>1
    <2>3. ReadIn(n) = disk[filename][n] /\ ReadIn(n)' = disk'[filename][n]
      BY <1>1, <1>3 DEF ReadIn
    <2>4. Readable(n)'
      BY <1>1, <1>3, <2>1, <2>2 DEF Readable, InDir
    <2> QED BY <2>2, <2>3, <2>4
  <1> QED BY <1>2, <1>3

LEMMA CalmSkipping ==
  ASSUME DocumentInv, CalmInv, mode = "open", dirSkip, UNCHANGED <<history, mode>>
  PROVE  CalmInv'
  <1>1. PICK m : m = Next1
    OBVIOUS
  <1>2. /\ pc = "dir" /\ pc' = "dir" /\ todo # {} /\ todo' = todo \ {m}
        /\ ~files[m].keep \/ (~files[m].written /\ filename = job.to)
        /\ UNCHANGED <<filename, files, temps, disk, job>>
    BY <1>1 DEF dirSkip, inside, outside
  <1>3. /\ m \in todo /\ m \in Known
        /\ ~files[m].written => InDir(m) /\ ReadIn(m) = disk[filename][m]
    BY <1>1, <1>2, NextFile DEF DirSteps
  <1>4. m \in Kept => Holds(disk[job.to], m) /\ ReadIn(m) = disk[job.to][m]
    BY <1>2, <1>3 DEF Kept, InDir
  <1>5. \A n : Readable(n)' = Readable(n) /\ ReadIn(n)' = ReadIn(n)
    BY <1>2 DEF Readable, ReadIn, Written, InDir, InZip, Known, Holds
  <1>6. \A n \in todo' : Readable(n)'
    BY <1>2, <1>5 DEF CalmInv, DirectoryStored, DirSteps
  <1>7. \A n \in Kept \ todo' : Holds(disk'[job.to], n)
    BY <1>2, <1>4 DEF CalmInv, DirectoryStored, DirSteps
  <1>8. \A n \in Kept : Arriving(n)' = Arriving(n)
    BY <1>2, <1>3, <1>4, <1>5 DEF Arriving
  <1> QED BY <1>2, <1>6, <1>7, <1>8, CalmDirectory DEF DirSteps

LEMMA CalmRemoving ==
  ASSUME DocumentInv, CalmInv, mode = "open", dirRemove, UNCHANGED <<history, mode>>
  PROVE  CalmInv'
  <1>1. PICK m : m = Next1
    OBVIOUS
  <1>2. /\ pc = "dir" /\ pc' = "dir rename" /\ todo # {} /\ UNCHANGED todo
        /\ files[m].keep /\ files[m].written
        /\ disk' = [disk EXCEPT ![job.to] = Without(disk[job.to], m)]
        /\ UNCHANGED <<filename, files, temps, job>>
    BY <1>1 DEF dirRemove, inside
  <1>3. m \in todo /\ m \in Known /\ m \in FileNames
    BY <1>1, <1>2, NextFile DEF DirSteps
  <1>4. job.to \in Paths /\ disk[job.to] \in Archives
    BY <1>2, Directory DEF DirSteps
  <1>5. /\ disk'[job.to] = Without(disk[job.to], m)
        /\ \A p \in Paths \ {job.to} : disk'[p] = disk[p]
    BY <1>2, <1>4 DEF DocumentInv, DiskType
  <1>6. \A n : n # m /\ Holds(disk[job.to], n) =>
          Holds(disk'[job.to], n) /\ disk'[job.to][n] = disk[job.to][n]
    <2>1. PICK a \in Archives : a = disk[job.to]
      BY <1>4
    <2>2. /\ Without(a, m) \in Archives /\ DOMAIN Without(a, m) = DOMAIN a \ {m}
          /\ \A n \in DOMAIN a \ {m} : Without(a, m)[n] = a[n]
      BY <1>3, WithoutAndWith
    <2>3. Without(a, m) # None
      BY <2>2, NoneIsNothing
    <2> QED BY <1>5, <2>1, <2>2, <2>3 DEF Holds
  <1>7. ASSUME NEW n \in todo
        PROVE  Readable(n)' /\ ReadIn(n)' = ReadIn(n)
    <2>1. Readable(n) /\ n \in Known /\ filename \notin Paths \ DirPaths
      BY <1>2 DEF CalmInv, DirectoryStored, DirSteps, Readable
    <2>2. ~Written(n) => n # m
      BY <1>2, <1>3 DEF Written
    <2>3. filename \in Paths /\ ~Written(n) /\ Holds(disk[filename], n) =>
            Holds(disk'[filename], n) /\ disk'[filename][n] = disk[filename][n]
      BY <1>5, <1>6, <2>2
    <2> QED BY <1>2, <2>1, <2>3, StillRead
  <1>8. \A n \in Kept \ todo : Holds(disk'[job.to], n) /\ disk'[job.to][n] = disk[job.to][n]
    BY <1>2, <1>3, <1>6 DEF CalmInv, DirectoryStored, DirSteps
  <1>9. \A n \in Kept : Arriving(n)' = Arriving(n)
    BY <1>2, <1>7, <1>8 DEF Arriving
  <1>10. Next1' = Next1
    BY <1>2 DEF Next1
  <1> QED BY <1>1, <1>2, <1>5, <1>7, <1>8, <1>9, <1>10, CalmDirectory DEF DirSteps

\* The file that is next arrives, and it is no longer to do.
LEMMA CalmArriving ==
  ASSUME DocumentInv, CalmInv, mode = "open", pc \in DirSteps, todo # {}, UNCHANGED <<history, mode>>,
         NEW m, m = Next1, NEW c \in Contents(m), ReadIn(m) = c,
         disk' = [disk EXCEPT ![job.to] = With(disk[job.to], m, c)],
         \A n \in Known \ {m} : temps'[n] = temps[n],
         pc' = "dir", todo' = todo \ {m}, UNCHANGED <<filename, files, job>>
  PROVE  CalmInv'
  <1>1. m \in todo /\ m \in Known /\ m \in FileNames
    BY NextFile
  <1>2. job.to \in Paths /\ disk[job.to] \in Archives
    BY Directory
  <1>3. /\ disk'[job.to] = With(disk[job.to], m, c)
        /\ \A p \in Paths \ {job.to} : disk'[p] = disk[p]
    BY <1>2 DEF DocumentInv, DiskType
  <1>4. /\ With(disk[job.to], m, c) \in Archives
        /\ DOMAIN With(disk[job.to], m, c) = DOMAIN disk[job.to] \cup {m}
        /\ With(disk[job.to], m, c)[m] = c
        /\ \A n \in DOMAIN disk[job.to] \ {m} : With(disk[job.to], m, c)[n] = disk[job.to][n]
    <2>1. PICK a \in Archives : a = disk[job.to]
      BY <1>2
    <2>2. /\ With(a, m, c) \in Archives /\ DOMAIN With(a, m, c) = DOMAIN a \cup {m}
          /\ With(a, m, c)[m] = c
          /\ \A n \in DOMAIN a \ {m} : With(a, m, c)[n] = a[n]
      BY <1>1, WithArrives
    <2> QED BY <2>1, <2>2
  <1>5. /\ Holds(disk'[job.to], m) /\ disk'[job.to][m] = c
        /\ \A n : n # m /\ Holds(disk[job.to], n) =>
             Holds(disk'[job.to], n) /\ disk'[job.to][n] = disk[job.to][n]
    BY <1>3, <1>4, ArchiveProperties DEF Holds
  <1>6. ASSUME NEW n \in todo \ {m}
        PROVE  Readable(n)' /\ ReadIn(n)' = ReadIn(n)
    <2>1. Readable(n) /\ n \in Known /\ filename \notin Paths \ DirPaths
      BY DEF CalmInv, DirectoryStored, Readable
    <2>2. filename \in Paths /\ ~Written(n) /\ Holds(disk[filename], n) =>
            Holds(disk'[filename], n) /\ disk'[filename][n] = disk[filename][n]
      BY <1>3, <1>5
    <2> QED BY <2>1, <2>2, StillRead
  <1>7. \A n \in Kept \ todo : Holds(disk[job.to], n)
    BY DEF CalmInv, DirectoryStored
  <1>8. \A n \in Kept \ todo' : Holds(disk'[job.to], n)
    BY <1>5, <1>7
  <1>9. ASSUME NEW n \in Kept
        PROVE  Arriving(n)' = Arriving(n)
    <2>1. CASE n = m
      BY <1>1, <1>5, <2>1 DEF Arriving
    <2>2. CASE n # m /\ n \in todo
      BY <1>6, <2>2 DEF Arriving
    <2>3. CASE n # m /\ n \notin todo
      BY <1>5, <1>7, <2>3 DEF Arriving
    <2> QED BY <2>1, <2>2, <2>3
  <1> QED BY <1>3, <1>6, <1>8, <1>9, CalmDirectory DEF DirSteps

LEMMA CalmRenaming ==
  ASSUME DocumentInv, CalmInv, ~Faults, mode = "open", dirRename, UNCHANGED <<history, mode>>
  PROVE  CalmInv'
  <1>1. PICK m : m = Next1
    OBVIOUS
  <1>2. pc = "dir rename" /\ todo # {}
    BY DEF dirRename, DocumentInv, ProgressType
  <1>3. files[m].written
    BY <1>1, <1>2 DEF CalmInv, DirectoryStored, DirSteps
  <1>4. m \in FileNames /\ temps[m] # None /\ ReadIn(m) = temps[m]
    BY <1>1, <1>2, <1>3, NextFile DEF DirSteps
  <1>5. PICK c : c = temps[m]
    OBVIOUS
  <1>6. c \in Contents(m)
    BY <1>4, <1>5 DEF DocumentInv, MemoryType
  <1>7. /\ disk' = [disk EXCEPT ![job.to] = With(disk[job.to], m, c)]
        /\ temps' = [temps EXCEPT ![m] = None]
        /\ pc' = "dir" /\ todo' = todo \ {m} /\ UNCHANGED <<filename, files, job>>
    BY <1>1, <1>4, <1>5 DEF dirRename
  <1>8. \A n \in Known \ {m} : temps'[n] = temps[n]
    <2>1. temps = [n \in FileNames |-> temps[n]] /\ Known \subseteq FileNames
      BY DEF DocumentInv, MemoryType, FilesType, Known
    <2> QED BY <1>7, <2>1
  <1> QED BY <1>1, <1>2, <1>4, <1>5, <1>6, <1>7, <1>8, CalmArriving DEF DirSteps

LEMMA CalmCopying ==
  ASSUME DocumentInv, CalmInv, ~Faults, mode = "open", dirCopy, UNCHANGED <<history, mode>>
  PROVE  CalmInv'
  <1>1. PICK m : m = Next1
    OBVIOUS
  <1>2. pc = "dir" /\ todo # {} /\ ~files[m].written
    BY <1>1 DEF dirCopy
  <1>3. InDir(m) /\ ReadIn(m) = disk[filename][m]
    BY <1>1, <1>2, NextFile DEF DirSteps
  <1>4. PICK c : c = disk[filename][m]
    OBVIOUS
  <1>5. c \in Contents(m)
    <2>1. filename \in Paths /\ Holds(disk[filename], m)
      BY <1>3, PathsAssumption DEF InDir
    <2> QED BY <1>4, <2>1, ArchiveProperties DEF DocumentInv, DiskType, Holds
  <1>6. /\ disk' = [disk EXCEPT ![job.to] = With(disk[job.to], m, c)]
        /\ pc' = "dir" /\ todo' = todo \ {m} /\ UNCHANGED <<filename, files, job, temps>>
    BY <1>1, <1>2, <1>3, <1>4 DEF dirCopy, inside
  <1> QED BY <1>1, <1>2, <1>3, <1>4, <1>5, <1>6, CalmArriving DEF DirSteps

LEMMA CalmDirectorySteps ==
  ASSUME DocumentInv, CalmInv, ~Faults, mode = "open",
         dirSkip \/ dirRemove \/ dirRename \/ dirCopy, UNCHANGED <<history, mode>>
  PROVE  CalmInv'
  BY CalmSkipping, CalmRemoving, CalmRenaming, CalmCopying

-----------------------------------------------------------------------------
(* The end of a save, and of the window.                                     *)

\* Files that are new or read again can be read where the archive is.
LEMMA ReadAnew ==
  ASSUME DocumentInv', NEW p \in Paths, NEW a, NEW d \in Doc, Stored(a, d),
         disk'[p] = a, filename' = p, stream' = IF p \in DirPaths THEN None ELSE a,
         \A n \in Known' : n \in DOMAIN a /\ ~files'[n].written /\ files'[n].entry = (p \notin DirPaths),
         \A f \in Fields : d[f] # Empty => d[f].name \in Known',
         hist' = <<d>>, savedPos' = 1
  PROVE  Readables' /\ HistoryShown' /\ SavePointStored'
  <1>1. a # None
    BY DEF Stored, Holds
  <1>2. ASSUME NEW n \in Known'
        PROVE  Readable(n)' /\ ReadIn(n)' = a[n]
    <2>1. ~Written(n)' /\ Holds(disk'[filename'], n)
      BY <1>1, <1>2 DEF Written, Holds
    <2>2. Readable(n)'
      <3>1. CASE p \in DirPaths
        BY <1>2, <2>1, <3>1 DEF Readable, InDir
      <3>2. CASE p \notin DirPaths
        BY <1>2, <2>1, <3>2 DEF Readable, InZip
      <3> QED BY <3>1, <3>2
    <2>3. ReadIn(n)' = a[n]
      BY <2>1 DEF ReadIn
    <2> QED BY <2>2, <2>3
  <1>3. Readables'
    BY <1>2 DEF Readables
  <1>4. Shown(d)'
    <2> SUFFICES ASSUME NEW f \in Fields, d[f] # Empty
                 PROVE  /\ d[f].name \in Names /\ Readable(d[f].name)'
                        /\ ReadIn(d[f].name)' = ImageFile(d[f].image)
      BY DEF Shown
    <2>1. d[f].name \in Names /\ a[d[f].name] = ImageFile(d[f].image) /\ d[f].name \in Known'
      BY DEF Stored
    <2> QED BY <1>2, <2>1
  <1>5. DOMAIN hist' = {1} /\ hist'[1] = d
    OBVIOUS
  <1>6. HistoryShown'
    <2>1. ASSUME NEW i \in DOMAIN hist'
          PROVE  Shown(hist[i])'
      <3>1. hist'[i] = d
        BY <1>5
      <3> QED BY <1>4, <3>1
    <2> QED BY <2>1 DEF HistoryShown
  <1>7. SavePointStored'
    <2>1. filename' # NoPath
      BY PathsAssumption
    <2> QED BY <1>5, <2>1 DEF SavePointStored
  <1> QED BY <1>3, <1>6, <1>7

LEMMA CalmSaved ==
  ASSUME DocumentInv, DocumentInv', CalmInv, ~UndoAcrossSave, saveDone
  PROVE  CalmInv'
  <1>1. PICK a : a = disk[job.to]
    OBVIOUS
  <1>2. PICK d : d = doc
    OBVIOUS
  <1>3. /\ mode = "open" /\ pc' = "idle" /\ filename' = job.to
        /\ mode' \in {"open", "closed"}
        /\ hist' = <<d>> /\ pos' = 1 /\ savedPos' = 1
        /\ UNCHANGED <<disk, tmp, job>> /\ ~job.copy
    BY <1>2 DEF saveDone, finishSave, NewFilename, outside
  <1>4. d \in Doc /\ job.to \in Paths
    BY <1>2, DocIsDocument DEF DocumentInv, ProgressType
  <1>5. \/ pc = "clean" /\ job.to \notin DirPaths
        \/ pc = "dir" /\ todo = {} /\ job.to \in DirPaths
    BY DEF saveDone, finishSave, AfterSave, DocumentInv, ProgressType, ZipSteps, DirSteps
  <1>6. Stored(a, d) /\ \A n \in Kept : n \in DOMAIN a
    <2>1. CASE pc = "clean"
      BY <1>1, <1>2, <2>1 DEF CalmInv, ArchiveStored
    <2>2. CASE pc = "dir" /\ todo = {}
      <3>1. /\ Data \in Kept /\ Refers(doc) \subseteq Kept
            /\ \A n \in Kept : Holds(disk[job.to], n)
            /\ disk[job.to][Data] = DocFile(doc)
            /\ \A f \in Fields : doc[f] = Empty \/
                 (doc[f].name \in Names /\ disk[job.to][doc[f].name] = ImageFile(doc[f].image))
        BY <2>2 DEF CalmInv, DirectoryStored, DirSteps, Arriving
      <3>2. \A f \in Fields : d[f] # Empty => d[f].name \in Kept
        BY <1>2, <1>4, <3>1, NamesApart, RefersToNames
      <3> QED BY <1>1, <1>2, <3>1, <3>2 DEF Stored, Holds
    <2> QED BY <1>5, <2>1, <2>2
  <1>7. \A f \in Fields : d[f] # Empty => d[f].name \in Kept
    <2>1. CASE pc = "clean"
      BY <1>1, <1>6, <2>1 DEF CalmInv, ArchiveStored, Stored, Holds
    <2>2. CASE pc = "dir"
      <3>1. Refers(d) \subseteq Kept
        BY <1>2, <2>2 DEF CalmInv, DirectoryStored, DirSteps
      <3> QED BY <1>4, <1>6, <3>1, NamesApart, RefersToNames DEF Stored
    <2> QED BY <1>5, <2>1, <2>2
  <1>8. /\ stream' = IF job.to \in DirPaths THEN None ELSE a
        /\ Kept \subseteq Known'
        /\ \A n \in Known' : /\ n \in DOMAIN a /\ ~files'[n].written
                             /\ files'[n].entry = (job.to \notin DirPaths)
    <2>1. CASE job.to \in DirPaths
      <3>1. files' = [n \in Kept |-> NewFile] /\ stream' = None
        BY <2>1 DEF saveDone, finishSave, Cleaned
      <3>2. Known' = Kept /\ \A n \in Kept : files'[n] = NewFile
        BY <3>1 DEF Known
      <3>3. \A n \in Kept : ~files'[n].written /\ files'[n].entry = FALSE
        BY <3>2 DEF NewFile
      <3> QED BY <1>6, <2>1, <3>1, <3>2, <3>3
    <2>2. CASE job.to \notin DirPaths
      <3> DEFINE b(n) == n \in DOMAIN a
      <3>1. /\ files' = [n \in Kept \cup DOMAIN a |-> [NewFile EXCEPT !.entry = b(n)]]
            /\ stream' = a
        BY <1>1, <2>2 DEF saveDone, finishSave, Reopened
      <3>2. Known' = Kept \cup DOMAIN a
        BY <3>1 DEF Known
      <3>3. ASSUME NEW n \in Known'
            PROVE  /\ n \in DOMAIN a /\ ~files'[n].written /\ files'[n].entry = TRUE
        <4>1. b(n) = TRUE
          BY <1>6, <3>2
        <4> HIDE DEF b
        <4>2. files'[n] = [NewFile EXCEPT !.entry = TRUE]
          BY <3>1, <3>2, <4>1
        <4>3. ~files'[n].written /\ files'[n].entry = TRUE
          BY <4>2, NewRecords
        <4> QED BY <4>1, <4>3 DEF b
      <3> QED BY <2>2, <3>1, <3>2, <3>3
    <2> QED BY <2>1, <2>2
  <1>9. Readables' /\ HistoryShown' /\ SavePointStored'
    BY <1>1, <1>3, <1>4, <1>6, <1>7, <1>8, ReadAnew
  <1>10. DisksStored'
    <2> SUFFICES ASSUME NEW p \in Paths, Holds(disk[p], Data)
                 PROVE  \E c \in Doc : Stored(disk[p], c)
      BY <1>3 DEF DisksStored
    <2>1. CASE p = job.to
      BY <1>1, <1>4, <1>6, <2>1
    <2>2. CASE p # job.to
      BY <2>2 DEF CalmInv, DisksStored
    <2> QED BY <2>1, <2>2
  <1>11. CopyApart' /\ ArchiveStored' /\ DirectoryStored' /\ ClosedAtSavePoint'
    BY <1>3 DEF CopyApart, ArchiveStored, DirectoryStored, ClosedAtSavePoint, DirSteps
  <1> QED BY <1>9, <1>10, <1>11 DEF CalmInv

LEMMA CalmReopening ==
  ASSUME DocumentInv, DocumentInv', CalmInv, NEW p \in Paths, reopenSet(p)
  PROVE  CalmInv'
  <1>1. PICK a : a = disk[p]
    OBVIOUS
  <1>2. /\ mode # "open" /\ mode' = "open" /\ Holds(a, Data) /\ filename' = p
        /\ hist' = <<a[Data].doc>> /\ savedPos' = 1
        /\ UNCHANGED <<disk, pc, job>>
        /\ files' = [n \in DOMAIN a |-> [NewFile EXCEPT !.entry = p \notin DirPaths]]
        /\ stream' = IF p \in DirPaths THEN None ELSE a
    BY <1>1 DEF reopenSet, open, outside
  <1>3. pc = "idle" /\ pc' = "idle"
    BY <1>2 DEF DocumentInv, ProgressType
  <1>4. PICK d \in Doc : Stored(a, d)
    BY <1>1, <1>2, <1>3 DEF CalmInv, DisksStored, DirSteps
  <1>5. hist' = <<d>>
    <2>1. a[Data].doc = DocFile(d).doc
      BY <1>4 DEF Stored
    <2> QED BY <1>2, <2>1 DEF DocFile
  <1>6. Known' = DOMAIN a
    BY <1>2 DEF Known
  <1>7. ASSUME NEW n \in Known'
        PROVE  n \in DOMAIN a /\ ~files'[n].written /\ files'[n].entry = (p \notin DirPaths)
    <2>1. PICK b \in BOOLEAN : b = (p \notin DirPaths)
      OBVIOUS
    <2>2. files'[n] = [NewFile EXCEPT !.entry = b]
      BY <1>2, <1>6, <2>1
    <2> QED BY <1>6, <2>1, <2>2, NewRecords
  <1>8. \A f \in Fields : d[f] # Empty => d[f].name \in Known'
    BY <1>4, <1>6 DEF Stored, Holds
  <1>9. Readables' /\ HistoryShown' /\ SavePointStored'
    BY <1>1, <1>2, <1>4, <1>5, <1>7, <1>8, ReadAnew
  <1>10. ClosedAtSavePoint'
    BY <1>2 DEF ClosedAtSavePoint
  <1> QED BY <1>2, <1>3, <1>9, <1>10, DisksStay DEF CalmInv

LEMMA CalmClosing ==
  ASSUME ~Faults, DocumentInv, CalmInv, close
  PROVE  CalmInv'
  <1>1. mode = "open" /\ pc = "idle" /\ UNCHANGED history
    BY DEF close, Idle
  <1>2. CASE UNCHANGED package /\ mode' = "closed" /\ (savedPos = pos \/ discarded' = TRUE)
    <2>1. UNCHANGED <<filename, files, stream, temps, disk, pc, job, hist, pos, savedPos>>
      BY <1>1, <1>2 DEF package, inside, outside, progress, history
    <2>2. Known' = Known
      BY <2>1 DEF Known
    <2>3. Readables' /\ HistoryShown' /\ SavePointStored'
      BY <1>1, <2>1, <2>2, MemoryStays DEF InMemory
    <2>4. ClosedAtSavePoint'
      BY <1>2, <2>1 DEF ClosedAtSavePoint
    <2> QED BY <1>1, <2>1, <2>3, <2>4, DisksStay DEF CalmInv
  <1>3. ASSUME NEW p \in Targets, startSave(p, FALSE, doc), UNCHANGED mode
        PROVE  CalmInv'
    <2>1. p \in Paths /\ (filename \in Paths => p = filename)
      BY PathsAssumption DEF Targets, DocumentInv, MemoryType
    <2> QED BY <1>1, <1>3, <2>1, CalmStarting
  <1> QED BY <1>2, <1>3 DEF close, MayCloseAtOnce, AtSavePoint

-----------------------------------------------------------------------------
(* Every behaviour.                                                          *)

LEMMA CalmNext ==
  ASSUME CalmUse, DocumentInv, DocumentInv', CalmInv, [Next]_vars
  PROVE  CalmInv'
  <1> USE DEF CalmUse
  <1>1. ASSUME NEW f \in Fields, assign(f) \/ clear(f)
        PROVE  CalmInv'
    BY <1>1, CalmAssigning, CalmClearing
  <1>2. ASSUME NEW i \in DOMAIN hist, move(i)
        PROVE  CalmInv'
    BY <1>2, CalmMoving
  <1>3. ASSUME NEW p \in Paths, NEW copy \in BOOLEAN, save(p, copy)
        PROVE  CalmInv'
    <2>1. /\ mode = "open" /\ startSave(p, copy, doc) /\ UNCHANGED <<history, mode>>
          /\ copy => p # filename
          /\ filename \in Paths \ DirPaths => p \notin DirPaths
      BY <1>3 DEF save, Idle, window
    <2> QED BY <2>1, CalmStarting
  <1>4. CASE saveStep
    <2>1. mode = "open" /\ SaveStep /\ UNCHANGED <<history, mode>>
      BY <1>4 DEF saveStep
    <2> QED BY <2>1, CalmWritingZip, ZipDoesNotFail, CalmZipSteps, CalmDirectorySteps,
               CalmFinishingCopy, ReopenDoesNotFail DEF SaveStep
  <1>5. CASE saveDone
    BY <1>5, CalmSaved
  <1>6. CASE close
    BY <1>6, CalmClosing
  <1>7. ~crash
    BY DEF crash
  <1>8. ASSUME NEW p \in Paths, reopenSet(p)
        PROVE  CalmInv'
    BY <1>8, CalmReopening
  <1>9. CASE UNCHANGED vars
    <2>1. UNCHANGED <<filename, files, stream, temps, disk, tmp, pc, job, todo,
                      hist, pos, savedPos, mode, discarded>>
      BY <1>9 DEF vars, package, inside, outside, progress, history, window
    <2>2. Readables' /\ HistoryShown' /\ SavePointStored'
      <3>1. Known' = Known
        BY <2>1 DEF Known
      <3>2. CASE InMemory
        BY <2>1, <3>1, <3>2, MemoryStays
      <3>3. CASE ~InMemory
        BY <2>1, <3>3 DEF Readables, HistoryShown, SavePointStored, InMemory
      <3> QED BY <3>2, <3>3
    <2>3. DisksStored' /\ CopyApart' /\ ArchiveStored' /\ ClosedAtSavePoint'
      BY <2>1 DEF CalmInv, DisksStored, CopyApart, ArchiveStored, ClosedAtSavePoint, Kept, Known, doc
    <2>4. DirectoryStored'
      BY <2>1 DEF CalmInv, DirectoryStored, Arriving, Readable, ReadIn, Written, InDir, InZip,
                  Holds, Refers, Kept, Known, doc, Next1
    <2> QED BY <2>2, <2>3, <2>4 DEF CalmInv
  <1> QED BY <1>1, <1>2, <1>3, <1>4, <1>5, <1>6, <1>7, <1>8, <1>9 DEF Next

LEMMA CalmAlways ==
  ASSUME CalmUse
  PROVE  Spec => [](DocumentInv /\ CalmInv)
  <1>1. DocumentInv /\ CalmInv /\ [Next]_vars => (DocumentInv /\ CalmInv)'
    BY DocumentNext, CalmNext
  <1> QED BY <1>1, DocumentInit, CalmInit, PTL DEF Spec

\* Each field keeps showing the image the user put there, whatever is edited,
\* undone, saved, saved elsewhere, exported, closed and opened again
\* (package.cpp:130-145, 214-230, 263-282).
THEOREM ImagesIntactWhenCalm ==
  ASSUME CalmUse
  PROVE  Spec => []ImagesIntact
  <1>1. DocumentInv /\ CalmInv => ImagesIntact
    BY InvariantImplies
  <1> QED BY <1>1, CalmAlways, PTL

\* A window that says there is nothing to save is right: the file has the
\* document, with every image as the user put it (window.cpp:440, 457).
THEOREM CleanMeansSavedWhenCalm ==
  ASSUME CalmUse
  PROVE  Spec => []CleanMeansSaved
  <1>1. DocumentInv /\ CalmInv => CleanMeansSaved
    BY InvariantImplies
  <1> QED BY <1>1, CalmAlways, PTL

\* A window that closed without being told to drop its changes has left them
\* on disk (window.cpp:387-470).
THEOREM ClosedMeansSavedWhenCalm ==
  ASSUME CalmUse
  PROVE  Spec => []ClosedMeansSaved
  <1>1. DocumentInv /\ CalmInv => ClosedMeansSaved
    BY InvariantImplies
  <1> QED BY <1>1, CalmAlways, PTL
=============================================================================
