------------------------------ MODULE Package ------------------------------
(***************************************************************************)
(* A package, a zip file or a directory full of files, and how it is saved *)
(* (src/src/util/io/package.cpp): changes go to temporary files, and a save*)
(* brings them to the disk in steps between which the program may crash.   *)
(*                                                                         *)
(* The files inside are numbered in the order of their names: images, and  *)
(* after them Data, the file with the document itself.  The document refers*)
(* to some of the images; the others are dropped by a save.  An archive is *)
(* a function from the files it holds to their contents.                   *)
(*                                                                         *)
(* Faults switches what the operating system may do: not open a file for   *)
(* writing, not let one be read, not rename one, which the code notices    *)
(* where it looks, and not write or copy all of one, which it never does.  *)
(*                                                                         *)
(* A definition right before another whose name it extends is a mistake    *)
(* the code does not make, used by no action.                              *)
(***************************************************************************)
EXTENDS Naturals, FiniteSetsExt, Functions

CONSTANTS Fields,           \* the image fields of the document
          Paths, DirPaths,  \* places on disk, those that are directories
          NoPath,           \* the filename of a package never saved
          None,             \* no file, no archive, an unfinished document
          MaxName,          \* bound: names newFileName tries
          MaxImage,         \* bound: images the user chooses
          Faults

ASSUME PathsAssumption == DirPaths \subseteq Paths /\ NoPath \notin Paths
ASSUME FieldsAssumption == Fields \subseteq Nat
ASSUME BoundsAssumption == MaxName \in Nat \ {0} /\ MaxImage \in Nat
ASSUME FaultsAssumption == Faults \in BOOLEAN

VARIABLES filename, files,  \* of the package
          stream,           \* the archive zipStream reads
          temps,            \* the temporary files of the program
          disk, tmp, bak,   \* at a path, and at it with .tmp and .bak
          pc, job, todo     \* the save in progress: its step, what it was
                            \* asked for, the files a directory still waits for

\* job.cut is history, read by no action: a write of this save has failed, of
\* the data file or into the new archive.

inside == <<filename, files, stream, temps>>
outside == <<disk, tmp, bak>>
progress == <<pc, job, todo>>

Data == MaxName + 1
Names == 1..MaxName
NoName == 0
FileNames == Names \cup {Data}

\* The value of an image field is a name; image is what the user put there.
Value == [name : Names \cup {NoName}, image : 0..MaxImage]
Doc == [Fields -> Value]
Empty == [name |-> NoName, image |-> 0]
Refers(d) == {d[f].name : f \in Fields} \ {NoName}

NewFile == [keep |-> FALSE, written |-> FALSE, entry |-> FALSE]
Known == DOMAIN files

ImageFile(i) == [image |-> i]
DocFile(d) == [doc |-> d]
Holds(a, n) == a # None /\ n \in DOMAIN a

\* What can be in a file.  None is no document, no archive and none of these.
Contents(n) == IF n = Data THEN {DocFile(d) : d \in Doc \cup {None}}
                           ELSE {ImageFile(i) : i \in 0..MaxImage}
AllContents == UNION {Contents(n) : n \in FileNames}

ASSUME NoneAssumption == /\ None \notin Doc \cup AllContents
                         /\ \A S \in SUBSET FileNames : None \notin [S -> AllContents]

\* a is a complete archive of document d, as far as reading d needs
Complete(a, d) == Holds(a, Data) /\ a[Data] = DocFile(d) /\ \A n \in Refers(d) : Holds(a, n)

-----------------------------------------------------------------------------
\* openIn: the temporary file, a file in the directory, or an entry of the
\* zip file, which is opened by its name each time.
InDir(n) == filename \in DirPaths /\ Holds(disk[filename], n)
InZip(n) == /\ filename \in Paths \ DirPaths /\ n \in Known /\ files[n].entry
            /\ Holds(disk[filename], n)
Written(n) == n \in Known /\ files[n].written
Readable(n) == n \in Known /\ IF Written(n) THEN temps[n] # None ELSE InDir(n) \/ InZip(n)
ReadIn(n) == IF Written(n) THEN temps[n] ELSE disk[filename][n]

\* What a failing write leaves of a file: a document that cannot be read, the
\* image 0 that nobody chose.
Broken(n) == IF n = Data THEN DocFile(None) ELSE ImageFile(0)

\* newFileName, nameOut and the writing of the file, whose result is ignored
UnusedName == CHOOSE n \in Names : n \notin Known /\ \A m \in Names \ Known : n <= m

WithFile(n) == IF n \in Known THEN files ELSE [m \in Known \cup {n} |-> IF m = n THEN NewFile ELSE files[m]]
WriteOut(n, c) ==
  /\ files' = [WithFile(n) EXCEPT ![n].written = TRUE]
  /\ \/ temps' = [temps EXCEPT ![n] = c]
     \/ Faults /\ temps' = [temps EXCEPT ![n] = Broken(n)]

-----------------------------------------------------------------------------
\* Packaged::save, saveAs and saveCopy: write the data file, which references
\* the images field after field.  A name that is not in the package is an
\* InternalError; what was referenced before it stays marked.
Before(d) == {f \in Fields : \A g \in Fields : g <= f =>
                 d[g].name \in Known \cup {NoName}}
Referable(d) == Before(d) = Fields

ReferencesForgotten(d) == {}
References(d) == {d[f].name : f \in Before(d)}

Keeping(s, keep) == [n \in DOMAIN s |-> [s[n] EXCEPT !.keep = @ \/ n \in keep]]

startSave(to, copy, d) ==
  /\ pc = "idle"
  /\ to \in DirPaths => ~copy
  /\ LET s == [WithFile(Data) EXCEPT ![Data].written = TRUE]
     IN files' = Keeping(s, References(d) \cup (IF Referable(d) THEN {Data} ELSE {}))
  /\ IF Referable(d)
     THEN /\ \E cut \in BOOLEAN :
               /\ cut => Faults
               /\ temps' = [temps EXCEPT ![Data] = IF cut THEN Broken(Data) ELSE DocFile(d)]
               /\ job' = [to |-> to, copy |-> copy, cut |-> cut]
          /\ pc' = IF to \in DirPaths THEN "dir" ELSE "zip"
          /\ todo' = IF to \in DirPaths THEN DOMAIN files' ELSE {}
     ELSE temps' = [temps EXCEPT ![Data] = Broken(Data)] /\ UNCHANGED progress
  /\ UNCHANGED <<filename, stream, outside>>

-----------------------------------------------------------------------------
\* saveToZipfile.  Kept files go to the new archive, old ones through the old
\* archive's entries, which are used up; an Error on the way deletes the .tmp.
Kept == {n \in Known : files[n].keep}
FromEntryEvenCopy(n) == files[n].entry /\ ~files[n].written
FromEntry(n) == ~job.copy /\ files[n].entry /\ ~files[n].written

CopyFrom(n) == IF FromEntry(n) THEN stream[n] ELSE ReadIn(n)
UseEntries(S) == [n \in Known |-> [files[n] EXCEPT !.entry = @ /\ ~(n \in S /\ FromEntry(n))]]

fail == pc' = "idle" /\ UNCHANGED <<job, todo>>

zipTo(a) ==
  /\ pc = "zip"
  /\ \A n \in Kept : FromEntry(n) \/ Readable(n)
  /\ tmp' = [tmp EXCEPT ![job.to] = a]
  /\ files' = UseEntries(Kept)
  /\ stream' = IF job.copy THEN stream ELSE None
  /\ pc' = "backup"
  /\ UNCHANGED <<filename, temps, disk, bak, todo>>

writeZip == zipTo([n \in Kept |-> CopyFrom(n)]) /\ UNCHANGED job

\* The results of CopyEntry, of Write and of closing the archive are ignored:
\* with some files missing or cut short, if not all, the save goes on.
writeZipCut ==
  /\ Faults
  /\ \E there \in SUBSET Kept : \E whole \in (SUBSET there) \ {Kept} :
       zipTo([n \in there |-> IF n \in whole THEN CopyFrom(n) ELSE Broken(n)])
  /\ job' = [job EXCEPT !.cut = TRUE]

\* The file that cannot be read, or the new archive that cannot be opened (0).
writeZipFails ==
  /\ pc = "zip"
  /\ \E b \in Kept \cup {0} :
       /\ b = 0 => Faults
       /\ b # 0 => ~FromEntry(b) /\ (Faults \/ ~Readable(b))
       /\ files' = UseEntries({n \in Kept : n < b})
  /\ tmp' = [tmp EXCEPT ![job.to] = None]
  /\ fail
  /\ UNCHANGED <<filename, stream, temps, disk, bak>>

\* The results of wxRemoveFile and wxRenameFile are ignored.
NeedsBackupAlways == TRUE
NeedsBackup == disk[job.to] # None

removeBackup ==
  /\ pc = "backup"
  /\ IF NeedsBackup
     THEN pc' = "rename" /\ bak' = [bak EXCEPT ![job.to] = None]
     ELSE pc' = "commit" /\ UNCHANGED bak
  /\ UNCHANGED <<inside, disk, tmp, job, todo>>

makeBackup ==
  /\ pc = "rename"
  /\ pc' = "commit"
  /\ \/ /\ disk' = [disk EXCEPT ![job.to] = None]
        /\ bak' = [bak EXCEPT ![job.to] = disk[job.to]]
     \/ Faults /\ UNCHANGED <<disk, bak>>
  /\ UNCHANGED <<inside, tmp, job, todo>>

\* "in effect commiting the changes"
commit ==
  /\ pc = "commit"
  /\ pc' = "clean"
  /\ \/ /\ disk' = [disk EXCEPT ![job.to] = tmp[job.to]]
        /\ tmp' = [tmp EXCEPT ![job.to] = None]
     \/ Faults /\ UNCHANGED <<disk, tmp>>
  /\ UNCHANGED <<inside, bak, job, todo>>

-----------------------------------------------------------------------------
\* saveToDirectory, one file after the other.  Files that are not kept stay:
\* VCS::removeFile removes the name without its directory.
Without(a, n) == [m \in DOMAIN a \ {n} |-> a[m]]
With(a, n, c) == [m \in DOMAIN a \cup {n} |-> IF m = n THEN c ELSE a[m]]
Next1 == Min(todo)

dirSkip ==
  /\ pc = "dir" /\ todo # {}
  /\ ~files[Next1].keep \/ (~files[Next1].written /\ filename = job.to)
  /\ todo' = todo \ {Next1}
  /\ UNCHANGED <<inside, outside, pc, job>>

dirRemove ==
  /\ pc = "dir" /\ todo # {}
  /\ files[Next1].keep /\ files[Next1].written
  /\ disk' = [disk EXCEPT ![job.to] = Without(@, Next1)]
  /\ pc' = "dir rename"
  /\ UNCHANGED <<inside, tmp, bak, job, todo>>

dirRename ==
  /\ pc = "dir rename"
  /\ \/ /\ temps[Next1] # None
        /\ disk' = [disk EXCEPT ![job.to] = With(@, Next1, temps[Next1])]
        /\ temps' = [temps EXCEPT ![Next1] = None]
        /\ pc' = "dir" /\ todo' = todo \ {Next1}
        /\ UNCHANGED job
     \/ /\ Faults \/ temps[Next1] = None
        /\ fail
        /\ UNCHANGED <<disk, temps>>
  /\ UNCHANGED <<filename, files, stream, tmp, bak>>

\* save as: files that were not written are copied from the old directory
dirCopy ==
  /\ pc = "dir" /\ todo # {}
  /\ files[Next1].keep /\ ~files[Next1].written /\ filename # job.to
  /\ \/ /\ InDir(Next1)
        /\ disk' = [disk EXCEPT ![job.to] = With(@, Next1, disk[filename][Next1])]
        /\ todo' = todo \ {Next1}
        /\ UNCHANGED <<pc, job>>
     \/ /\ Faults \/ ~InDir(Next1)
        /\ fail
        /\ UNCHANGED disk
  /\ UNCHANGED <<inside, tmp, bak>>

-----------------------------------------------------------------------------
\* removeTempFiles and reopen: records of files that were not kept go, and a
\* zip file's entries are read again.
Cleaned == [n \in Kept |-> NewFile]
Reopened(a) == [n \in Kept \cup DOMAIN a |-> [NewFile EXCEPT !.entry = n \in DOMAIN a]]

AfterSave == pc = "clean" \/ (pc = "dir" /\ todo = {})

finishCopy ==
  /\ AfterSave /\ job.copy
  /\ files' = [n \in Known |-> [files[n] EXCEPT !.keep = FALSE]]
  /\ pc' = "idle"
  /\ UNCHANGED <<filename, stream, temps, outside, job, todo>>

NewFilenameOld == filename
NewFilename == job.to

NoTemps == [n \in FileNames |-> None]

finishSave ==
  /\ AfterSave /\ ~job.copy
  /\ job.to \in DirPaths \/ disk[job.to] # None
  /\ filename' = NewFilename
  /\ temps' = NoTemps
  /\ files' = IF job.to \in DirPaths THEN Cleaned ELSE Reopened(disk[job.to])
  /\ stream' = IF job.to \in DirPaths THEN None ELSE disk[job.to]
  /\ pc' = "idle"
  /\ UNCHANGED <<outside, job, todo>>

\* the archive that was to be committed is not there
finishSaveFails ==
  /\ AfterSave /\ ~job.copy
  /\ job.to \notin DirPaths /\ disk[job.to] = None
  /\ filename' = NewFilename
  /\ temps' = NoTemps
  /\ files' = Cleaned
  /\ stream' = None
  /\ fail
  /\ UNCHANGED outside

SaveStep == \/ writeZip \/ writeZipCut \/ writeZipFails \/ removeBackup \/ makeBackup \/ commit
            \/ dirSkip \/ dirRemove \/ dirRename \/ dirCopy
            \/ finishCopy \/ finishSaveFails

-----------------------------------------------------------------------------
\* open, of a package that is complete enough to be read
open(p) ==
  /\ Holds(disk[p], Data) /\ disk[p][Data] # DocFile(None)
  /\ filename' = p
  /\ files' = [n \in DOMAIN disk[p] |-> [NewFile EXCEPT !.entry = p \notin DirPaths]]
  /\ stream' = IF p \in DirPaths THEN None ELSE disk[p]
  /\ temps' = NoTemps
  /\ UNCHANGED outside

PackageInit ==
  /\ filename = NoPath /\ files = << >> /\ stream = None
  /\ temps = NoTemps
  /\ disk = [p \in Paths |-> IF p \in DirPaths THEN << >> ELSE None]
  /\ tmp = [p \in Paths |-> None] /\ bak = [p \in Paths |-> None]
  /\ pc = "idle" /\ todo = {}
  /\ job \in [to : Paths, copy : {FALSE}, cut : {FALSE}]
=============================================================================
