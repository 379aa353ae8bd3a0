-------------------------------- MODULE Files --------------------------------
(***************************************************************************)
(* The files of Barqs: Barq.determinePath, deleteFile, clearTestState and  *)
(* copyBundledBarqFiles, with platform/node/fs.ts, platform/react-native/  *)
(* fs.ts and the native helpers for Node, Android and Apple.               *)
(*                                                                         *)
(* A directory is a sequence of names.  A Barq is kept at a path, a        *)
(* directory and a name that may end with ".barq"; its files have the name *)
(* and a suffix.  Removals and copies go file by file, so that any of them *)
(* may be the last one before an error or the end of the process.  The     *)
(* flag that clearTestState asks for is set.                               *)
(***************************************************************************)
EXTENDS Naturals, Sequences, SequencesExt, FiniteSets

CONSTANTS
  Systems,        \* a subset of {"node", "android", "apple"}
  Documents,      \* the default directory of the platform
  DefaultDirectories,   \* those that the application may set
  NoPath,         \* no path in the configuration
  NoUser,         \* no sync in the configuration
  AskedFor,          \* configurations: [path, user, locally]
  Bundled,        \* paths of the Barqs that come with the application
  MaxFileCalls

ASSUME FilesAssumption ==
  /\ Systems \subseteq {"node", "android", "apple"}
  /\ Documents \in DefaultDirectories
  /\ \A directory \in DefaultDirectories : directory \in Seq(ToSet(directory))
  /\ MaxFileCalls \in Nat

VARIABLES
  system,
  defaultDirectory,
  directories,    \* that exist
  disk,           \* of each file that exists: "data", "bundle", or "cut" short
  opened,         \* of each open Barq, its path and what was asked for
  filed,          \* the last call: what it was made on and how it ended
  fileCalls

fileVars == <<system, defaultDirectory, directories, disk, opened, filed, fileCalls>>

-----------------------------------------------------------------------------
(* Paths *)

Path(directory, stem, barq) == [directory |-> directory, stem |-> stem, barq |-> barq]
File(path, suffix) == [path |-> path, suffix |-> suffix]

\* Mutated RemovedFiles: one of the lock files is forgotten.
RemovedButFresh == <<"", ".lock", ".note", ".management">>

\* In the order in which deleteFile removes them; the last is a directory.
RemovedFiles == <<"", ".lock", ".fresh.lock", ".note", ".management">>

\* What the engine makes beside the file itself, of which some only at times.
Beside == {".lock", ".fresh.lock", ".note", ".management"}

\* Before any path was set: Barq.defaultPath is made when the class is loaded.
DefaultPath == Path(Documents, "default", TRUE)

NormalizePath(path) ==
  IF path = NoPath THEN DefaultPath
  ELSE IF path.isAbsolute THEN Path(path.directory, path.stem, path.barq)
  ELSE Path(defaultDirectory, path.stem, path.barq)

\* pathForSyncConfig, which adds ".barq" where it is missing.
PathForSync(user, path) ==
  IF path # NoPath THEN Path(defaultDirectory, path.stem, TRUE)
  ELSE Path(defaultDirectory \o <<"barq-sync", user>>, "leaf", TRUE)

DeterminePath(asked) ==
  IF asked.user # NoUser /\ ~asked.locally /\ (asked.path = NoPath \/ ~asked.path.isAbsolute)
  THEN PathForSync(asked.user, asked.path)
  ELSE NormalizePath(asked.path)

-----------------------------------------------------------------------------
(* Which files are removed, and copied *)

\* The files of both, where a name is in both those of the first.
Over(first, second) ==
  [f \in DOMAIN first \cup DOMAIN second |-> IF f \in DOMAIN first THEN first[f] ELSE second[f]]

\* A file that is removed is gone, and one that is not there is no error.
Without(files) == [f \in DOMAIN disk \ files |-> disk[f]]

\* The files that removeBarqFilesFromDirectory takes: those named after a Barq.
ClearedOnNode ==
  {f \in DOMAIN disk : f.path.directory = defaultDirectory /\ f.path.barq}

\* The helpers of React Native look at the last extension only, which is never one with
\* two dots, so that they take the Barqs themselves;
ClearedOnAndroid == {f \in ClearedOnNode : f.suffix = ""}

\* Apple's enumerates the directories below, too.
ClearedOnApple ==
  {f \in DOMAIN disk : IsPrefix(defaultDirectory, f.path.directory) /\ f.path.barq /\ f.suffix = ""}

Cleared ==
  CASE system = "node" -> ClearedOnNode
    [] system = "android" -> ClearedOnAndroid
    [] system = "apple" -> ClearedOnApple

\* Where a bundled Barq is copied to.
Target(bundled) == File(Path(defaultDirectory \o bundled.directory, bundled.stem, bundled.barq), "")

\* The names that end with ".barq" at the top of the assets.
CopiedOnAndroid == {b \in Bundled : b.directory = <<>> /\ b.barq}

\* Whatever has ".barq" in its path, here all that is bundled.
CopiedOnApple == Bundled

Copied ==
  CASE system = "node" -> {}
    [] system = "android" -> CopiedOnAndroid
    [] system = "apple" -> CopiedOnApple

\* A file that exists is left as it is.
Wanted == {Target(b) : b \in Copied} \ DOMAIN disk

-----------------------------------------------------------------------------
FilesInit ==
  /\ system \in Systems
  /\ defaultDirectory = Documents
  /\ directories = {Documents}
  /\ disk = <<>>
  /\ opened = {}
  /\ filed = [op |-> "none", path |-> DefaultPath, before |-> <<>>, threw |-> FALSE]
  /\ fileCalls = 0

Did(op, path, threw) ==
  /\ fileCalls < MaxFileCalls
  /\ fileCalls' = fileCalls + 1
  /\ filed' = [op |-> op, path |-> path, before |-> disk, threw |-> threw]

SetDefaultDirectory ==
  /\ defaultDirectory' \in DefaultDirectories \ {defaultDirectory}
  /\ Did("set", DefaultPath, FALSE)
  /\ UNCHANGED <<system, directories, disk, opened>>

EnsuredDirectories(path) ==
  directories \cup {SubSeq(path.directory, 1, n) : n \in 1..Len(path.directory)}

\* The constructor makes the directory.  The engine, which is not part of this repository,
\* refuses a file that is cut short, and may make each of the other files.
OpenBarq ==
  \E asked \in AskedFor :
    LET path == DeterminePath(asked)
        refused == File(path, "") \in DOMAIN disk /\ disk[File(path, "")] = "cut"
    IN /\ Did("open", path, refused)
       /\ directories' = EnsuredDirectories(path)
       /\ IF refused THEN UNCHANGED <<disk, opened>>
          ELSE /\ opened' = opened \cup {[path |-> path, asked |-> asked]}
               /\ \E others \in {{".lock", ".management"}, Beside} :
                    disk' = Over(disk, [f \in {File(path, s) : s \in others \cup {""}} |-> "data"])
       /\ UNCHANGED <<system, defaultDirectory>>

CloseBarq ==
  \E barq \in opened :
    /\ opened' = opened \ {barq}
    /\ Did("close", barq.path, FALSE)
    /\ UNCHANGED <<system, defaultDirectory, directories, disk>>

\* Barq.deleteFile; any removal may fail, and those before it have been made.
DeleteFile ==
  \E asked \in AskedFor, removed \in 0..Len(RemovedFiles) :
    LET path == DeterminePath(asked)
        gone == {File(path, RemovedFiles[i]) : i \in 1..removed}
    IN /\ Did("delete", path, removed < Len(RemovedFiles))
       /\ disk' = Without(gone)
       /\ UNCHANGED <<system, defaultDirectory, directories, opened>>

\* Barq.clearTestState closes what is open and then removes files, in no certain order.
\* Only Apple's helper finds nothing wrong with a directory that does not exist.
ClearTestState ==
  \E gone \in SUBSET Cleared :
    /\ gone # {} => defaultDirectory \in directories
    /\ Did("clear", DefaultPath,
           gone # Cleared \/ (system # "apple" /\ defaultDirectory \notin directories))
    /\ opened' = {}
    /\ disk' = Without(gone)
    /\ UNCHANGED <<system, defaultDirectory, directories>>

\* Barq.copyBundledBarqFiles.  Apple's helper copies a whole file or throws, as it does
\* where the directory is missing; Android's looks at no error, and the process ends where
\* the directory is missing; Node's always throws.
CopyBundled ==
  \E made \in SUBSET Wanted :
    /\ \A f \in made : f.path.directory \in directories
    /\ Did("copy", DefaultPath, system = "node" \/ made # Wanted)
    /\ system = "android" => made = Wanted
    /\ disk' = Over([f \in made |-> "bundle"], disk)
    /\ UNCHANGED <<system, defaultDirectory, directories, opened>>

\* Android's helper writes in place: the last file before the end of the process is cut.
Leftover(made) == [f \in made |-> "cut"]

\* The process ends, within a copy, or at any other time.
ProcessEnds ==
  \E made \in SUBSET Wanted, cut \in SUBSET Wanted :
    /\ Cardinality(cut) <= 1 /\ cut \cap made = {}
    /\ cut # {} => system = "android"
    /\ \A f \in made \cup cut : f.path.directory \in directories
    /\ Did("end", DefaultPath, TRUE)
    /\ disk' = Over(Over(Leftover(cut), [f \in made |-> "bundle"]), disk)
    /\ opened' = {}
    /\ defaultDirectory' = Documents
    /\ UNCHANGED <<system, directories>>

FilesNext ==
  \/ SetDefaultDirectory \/ OpenBarq \/ CloseBarq \/ DeleteFile \/ ClearTestState
  \/ CopyBundled \/ ProcessEnds

FilesSpec == FilesInit /\ [][FilesNext]_fileVars

-----------------------------------------------------------------------------
(***************************************************************************)
(* Properties.                                                             *)
(***************************************************************************)

\* What a call does to the files of one Barq it does to all of them and to no others.
\* deleteFile leaves nothing that a new Barq at that path would take up, and clearTestState
\* no Barq in the default directory (and on Node nothing that belonged to one); one that
\* was stopped has touched no Barq it was not asked for; and no call changes a file that
\* was there, not even to copy a bundled one.
FilesGoTogether ==
  LET before == filed.before
      removed == DOMAIN before \ DOMAIN disk
  IN /\ \A f \in DOMAIN before \cap DOMAIN disk : disk[f] = before[f]
     /\ filed.op \notin {"delete", "clear"} => removed = {}
     /\ filed.op = "delete" =>
          /\ \A f \in removed : f.path = filed.path
          /\ ~filed.threw => \A f \in DOMAIN disk : f.path # filed.path
     /\ filed.op = "clear" =>
          /\ opened = {}
          /\ \A f \in removed : f.path.barq /\ IsPrefix(defaultDirectory, f.path.directory)
          /\ ~filed.threw =>
               \A f \in DOMAIN disk :
                 f.path.barq /\ f.path.directory = defaultDirectory => system # "node" /\ f.suffix # ""
     /\ filed.op = "copy" /\ ~filed.threw => \A b \in Copied : Target(b) \in DOMAIN disk

-----------------------------------------------------------------------------
(***************************************************************************)
(* What the documentation says and the code does not keep.                 *)
(***************************************************************************)

\* "For synced Barqs, a relative path is used together with the sync route and User.id in
\* order to avoid collisions with other apps or users": no two users have one file open that
\* they asked for in this way.
UsersKeepApart ==
  LET isRelative(asked) == asked.user # NoUser /\ (asked.path = NoPath \/ ~asked.path.isAbsolute)
  IN \A a, b \in opened :
       isRelative(a.asked) /\ isRelative(b.asked) /\ a.asked.user # b.asked.user => a.path # b.path
=============================================================================
