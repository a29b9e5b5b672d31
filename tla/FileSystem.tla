----------------------------- MODULE FileSystem -----------------------------
(***************************************************************************)
(* The fs functions that create, remove and look for files (vklib_fs.c),   *)
(* on Linux.  Each is a sequence of system calls; other processes change   *)
(* the tree between any two of them.  _compat_rmdir recurses: its          *)
(* activations are an explicit stack of open directories.                  *)
(*                                                                         *)
(* A path is a sequence of names from the working directory <<>>, which    *)
(* always exists.                                                          *)
(***************************************************************************)
EXTENDS Integers, Sequences, FiniteSets

CONSTANTS
  Path,       \* the paths that can exist
  Trees,      \* the trees to start from
  Link,       \* what symbolic links lead to; no link is at that path or below
  MaxOthers   \* bound: changes by other processes during one call

Kind == {"absent", "file", "dir", "link"}

Parent(p) == SubSeq(p, 1, Len(p) - 1)
Children(d) == {p \in Path : Parent(p) = d}
Below(d) == {p \in Path : Len(p) > Len(d) /\ SubSeq(p, 1, Len(d)) = d}

Subtree(p) == {p} \cup Below(p)

(* Only directories have entries. *)
WellFormed(k) ==
  \A p \in {q \in Path : Parent(q) # <<>>} :
    k[p] # "absent" => k[Parent(p)] = "dir"

ASSUME FileSystemAssumption ==
  /\ \A p \in Path : /\ p \in Seq(STRING) /\ Len(p) > 0
                      /\ (Parent(p) = <<>> \/ Parent(p) \in Path)
  /\ Link \in Path
  /\ MaxOthers \in Nat
  /\ \A k \in Trees : /\ k \in [Path -> Kind] /\ WellFormed(k)
                      /\ \A p \in Subtree(Link) : k[p] # "link"

VARIABLES
  kind,     \* the tree
  call,     \* the call that executes: [op, path, flag]
  pc,       \* its next step, "returned", "idle" between calls, "crashed"
  frames,   \* open directories of _compat_rmdir
  target,   \* the path the next system call of _compat_rmdir is about
  errno,    \* "" if the last system call of _compat_rmdir succeeded
  result,   \* "true", "false", "nil", or "none" before it returned
  before,   \* the tree when the call began
  others    \* changes by other processes during the call

vars == <<kind, call, pc, frames, target, errno, result, before, others>>

Op == {"create_dir", "remove_dir", "dir_exists", "create_file", "remove_file",
       "file_exists"}
Frame == [name : Path, dir : Path, pending : SUBSET Path]

TypeOK ==
  /\ kind \in [Path -> Kind] /\ WellFormed(kind)
  /\ call \in [op : Op, path : Path, flag : BOOLEAN]
  /\ pc \in {"idle", "opendir", "walk", "remove", "rmdir", "removed", "mkdir_stat",
             "mkdir", "dir_stat", "fopen", "fwrite", "single", "returned", "crashed"}
  /\ frames \in Seq(Frame)
  /\ target \in Path
  /\ errno \in {"", "ENOENT", "ENOTDIR", "ENOTEMPTY"}
  /\ result \in {"true", "false", "nil", "none"}
  /\ before \in [Path -> Kind]
  /\ others \in 0 .. MaxOthers

-----------------------------------------------------------------------------
(* System calls.  stat and opendir follow a link, remove and rmdir do not. *)

Follow(k, p) == IF k[p] = "link" THEN Link ELSE p
StatKind(k, p) == IF p = <<>> THEN "dir" ELSE k[Follow(k, p)]
Entries(k, d) == {p \in Children(d) : k[p] # "absent"}

(* rmdir: its error, "" if it succeeds. *)
RmdirError(k, p) ==
  CASE k[p] = "absent" -> "ENOENT"
    [] k[p] \in {"file", "link"} -> "ENOTDIR"
    [] Entries(k, p) # {} -> "ENOTEMPTY"
    [] OTHER -> ""

Deleted(k, p) == [k EXCEPT ![p] = "absent"]
AfterRmdir(k, p) == IF RmdirError(k, p) = "" THEN Deleted(k, p) ELSE k

(* remove: unlink, or rmdir of a directory. *)
Removable(k, p) == k[p] \in {"file", "link"} \/ RmdirError(k, p) = ""
AfterRemove(k, p) == IF Removable(k, p) THEN Deleted(k, p) ELSE k

(* mkdir and fopen for writing fail without a directory to put the entry in. *)
AfterMkdir(k, p) ==
  IF k[p] = "absent" /\ StatKind(k, Parent(p)) = "dir" THEN [k EXCEPT ![p] = "dir"] ELSE k
Openable(k, p) ==
  StatKind(k, Parent(Follow(k, p))) = "dir" /\ StatKind(k, p) \in {"absent", "file"}
AfterFopen(k, p) ==
  IF StatKind(k, p) = "absent" THEN [k EXCEPT ![Follow(k, p)] = "file"] ELSE k

-----------------------------------------------------------------------------
NoCall == [op |-> "file_exists", path |-> Link, flag |-> FALSE]

Init ==
  /\ kind \in Trees
  /\ call = NoCall
  /\ pc = "idle"
  /\ frames = <<>>
  /\ target = Link
  /\ errno = ""
  /\ result = "none"
  /\ before = kind
  /\ others = 0

(* Mutant: create_dir removes what is there, asked to or not. *)
AlwaysOverwrites(op, flag) ==
  CASE op = "remove_dir" -> IF flag THEN "opendir" ELSE "rmdir"
    [] op = "create_dir" -> "opendir"
    [] op = "create_file" -> "dir_stat"
    [] OTHER -> "single"
(* The first step of each function. *)
FirstStep(op, flag) ==
  CASE op = "remove_dir" -> IF flag THEN "opendir" ELSE "rmdir"
    [] op = "create_dir" -> IF flag THEN "opendir" ELSE "mkdir_stat"
    [] op = "create_file" -> "dir_stat"
    [] OTHER -> "single"

(* The script calls a function; flag is recurse or overwrite.  A path that goes
   through a link is another name of some path. *)
Call(op, p, flag) ==
  /\ pc = "idle"
  /\ flag => op \in {"create_dir", "remove_dir"}
  /\ \A q \in Path : kind[q] = "link" => p \notin Below(q)
  /\ call' = [op |-> op, path |-> p, flag |-> flag]
  /\ pc' = FirstStep(op, flag)
  /\ target' = p
  /\ errno' = ""
  /\ result' = "none"
  /\ before' = kind
  /\ others' = 0
  /\ UNCHANGED <<kind, frames>>

Return(value) ==
  /\ result' = value
  /\ pc' = "returned"

(* The script has the result. *)
Done ==
  /\ pc = "returned"
  /\ pc' = "idle"
  /\ call' = NoCall /\ target' = Link /\ errno' = "" /\ result' = "none"
  /\ before' = kind /\ others' = 0
  /\ UNCHANGED <<kind, frames>>

-----------------------------------------------------------------------------
(* _compat_rmdir *)

Top == frames[Len(frames)]
Pop == SubSeq(frames, 1, Len(frames) - 1)

(* An activation returns; only the outermost result is looked at. *)
Resume(rest) == pc' = IF rest = <<>> THEN "removed" ELSE "walk"

(* Mutant: ".." is not skipped. *)
ListedWithParent(d) == Entries(kind, d) \cup ({Parent(d)} \ {<<>>})
(* What readdir returns, without "." and "..". *)
Listed(d) == Entries(kind, d)

OpenDir ==
  /\ pc = "opendir"
  /\ IF StatKind(kind, target) = "dir"
     THEN LET d == Follow(kind, target) IN
          /\ frames' = Append(frames, [name |-> target, dir |-> d,
                                       pending |-> Listed(d)])
          /\ pc' = "walk"
          /\ UNCHANGED errno
     ELSE /\ errno' = IF StatKind(kind, target) = "absent" THEN "ENOENT" ELSE "ENOTDIR"
          /\ Resume(frames)
          /\ UNCHANGED frames
  /\ UNCHANGED <<kind, call, target, result, before, others>>

(* is_file decides between remove and recursion. *)
StepFor(e) == IF StatKind(kind, e) = "file" THEN "remove" ELSE "opendir"

(* Mutant: the directory is read from its start again. *)
Unread(e) == Top.pending
Remaining(e) == Top.pending \ {e}

(* readdir and is_file *)
ReadDir(e) ==
  /\ pc = "walk"
  /\ e \in Top.pending
  /\ frames' = [frames EXCEPT ![Len(frames)].pending = Remaining(e)]
  /\ target' = e
  /\ pc' = StepFor(e)
  /\ UNCHANGED <<kind, call, errno, result, before, others>>

(* remove, whose result is not looked at *)
RemoveEntry ==
  /\ pc = "remove"
  /\ kind' = AfterRemove(kind, target)
  /\ pc' = "walk"
  /\ UNCHANGED <<call, frames, target, errno, result, before, others>>

(* closedir and rmdir *)
RemoveDir ==
  /\ pc = "walk"
  /\ Top.pending = {}
  /\ kind' = AfterRmdir(kind, Top.name)
  /\ errno' = RmdirError(kind, Top.name)
  /\ frames' = Pop
  /\ Resume(Pop)
  /\ UNCHANGED <<call, target, result, before, others>>

(* _compat_rmdir without recursion *)
RemoveEmptyDir ==
  /\ pc = "rmdir"
  /\ kind' = AfterRmdir(kind, target)
  /\ errno' = RmdirError(kind, target)
  /\ pc' = "removed"
  /\ UNCHANGED <<call, frames, target, result, before, others>>

(* Mutant: the error of the outermost activation is not looked at. *)
IgnoreError == Return("true")
RemoveDirResult == Return(IF errno = "" THEN "true" ELSE "nil")

(* fs_remove_dir returns; fs_create_dir goes on if nothing is in its way. *)
Removed ==
  /\ pc = "removed"
  /\ IF call.op = "remove_dir" THEN RemoveDirResult
     ELSE IF errno \in {"", "ENOENT"} THEN pc' = "mkdir_stat" /\ UNCHANGED result
     ELSE Return("nil")
  /\ UNCHANGED <<kind, call, frames, target, errno, before, others>>

-----------------------------------------------------------------------------
(* _compat_mkdir, called by fs_create_dir and fs_create_file *)

NewDir == IF call.op = "create_file" THEN Parent(call.path) ELSE call.path

(* stat writes its answer to the address of the parameter st, a pointer: if
   there is an answer, behaviour is undefined. *)
MkdirStat ==
  /\ pc = "mkdir_stat"
  /\ IF StatKind(kind, NewDir) = "absent"
     THEN pc' = "mkdir" /\ UNCHANGED result
     ELSE Return("nil") \/ (pc' = "crashed" /\ UNCHANGED result)
  /\ UNCHANGED <<kind, call, frames, target, errno, before, others>>

(* mkdir, whose result is not looked at *)
Mkdir ==
  /\ pc = "mkdir"
  /\ kind' = AfterMkdir(kind, NewDir)
  /\ IF call.op = "create_file" THEN pc' = "fopen" /\ UNCHANGED result
     ELSE Return("true")
  /\ UNCHANGED <<call, frames, target, errno, before, others>>

-----------------------------------------------------------------------------
(* fs_create_file *)

DirStat ==
  /\ pc = "dir_stat"
  /\ pc' = IF StatKind(kind, NewDir) = "absent" THEN "mkdir_stat" ELSE "fopen"
  /\ UNCHANGED <<kind, call, frames, target, errno, result, before, others>>

(* fopen creates the file, or truncates it *)
Fopen ==
  /\ pc = "fopen"
  /\ IF Openable(kind, call.path)
     THEN /\ kind' = AfterFopen(kind, call.path)
          /\ pc' = "fwrite"
          /\ UNCHANGED result
     ELSE Return("nil") /\ UNCHANGED kind
  /\ UNCHANGED <<call, frames, target, errno, before, others>>

(* fwrite and fclose, whose results are not looked at *)
Fwrite ==
  /\ pc = "fwrite"
  /\ Return("true")
  /\ UNCHANGED <<kind, call, frames, target, errno, before, others>>

-----------------------------------------------------------------------------
(* The functions of one system call *)

RemoveFile ==
  /\ pc = "single" /\ call.op = "remove_file"
  /\ kind' = AfterRemove(kind, target)
  /\ Return(IF Removable(kind, target) THEN "true" ELSE "nil")
  /\ UNCHANGED <<call, frames, target, errno, before, others>>

DirExists ==
  /\ pc = "single" /\ call.op = "dir_exists"
  /\ Return(IF StatKind(kind, target) # "absent" THEN "true" ELSE "false")
  /\ UNCHANGED <<kind, call, frames, target, errno, before, others>>

FileExists ==
  /\ pc = "single" /\ call.op = "file_exists"
  /\ Return(IF StatKind(kind, target) = "file" THEN "true" ELSE "false")
  /\ UNCHANGED <<kind, call, frames, target, errno, before, others>>

-----------------------------------------------------------------------------
(* Another process creates an entry, or removes one. *)
OtherProcess(p, k) ==
  /\ pc \notin {"idle", "returned", "crashed"}
  /\ others < MaxOthers
  /\ k # kind[p]
  /\ kind[p] = "absent" \/ k = "absent"
  /\ kind' = [kind EXCEPT ![p] = k]
  /\ WellFormed(kind')
  /\ others' = others + 1
  /\ UNCHANGED <<call, pc, frames, target, errno, result, before>>

Step ==
  \/ OpenDir
  \/ \E e \in Path : ReadDir(e)
  \/ RemoveEntry
  \/ RemoveDir
  \/ RemoveEmptyDir
  \/ Removed
  \/ MkdirStat
  \/ Mkdir
  \/ DirStat
  \/ Fopen
  \/ Fwrite
  \/ RemoveFile
  \/ DirExists
  \/ FileExists
  \/ Done

Next ==
  \/ \E op \in Op, p \in Path, flag \in BOOLEAN : Call(op, p, flag)
  \/ Step
  \/ \E p \in Path, k \in {"absent", "file", "dir"} : OtherProcess(p, k)

Spec == Init /\ [][Next]_vars

(* The thread that made the call runs on. *)
FairSpec == Spec /\ WF_vars(Step)

-----------------------------------------------------------------------------
(* Properties *)

Returned(op) == pc = "returned" /\ call.op = op
Undisturbed == others = 0
HasLinks(ps) == \E p \in ps : before[p] = "link"
Changed(ps) == {p \in ps : kind[p] # before[p]}

(* The results of the inner activations of _compat_rmdir are ignored, yet a
   failure is not hidden: when remove_dir returns true, whatever exists at the
   path or below it was created there by another process meanwhile. *)
TrueMeansGone ==
  Returned("remove_dir") /\ result = "true" =>
    Cardinality({p \in Subtree(call.path) : kind[p] # "absent"}) <= others

(* Without interference remove_dir returns true for a directory, whatever it
   contains, or only for an empty one if it must not recurse. *)
RemovesDirectory ==
  Returned("remove_dir") /\ Undisturbed /\ before[call.path] = "dir"
    /\ ~HasLinks(Below(call.path))
    /\ (call.flag \/ Entries(before, call.path) = {})
  => result = "true"

RemoveDirTellsTheTruth == TrueMeansGone /\ RemovesDirectory

(* A call changes nothing outside the path it is about, except that create_file
   may create its directory.  Stated for trees without links: is_file and opendir
   follow them, so that remove_dir can leave its path through one. *)
StaysInside ==
  ~HasLinks(Path) =>
    Cardinality(Changed(Path \ (Subtree(call.path) \cup
      (IF call.op = "create_file" THEN {NewDir} ELSE {})))) <= others

(* create_dir without overwrite, and create_file, never remove an entry. *)
CreationKeeps ==
  call.op \in {"create_dir", "create_file"} /\ ~call.flag =>
    Cardinality({p \in Path : before[p] # "absent" /\ kind[p] = "absent"}) <= others

(* A call changes only what it is asked to change, whatever other processes do
   between its system calls. *)
OnlyAsAsked == StaysInside /\ CreationKeeps

(* Every call returns, or runs into undefined behaviour, however deep the tree
   and although other processes change it. *)
CallsEnd == pc # "idle" ~> pc \in {"idle", "crashed"}

=============================================================================
