------------------------------ MODULE FileRead ------------------------------
(***************************************************************************)
(* One read_file call of the local workstation against a file that other   *)
(* programs keep writing (adapters/local_workstation.rs).                  *)
(*                                                                         *)
(* The adapter has two ways to read.  "direct": the server opens the file, *)
(* takes its metadata, reads chunk by chunk and takes the metadata again.  *)
(* "launcher": the server takes the metadata of the path, and a reader     *)
(* process that runs as the workstation's user (bin/craxii-workstation-    *)
(* reader.rs) opens the path, compares device and inode with what the      *)
(* server saw, and does its own before-and-after comparison.               *)
(*                                                                         *)
(* A file's data is a sequence of chunks; a chunk is the number of the     *)
(* write that produced it, so two versions that differ differ in a chunk.  *)
(***************************************************************************)
EXTENDS Integers, Sequences, FiniteSets

CONSTANTS
  Modes,          \* ways of reading to consider: subset of {"direct", "launcher"}
  HardLimit,      \* read_hard_limit, in chunks
  MaxWrites,      \* bound: changes other programs make
  MaxLen          \* bound: chunks of a file

VARIABLES
  mode,     \* whether a user-switch launcher is installed
  inodes,   \* file objects: sequence of [kind, data, mtime]; the inode number is the index
  entry,    \* inode the path names, or None
  writes,   \* changes made so far
  late,     \* the request's deadline has passed
  call,     \* the read_file call: where it is, and what it holds
  result,   \* what the call returned, or NoResult
  during    \* what the path has named since the call began

vars == <<mode, inodes, entry, writes, late, call, result, during>>

(* No such inode: what a path that names nothing names. *)
None == 0

Kinds == {"text", "binary", "directory"}

Nothing == [ino |-> None, len |-> 0, mtime |-> 0]

Idle == [at |-> "idle", max |-> 0, fd |-> None, stat |-> Nothing, first |-> Nothing, bytes |-> <<>>]

NoResult == [kind |-> "none", bytes |-> <<>>, mtime |-> 0, size |-> 0]

(* What a path that names inode ino of the table shows. *)
Version(table, ino) ==
  IF ino = None THEN [ino |-> None, data |-> <<>>, mtime |-> 0]
  ELSE [ino |-> ino, data |-> table[ino].data, mtime |-> table[ino].mtime]

Init ==
  /\ mode \in Modes
  /\ \E k \in Kinds : inodes = <<[kind |-> k, data |-> <<0, 0>>, mtime |-> 0]>>
  /\ entry = 1
  /\ writes = 0
  /\ late = FALSE
  /\ call = Idle
  /\ result = NoResult
  /\ during = {}

-----------------------------------------------------------------------------
(* Other programs.  Each step is one system call of theirs, and each write *)
(* moves the modification time: the file system's clock is finer than the  *)
(* distance between two writes.                                            *)

Change(newInodes, newEntry) ==
  /\ call.at # "done"
  /\ writes < MaxWrites
  /\ writes' = writes + 1
  /\ inodes' = newInodes
  /\ entry' = newEntry
  /\ during' = IF call.at = "idle" THEN {}
               ELSE during \cup {Version(newInodes, newEntry)}
  /\ UNCHANGED <<mode, late, call, result>>

Rewrite(ino, data) ==
  Change([inodes EXCEPT ![ino] = [@ EXCEPT !.data = data, !.mtime = writes + 1]], entry)

(* An open descriptor keeps a removed file writable, so any inode may be   *)
(* written, not only the one the path names.                               *)
Overwrite(ino, i) == /\ inodes[ino].kind # "directory"
                     /\ i \in DOMAIN inodes[ino].data
                     /\ Rewrite(ino, [inodes[ino].data EXCEPT ![i] = writes + 1])
Extend(ino) == /\ inodes[ino].kind # "directory"
                /\ Len(inodes[ino].data) < MaxLen
                /\ Rewrite(ino, Append(inodes[ino].data, writes + 1))
Truncate(ino) == /\ inodes[ino].kind # "directory"
                 /\ inodes[ino].data # <<>>
                 /\ Rewrite(ino, <<>>)
Replace == Change(Append(inodes, [kind |-> "text", data |-> <<writes + 1, writes + 1>>,
                                  mtime |-> writes + 1]), Len(inodes) + 1)
Unlink == entry # None /\ Change(inodes, None)

DeadlinePasses == /\ ~late
                  /\ call.at # "done"
                  /\ late' = TRUE
                  /\ UNCHANGED <<mode, inodes, entry, writes, call, result, during>>

-----------------------------------------------------------------------------
(* The call.                                                               *)

Quiet == UNCHANGED <<mode, inodes, entry, writes, late>>

Answer(r) == /\ result' = r
             /\ call' = [call EXCEPT !.at = "done"]
             /\ UNCHANGED during
             /\ Quiet

Error(kind) == Answer([NoResult EXCEPT !.kind = kind])

TooLarge(size) == Answer([NoResult EXCEPT !.kind = "file_too_large", !.size = size])

Continue(c) == /\ call' = c
               /\ UNCHANGED <<result, during>>
               /\ Quiet

(* read_file: the limit is checked before anything else, then the          *)
(* deadline, then a blocking thread takes the request.                     *)
ReadFile(max) ==
  /\ call.at = "idle"
  /\ IF max = 0 \/ max > HardLimit THEN Error("file_too_large")
     ELSE IF late THEN Error("timeout")
     ELSE /\ call' = [Idle EXCEPT !.at = "resolve", !.max = max]
          /\ during' = {Version(inodes, entry)}
          /\ UNCHANGED result
          /\ Quiet

(* canonicalize; a path that names nothing is not_found. *)
Resolve ==
  /\ call.at = "resolve"
  /\ IF late THEN Error("timeout")
     ELSE IF entry = None THEN Error("not_found")
     ELSE Continue([call EXCEPT !.at = IF mode = "launcher" THEN "stat" ELSE "open"])

(* MetadataSnapshot::capture: object, length and modification time. *)
MetadataSnapshot(ino) ==
  [ino |-> ino, len |-> Len(inodes[ino].data), mtime |-> inodes[ino].mtime]

(* Direct: open and take the metadata of what was opened. *)
OpenDirect ==
  /\ call.at = "open"
  /\ mode = "direct"
  /\ IF late THEN Error("timeout")
     ELSE IF entry = None THEN Error("not_found")
     ELSE IF inodes[entry].kind = "directory" THEN Error("invalid_path")
     ELSE IF Len(inodes[entry].data) > call.max THEN TooLarge(Len(inodes[entry].data))
     ELSE Continue([call EXCEPT !.at = "read", !.fd = entry,
                                !.stat = MetadataSnapshot(entry),
                                !.first = MetadataSnapshot(entry)])

(* Launcher: take the metadata of the path, then start the reader. *)
Stat ==
  /\ call.at = "stat"
  /\ IF late THEN Error("timeout")
     ELSE IF entry = None THEN Error("not_found")
     ELSE IF inodes[entry].kind = "directory" THEN Error("invalid_path")
     ELSE IF Len(inodes[entry].data) > call.max THEN TooLarge(Len(inodes[entry].data))
     ELSE Continue([call EXCEPT !.at = "launch", !.stat = MetadataSnapshot(entry)])

(* The adapter looks at the deadline when the reader is over, and only then *)
(* at its exit code.                                                        *)
ReaderError(kind) == Error(IF late THEN "timeout" ELSE kind)

(* The launcher checks who called it, gives up every privilege and becomes  *)
(* the reader, or exits with the code that means an I/O error.              *)
LaunchReader ==
  /\ call.at = "launch"
  /\ \/ Continue([call EXCEPT !.at = "open"])
     \/ ReaderError("io_error")

OpenReader ==
  /\ call.at = "open"
  /\ mode = "launcher"
  /\ IF entry = None THEN ReaderError("not_found")
     ELSE IF inodes[entry].kind = "directory" THEN ReaderError("invalid_path")
     ELSE IF entry # call.stat.ino THEN ReaderError("changed_during_read")
     ELSE IF Len(inodes[entry].data) > call.max
       THEN IF late THEN Error("timeout") ELSE TooLarge(Len(inodes[entry].data))
     ELSE Continue([call EXCEPT !.at = "read", !.fd = entry,
                                !.first = MetadataSnapshot(entry)])

(* One read.  Directly, the deadline is looked at before every chunk and a  *)
(* read past the limit ends the call; the reader reads one byte past the    *)
(* limit at most and compares at the end.                                   *)
ReadChunk ==
  LET data == inodes[call.fd].data
      next == Len(call.bytes) + 1
  IN /\ call.at = "read"
     /\ IF mode = "direct" /\ late THEN Error("timeout")
        ELSE IF next > Len(data) \/ (mode = "launcher" /\ next > call.max + 1)
          THEN Continue([call EXCEPT !.at = "compare"])
        ELSE IF mode = "direct" /\ (next > call.max \/ next > HardLimit)
          THEN Error("changed_during_read")
        ELSE Continue([call EXCEPT !.bytes = Append(@, data[next])])

Success == [NoResult EXCEPT !.kind = "success", !.bytes = call.bytes, !.mtime = call.stat.mtime]

Decode == IF inodes[call.fd].kind = "binary" THEN Error("binary_content") ELSE Answer(Success)

(* The second look at the metadata, on the descriptor that was read. *)
CompareDirect ==
  /\ call.at = "compare"
  /\ mode = "direct"
  /\ IF MetadataSnapshot(call.fd) # call.first \/ Len(call.bytes) # call.first.len
       THEN Error("changed_during_read")
     ELSE IF late THEN Error("timeout")
     ELSE Decode

(* The reader does not compare before and after. *)
CompareReaderBlind ==
  /\ call.at = "compare"
  /\ mode = "launcher"
  /\ Continue([call EXCEPT !.at = "collect"])

(* The reader compares, writes the bytes and exits ... *)
CompareReader ==
  /\ call.at = "compare"
  /\ mode = "launcher"
  /\ IF \/ Len(call.bytes) > call.max
        \/ MetadataSnapshot(call.fd) # call.first
        \/ Len(call.bytes) # call.first.len
       THEN ReaderError("changed_during_read")
       ELSE Continue([call EXCEPT !.at = "collect"])

(* ... and the adapter compares the number of bytes with its own metadata. *)
Collect ==
  /\ call.at = "collect"
  /\ IF late THEN Error("timeout")
     ELSE IF Len(call.bytes) # call.stat.len THEN Error("changed_during_read")
     ELSE Decode

(* Any system call of the server may fail for another reason.  What the     *)
(* reader's failures become is ReaderError's business.                      *)
IoFails ==
  /\ call.at \in {"resolve", "stat"} \/ (mode = "direct" /\ call.at \in {"open", "read", "compare"})
  /\ \E kind \in {"permission_denied", "io_error"} : Error(kind)

Finished == call.at = "done" /\ UNCHANGED vars

OthersNext == \/ \E ino \in DOMAIN inodes :
                   \/ \E i \in 1..MaxLen : Overwrite(ino, i)
                   \/ Extend(ino)
                   \/ Truncate(ino)
              \/ Replace
              \/ Unlink
              \/ DeadlinePasses

CallNext == \/ \E max \in 0..(HardLimit + 1) : ReadFile(max)
            \/ Resolve \/ OpenDirect \/ Stat \/ LaunchReader \/ OpenReader
            \/ ReadChunk \/ CompareDirect \/ CompareReader \/ Collect \/ IoFails

Next == OthersNext \/ CallNext \/ Finished

Spec == Init /\ [][Next]_vars

-----------------------------------------------------------------------------
CallSteps == {"idle", "resolve", "stat", "launch", "open", "read", "compare", "collect", "done"}

Inode == [kind : Kinds, data : Seq(Nat), mtime : Nat]

Metadata == [ino : Nat, len : Nat, mtime : Nat]

Calls == [at : CallSteps, max : 0..HardLimit, fd : Nat, stat : Metadata, first : Metadata,
          bytes : Seq(Nat)]

(* Types of the state. *)
TypeOK ==
  /\ mode \in Modes
  /\ inodes \in Seq(Inode)
  /\ entry \in DOMAIN inodes \cup {None}
  /\ writes \in 0..MaxWrites
  /\ late \in BOOLEAN
  /\ call \in Calls
  /\ IsFiniteSet(during)
  /\ result = NoResult <=> call.at # "done"

Shown == {v \in during : v.ino # None}

(* A read that succeeds returned the whole file as the path named it at one *)
(* moment of the call: chunks of two versions are never joined, although    *)
(* they are read one system call at a time while others write, truncate,    *)
(* replace and remove the file.                                             *)
ReadIsSnapshot ==
  result.kind = "success"
    => \E v \in Shown : v.data = result.bytes

(* The modification time returned beside the bytes is the one the file had  *)
(* when it held those bytes: the observation is of one version.             *)
ObservationExact ==
  result.kind = "success"
    => \E v \in Shown : v.data = result.bytes /\ v.mtime = result.mtime

(* A read is refused as changed_during_read only if the file was changed,   *)
(* replaced or removed after the call began: a file nobody touches is never *)
(* refused, whatever its length and the limit.                              *)
ChangedMeansChanged ==
  result.kind = "changed_during_read" => Cardinality(during) > 1

(* The size that accompanies file_too_large is a size the file had during   *)
(* the call, and it does exceed what was asked for.                         *)
TooLargeIsTrue ==
  (result.kind = "file_too_large" /\ result.size # 0)
    => /\ result.size > call.max
       /\ \E v \in Shown : Len(v.data) = result.size

(* What read_file promises of its answer. *)
ReadSafe ==
  /\ ReadIsSnapshot
  /\ ChangedMeansChanged
  /\ TooLargeIsTrue
  /\ mode = "direct" => ObservationExact

(* What the path has named since the call began includes the object whose   *)
(* metadata is m, as it was when it was taken.                              *)
Seen(m) == \E v \in Shown : v.ino = m.ino /\ Len(v.data) = m.len /\ v.mtime = m.mtime

Changed == \E v, w \in during : v # w

(* The open file is as it was opened, and what has been read is a prefix.    *)
PrefixRead ==
  LET data == inodes[call.fd].data
  IN /\ \E v \in Shown : v.data = data /\ v.mtime = call.first.mtime
     /\ Len(data) = call.first.len
     /\ Len(call.bytes) <= Len(data)
     /\ \A i \in 1..Len(call.bytes) : call.bytes[i] = data[i]
     /\ call.at = "compare" => Len(call.bytes) = Len(data)

(* The file was opened as the path named it, and is no longer than allowed;  *)
(* unless it was changed, what was read of it is a prefix.                   *)
ReadGood ==
  /\ call.fd \in DOMAIN inodes
  /\ call.first.ino = call.fd
  /\ call.first.len <= call.max
  /\ call.first.mtime <= writes
  /\ Seen(call.first)
  /\ mode = "direct" => call.stat = call.first
  /\ IF inodes[call.fd].mtime = call.first.mtime THEN PrefixRead ELSE Changed

(* The inductive form of ReadSafe.  As long as the modification time of the  *)
(* open file is the one it was opened with, its data is a version the path   *)
(* named and the chunks read are a prefix of it; once it is another, the     *)
(* path has shown two versions.                                              *)
ReadInvariant ==
  /\ TypeOK
  /\ ReadSafe
  /\ \A ino \in DOMAIN inodes : inodes[ino].mtime <= writes
  /\ call.at \notin {"idle", "done"} => Version(inodes, entry) \in during
  /\ call.at \in {"launch", "read", "compare", "collect"} \/ (call.at = "open" /\ mode = "launcher")
       => Seen(call.stat)
  /\ call.at \in {"launch", "stat", "collect"} => mode = "launcher"
  /\ call.at \in {"resolve", "stat", "launch", "open"} => call.bytes = <<>>
  /\ call.at \in {"read", "compare"} => ReadGood
  /\ call.at = "collect" => \E v \in Shown : v.data = call.bytes
=============================================================================
