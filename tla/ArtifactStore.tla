---------------------------- MODULE ArtifactStore ----------------------------
(***************************************************************************)
(* The content-addressed store of artifact bytes                           *)
(* (adapters/artifacts/local.rs), the rows that refer to it (stage8.rs)    *)
(* and the checks of both at startup.                                      *)
(*                                                                         *)
(* A capture writes a partial file, syncs it, renames it to the name of    *)
(* its digest without replacing, and syncs the directory; if the name is   *)
(* taken, it verifies what is there and removes its own file.  Captures of *)
(* several tools run at once; a process may be killed and the power may    *)
(* fail between any two system calls, and any system call may fail.        *)
(*                                                                         *)
(* The file system is external: what power loss may undo is what POSIX     *)
(* lets it undo.  An entry of a directory is safe once that directory is   *)
(* synced, the bytes of a file once the file is.  A digest is the content  *)
(* itself, and the shard of a content is given by the byte it repeats.     *)
(***************************************************************************)
EXTENDS Naturals, Sequences, FiniteSets, SequencesExt

CONSTANTS
    Captures,   \* artifact ids
    Byte,       \* the byte a capture's stream repeats
    Limit,      \* BeginArtifactCapture::hard_capture_limit
    Chunks,     \* lengths of the chunks of a stream
    MaxBytes,   \* bound on the length of a stream
    MinBytes,   \* 1 when no stream is empty
    MaxCrash,   \* bound on crashes
    PowerLoss,  \* whether the power may fail
    IoErrors    \* whether a system call may fail

VARIABLES
    pc,         \* where each capture is
    observed,   \* LocalArtifactCapture::observed
    file,       \* the capture's file: its place, its bytes, whether they are synced
    places,     \* where power loss may leave that file
    created,    \* ensure_private_directory made the shard
    shard,      \* "none", "volatile" or "durable", for each byte
    rows,       \* the table artifacts
    events,     \* ArtifactRecorded in the journal
    process,    \* "up", "down", or "refused": startup failed
    crashes

vars == <<pc, observed, file, places, created, shard, rows, events, process, crashes>>

storeVars == <<rows, events>>
procVars == <<process, crashes>>

Bytes == {Byte[c] : c \in Captures}
Content(c) == [byte |-> Byte[c], length |-> file[c].length]
At(c, p) == process = "up" /\ pc[c] = p
Goes(c, p) == pc' = [pc EXCEPT ![c] = p]

(* The file under the name of a digest.                                      *)
Named(k) == {c \in Captures : file[c].place = "final" /\ Content(c) = k}

(* verify_path_digest and verified_bytes: the name exists and its bytes have *)
(* the digest and the size.                                                  *)
verified(k) == \E c \in Named(k) : file[c].whole

-----------------------------------------------------------------------------
(* A capture.                                                                *)
begin_capture(c) ==
    /\ At(c, "idle") /\ Goes(c, "writing")
    /\ file' = [file EXCEPT ![c] = [place |-> "tmp", length |-> 0, synced |-> FALSE, whole |-> TRUE]]
    /\ places' = [places EXCEPT ![c] = {"none", "tmp"}]
    /\ UNCHANGED <<observed, created, shard, storeVars, procVars>>

(* What exceeds the limit is observed and not kept.                          *)
write_chunk(c) ==
    /\ At(c, "writing")
    /\ \E n \in Chunks :
          LET remaining == Limit - file[c].length IN
          /\ observed[c] + n <= MaxBytes
          /\ observed' = [observed EXCEPT ![c] = @ + n]
          /\ file' = [file EXCEPT ![c].length = @ + (IF n < remaining THEN n ELSE remaining)]
    /\ UNCHANGED <<pc, places, created, shard, storeVars, procVars>>

(* finalize: flush, sync_all and the check of the open file.                 *)
SyncFile(c) ==
    /\ At(c, "writing") /\ observed[c] >= MinBytes /\ Goes(c, "synced")
    /\ file' = [file EXCEPT ![c].synced = TRUE]
    /\ UNCHANGED <<observed, places, created, shard, storeVars, procVars>>

(* Only who made the shard syncs its parent.                                 *)
ensure_private_directory(c) ==
    /\ At(c, "synced") /\ Goes(c, "sharded")
    /\ created' = [created EXCEPT ![c] = shard[Byte[c]] = "none"]
    /\ shard' = [shard EXCEPT ![Byte[c]] = IF @ = "none" THEN "volatile" ELSE @]
    /\ UNCHANGED <<observed, file, places, storeVars, procVars>>

SyncParent(c) ==
    /\ At(c, "sharded") /\ Goes(c, "ready")
    /\ shard' = [shard EXCEPT ![Byte[c]] = IF created[c] THEN "durable" ELSE @]
    /\ UNCHANGED <<observed, file, places, created, storeVars, procVars>>

(* An atomic rename that does not replace.                                   *)
publish_no_replace(c) ==
    /\ At(c, "ready")
    /\ IF Named(Content(c)) = {}
       THEN /\ Goes(c, "renamed")
            /\ file' = [file EXCEPT ![c].place = "final"]
            /\ places' = [places EXCEPT ![c] = @ \cup {"final"}]
       ELSE Goes(c, "exists") /\ UNCHANGED <<file, places>>
    /\ UNCHANGED <<observed, created, shard, storeVars, procVars>>


SyncShard(c) ==
    /\ At(c, "renamed") /\ Goes(c, "published")
    /\ places' = [places EXCEPT ![c] = {"final"}]
    /\ UNCHANGED <<observed, file, created, shard, storeVars, procVars>>

(* The name was taken: by the same bytes, or this is a collision.            *)
RemovePartial(c) ==
    /\ At(c, "exists")
    /\ IF verified(Content(c))
       THEN /\ Goes(c, "removed")
            /\ file' = [file EXCEPT ![c].place = "none"]
            /\ places' = [places EXCEPT ![c] = @ \cup {"none"}]
       ELSE Goes(c, "dead") /\ UNCHANGED <<file, places>>
    /\ UNCHANGED <<observed, created, shard, storeVars, procVars>>

SyncTemp(c) ==
    /\ At(c, "removed") /\ Goes(c, "published")
    /\ places' = [places EXCEPT ![c] = {file[c].place}]
    /\ UNCHANGED <<observed, file, created, shard, storeVars, procVars>>

(* The last check of the published name.                                     *)
Finalized(c) ==
    /\ At(c, "published")
    /\ Goes(c, IF verified(Content(c)) THEN "finalized" ELSE "dead")
    /\ UNCHANGED <<observed, file, places, created, shard, storeVars, procVars>>

(* A system call fails: the capture is dropped, and its file stays.          *)
Fails(c) ==
    /\ IoErrors /\ process = "up" /\ pc[c] \notin {"idle", "finalized", "recorded", "dead"}
    /\ Goes(c, "dead")
    /\ UNCHANGED <<observed, file, places, created, shard, storeVars, procVars>>

-----------------------------------------------------------------------------
(* The descriptor a finalized capture returns, and what the transaction that *)
(* records it requires of it.                                                *)
from_durable_publication(c) ==
    [artifact |-> c, key |-> Content(c), captured |-> file[c].length, observed |-> observed[c],
     truncated |-> observed[c] > file[c].length]

index_validated_artifacts(a) ==
    a.captured = a.key.length /\ a.captured <= a.observed /\ a.truncated = (a.observed > a.captured)

(* One transaction inserts the row and its event; nothing is recorded of an  *)
(* artifact whose producer could not finish.                                 *)
insert_artifact_metadata(c) ==
    /\ At(c, "finalized") /\ index_validated_artifacts(from_durable_publication(c))
    /\ Goes(c, "recorded")
    /\ rows' = rows \cup {from_durable_publication(c)}
    /\ events' = events \cup {[artifact |-> c, sha256 |-> Content(c), length |-> file[c].length]}
    /\ UNCHANGED <<observed, file, places, created, shard, procVars>>

Unrecorded(c) ==
    /\ At(c, "finalized") /\ Goes(c, "dead")
    /\ UNCHANGED <<observed, file, places, created, shard, storeVars, procVars>>

-----------------------------------------------------------------------------
(* The process is killed.                                                    *)
Killed == [c \in Captures |-> IF pc[c] \in {"idle", "recorded"} THEN pc[c] ELSE "dead"]

Crash ==
    /\ process = "up" /\ crashes < MaxCrash
    /\ process' = "down" /\ crashes' = crashes + 1
    /\ pc' = Killed
    /\ UNCHANGED <<observed, file, places, created, shard, storeVars>>

(* The power fails: every entry that no sync made safe is undone or not, and *)
(* so is every shard, with what is in it; bytes that were not synced are     *)
(* anything.                                                                 *)
PowerFails ==
    /\ PowerLoss /\ process \in {"up", "down"} /\ crashes < MaxCrash
    /\ process' = "down" /\ crashes' = crashes + 1
    /\ pc' = Killed
    /\ \E kept \in SUBSET Bytes, place \in [Captures -> {"none", "tmp", "final"}],
          torn \in SUBSET Captures :
          /\ \A b \in Bytes : (shard[b] = "durable" => b \in kept) /\ (shard[b] = "none" => b \notin kept)
          /\ \A c \in Captures :
                /\ IF Byte[c] \in kept THEN place[c] \in places[c]
                   ELSE \E p \in places[c] : place[c] = IF p = "final" THEN "none" ELSE p
                /\ c \in torn => place[c] # "none" /\ ~file[c].synced
          /\ shard' = [b \in Bytes |-> IF b \in kept THEN "durable" ELSE "none"]
          /\ file' = [c \in Captures |-> [file[c] EXCEPT !.place = place[c], !.synced = TRUE,
                                                         !.whole = @ /\ c \notin torn]]
          /\ places' = [c \in Captures |-> {place[c]}]
    /\ UNCHANGED <<observed, created, storeVars>>

(* Startup: the rows and the events agree, every referenced object verifies, *)
(* and the scan finds only whole objects and partial files.                  *)
verify_artifact_rows ==
    /\ \A r \in rows : /\ r.captured <= r.observed /\ r.truncated = (r.observed > r.captured)
                       /\ [artifact |-> r.artifact, sha256 |-> r.key, length |-> r.captured] \in events
    /\ Cardinality(rows) = Cardinality(events)

load_referenced_artifacts == {r.key : r \in rows}

scan_orphans == \A c \in Captures : file[c].place = "final" => file[c].whole

Startup ==
    /\ process = "down"
    /\ process' = IF /\ verify_artifact_rows
                     /\ \A k \in load_referenced_artifacts : verified(k)
                     /\ scan_orphans
                  THEN "up" ELSE "refused"
    /\ UNCHANGED <<pc, observed, file, places, created, shard, storeVars, crashes>>

-----------------------------------------------------------------------------
NoFile == [place |-> "none", length |-> 0, synced |-> TRUE, whole |-> TRUE]

Init ==
    /\ pc = [c \in Captures |-> "idle"] /\ observed = [c \in Captures |-> 0]
    /\ file = [c \in Captures |-> NoFile] /\ places = [c \in Captures |-> {"none"}]
    /\ created = [c \in Captures |-> FALSE] /\ shard = [b \in Bytes |-> "none"]
    /\ rows = {} /\ events = {} /\ process = "up" /\ crashes = 0

Step(c) ==
    \/ begin_capture(c) \/ write_chunk(c) \/ SyncFile(c) \/ ensure_private_directory(c)
    \/ SyncParent(c) \/ publish_no_replace(c) \/ SyncShard(c) \/ RemovePartial(c) \/ SyncTemp(c)
    \/ Finalized(c) \/ Fails(c) \/ insert_artifact_metadata(c) \/ Unrecorded(c)

Next == (\E c \in Captures : Step(c)) \/ Crash \/ PowerFails \/ Startup

Spec == Init /\ [][Next]_vars

-----------------------------------------------------------------------------
(* Properties.                                                               *)

(* Startup is never refused because of what a crash left behind: every       *)
(* object a row refers to is there and intact, and the partial and           *)
(* unreferenced files are such as the scan expects.                          *)
StartupAccepts == process # "refused"

(* A recorded artifact is what its stream was: its bytes are the first Limit *)
(* of it, its counts are those of the stream, and it says that it is         *)
(* truncated exactly when bytes are missing.                                 *)
RecordedFaithfully ==
    \A r \in rows : /\ r.observed = observed[r.artifact]
                    /\ r.captured = IF r.observed < Limit THEN r.observed ELSE Limit
                    /\ r.truncated = (r.captured < r.observed)

(* The file under the name of a digest is that of the first capture of the   *)
(* content for ever: no capture replaces, removes or rewrites it.            *)
KeepsPublished ==
    \A c \in Captures : file[c].place = "final" /\ crashes' = crashes => file'[c] = file[c]
PublishedIsKept == [][KeepsPublished]_vars

(* A descriptor is handed out only for bytes that a power loss cannot take   *)
(* away: "durable-publication capability after the local adapter has synced  *)
(* and verified it".                                                         *)
FinalizedIsDurable ==
    \A c \in Captures :
        pc[c] = "finalized" =>
            /\ shard[Byte[c]] = "durable"
            /\ \E d \in Named(Content(c)) : places[d] = {"final"} /\ file[d].synced

(* A capture that succeeded left no partial file.                            *)
TypeOK ==
    /\ DOMAIN pc = Captures /\ DOMAIN file = Captures
    /\ \A c \in Captures : /\ file[c].place \in places[c]
                           /\ pc[c] = "finalized" => file[c].place # "tmp"
    /\ \A b \in Bytes : shard[b] \in {"none", "volatile", "durable"}

=============================================================================
