------------------------- MODULE WorkstationProofs --------------------------
(***************************************************************************)
(* Two operations of the local workstation, for every value of the bounds: *)
(* what read_file answers while others write the file (FileRead), and what *)
(* a shell command runs as and where (ShellAdmission).                     *)
(***************************************************************************)
EXTENDS FileRead, ShellAdmission, FiniteSetTheorems, SequenceTheorems, TLAPS

-----------------------------------------------------------------------------
(* From prepare to the running command.                                    *)

(* A workstation that offers foreground execution has the group cleanup     *)
(* needs, and one that offers administrative execution has no launcher.     *)
LEMMA SupportMeans ==
    ASSUME NEW s, s = ObserveExecutionSupport
    PROVE  /\ s.state = "built"
           /\ s.foreground => host.platform = "macos" \/ s.cgroup
           /\ s.administrative => ~s.launcher
  BY ZenonT(60) DEF ObserveExecutionSupport

(* The invariant holds before the workstation is built.                      *)
LEMMA AdmissionStarts == AdmissionInit => AdmissionInvariant
  <1> SUFFICES ASSUME AdmissionInit PROVE AdmissionInvariant
    OBVIOUS
  <1> QED
    BY DEF AdmissionInit, AdmissionInvariant, Unbuilt, NoJob,
       NoProcess, NoPlace, Steps, Refusals

(* What the station offers does not change with the request or the           *)
(* directories, and build_command depends on nothing else.                   *)
LEMMA StationStays ==
    ASSUME UNCHANGED <<host, station>>
    PROVE  /\ ObserveExecutionSupport' = ObserveExecutionSupport
           /\ \A privilege : CapabilityAvailable(privilege)'
                               = CapabilityAvailable(privilege)
           /\ job'.privilege = job.privilege
                => BuildCommand' = BuildCommand
  BY DEF ObserveExecutionSupport, ProbeCgroupRoot,
     ProbeUserSwitchLauncher, ProbeAdmin, CapabilityAvailable,
     BuildCommand, DropToWorkstation

(* A request the capabilities let through is refused by execute for no       *)
(* capability.                                                               *)
LEMMA ValidateAccepts ==
    ASSUME AdmissionInvariant, job.at = "validate"
    PROVE  /\ ForegroundCapable
           /\ job.privilege = "administrative" => AdministrativeCapable
  <1>1. station = ObserveExecutionSupport
    BY DEF AdmissionInvariant, Unbuilt
  <1>2. CapabilityAvailable(job.privilege)
    BY DEF AdmissionInvariant
  <1> QED
    BY ZenonT(60), <1>1, <1>2, SupportMeans DEF CapabilityAvailable,
       ForegroundCapable,
       AdministrativeCapable

(* A request that is refused leaves nothing running. *)
LEMMA RefusalKept ==
    ASSUME AdmissionInvariant, Keep, job.at # "running",
           NEW kind \in Refusals, Refuse(kind)
    PROVE  AdmissionInvariant'
  <1>1. process = NoProcess
    BY DEF AdmissionInvariant
  <1> QED
    BY ZenonT(60), <1>1, StationStays DEF AdmissionInvariant, Keep,
       Refuse,
       Steps

(* Every step of the workstation, the host and the caller keeps the          *)
(* invariant.                                                                *)
LEMMA AdmissionKept ==
    ASSUME AdmissionInvariant, [AdmissionNext]_admissionVars
    PROVE  AdmissionInvariant'
  <1> USE DEF Steps, Refusals, NoPlace
  <1>1. CASE UNCHANGED admissionVars
    BY <1>1, StationStays DEF admissionVars, AdmissionInvariant
  <1>2. CASE New
    BY ZenonT(60), <1>2 DEF New, AdmissionInvariant,
       ObserveExecutionSupport,
       ProbeCgroupRoot, ProbeUserSwitchLauncher, ProbeAdmin,
       CapabilityAvailable, BuildCommand, Unbuilt
  <1>3. CASE \E p \in Places : Relink(p) \/ Recreate(p) \/ RemoveDir(p)
    <2>1. PICK p \in Places : Relink(p) \/ Recreate(p) \/ RemoveDir(p)
      BY ZenonT(60), <1>3
    <2>2. /\ UNCHANGED <<host, station, job, process>>
          /\ link' \in Places /\ dirs' \in [Places -> Nat \cup {-1}] /\ moves' \in Nat
      BY <2>1 DEF Relink, Recreate, RemoveDir,
         Moving,
         AdmissionInvariant
    <2> QED
      BY <2>2, StationStays DEF AdmissionInvariant
  <1>4. CASE \E privilege \in {"user", "administrative"} : Prepare(privilege)
    <2>1. PICK privilege \in {"user", "administrative"} : Prepare(privilege)
      BY <1>4
    <2>2. Keep /\ process' = process /\ station.state = "built" /\ job.at = "none"
      BY <2>1 DEF Prepare
    <2>3. process = NoProcess
      BY <2>2 DEF AdmissionInvariant
    <2> QED
      BY ZenonT(60), <2>1, <2>2, <2>3, StationStays
      DEF Prepare, AdmissionInvariant, Keep
  <1>5. CASE PrepareResolve
    <2>1. Keep /\ job.at \notin {"running", "none", "refused"}
      BY <1>5 DEF PrepareResolve
    <2>2. CASE \E kind \in {"not_found"} : Refuse(kind)
      BY <2>1, <2>2, RefusalKept
    <2>3. CASE job' = [job EXCEPT !.at = "open", !.resolved = link] /\ process' = process
      BY ZenonT(60), <1>5, <2>1, <2>3, StationStays
      DEF PrepareResolve, AdmissionInvariant, Keep
    <2> QED
      BY <1>5, <2>2, <2>3 DEF PrepareResolve
  <1>6. CASE PrepareOpen
    <2>1. Keep /\ job.at = "open" /\ job.resolved \in Places
      BY <1>6 DEF PrepareOpen, AdmissionInvariant
    <2>2. CASE Refuse("not_found")
      BY ZenonT(60), <2>1, <2>2, RefusalKept
    <2>3. CASE /\ dirs[job.resolved] # -1 /\ process' = process
               /\ job' = [job EXCEPT !.at = "prepared", !.prepared = dirs[job.resolved],
                                     !.committedPlace = job.resolved]
      BY ZenonT(60), <2>1, <2>3, StationStays DEF AdmissionInvariant,
         Keep
    <2> QED
      BY <1>6, <2>2, <2>3 DEF PrepareOpen
  <1>7. CASE ExecuteResolve
    <2>1. Keep /\ job.at \notin {"running", "none", "refused"}
      BY <1>7 DEF ExecuteResolve
    <2>2. CASE \E kind \in {"not_found", "invalid_path"} : Refuse(kind)
      BY ZenonT(60), <2>1, <2>2, RefusalKept
    <2>3. CASE job' = [job EXCEPT !.at = "reopen"] /\ process' = process
      BY ZenonT(60), <1>7, <2>1, <2>3, StationStays DEF ExecuteResolve,
         AdmissionInvariant, Keep
    <2> QED
      BY ZenonT(60), <1>7, <2>2, <2>3 DEF ExecuteResolve
  <1>8. CASE ExecuteOpen
    <2>1. Keep /\ job.at = "reopen"
      BY <1>8 DEF ExecuteOpen
    <2>2. CASE \E kind \in {"not_found", "invalid_path"} : Refuse(kind)
      BY ZenonT(60), <2>1, <2>2, RefusalKept
    <2>3. CASE job' = [job EXCEPT !.at = "validate", !.cwd = job.prepared] /\ process' = process
      BY ZenonT(60), <2>1, <2>3, StationStays DEF AdmissionInvariant,
         Keep
    <2> QED
      BY ZenonT(60), <1>8, <2>2, <2>3 DEF ExecuteOpen
  <1>9. CASE ValidateRequest
    BY <1>9, StationStays, ValidateAccepts
    DEF ValidateRequest, AdmissionInvariant, Keep
  <1>10. CASE Spawn
    BY ZenonT(60), <1>10, StationStays
    DEF Spawn, AdmissionInvariant, Keep, Refuse
  <1>11. CASE AdmissionOver
    BY <1>1, <1>11 DEF AdmissionOver
  <1> QED
    BY ZenonT(60), <1>1, <1>2, <1>3, <1>4, <1>5, <1>6, <1>7, <1>8, <1>9, <1>10,
       <1>11 DEF AdmissionNext

(* What the invariant says of the process that runs. *)
LEMMA AdmissionIsSafe ==
    ASSUME Platforms \subseteq {"linux", "macos"}, AdmissionInvariant
    PROVE  AdmissionSafe
  <1>1. PreparedIsRunnable
    BY DEF AdmissionInvariant, PreparedIsRunnable, Refusals
  <1>2. ASSUME process # NoProcess
        PROVE  /\ CwdIsPrepared
               /\ PrivilegeHonoured
               /\ CredentialsKeptApart
    <2>1. /\ job.at = "running" /\ station.state = "built" /\ host \in Hosts
          /\ CapabilityAvailable(job.privilege)
          /\ process = [cwd |-> job.cwd, user |-> BuildCommand.user,
                        via |-> BuildCommand.via]
      BY <1>2 DEF AdmissionInvariant
    <2>2. /\ station = ObserveExecutionSupport
          /\ host.platform = "linux" => host.credentialFree \/ station.launcher
      BY <2>1 DEF AdmissionInvariant, Unbuilt
    <2>3. CwdIsPrepared
      BY <2>1 DEF AdmissionInvariant, CwdIsPrepared
    <2>4. PrivilegeHonoured
      BY ZenonT(60), <2>1, <2>2, SupportMeans DEF PrivilegeHonoured, BuildCommand,
         DropToWorkstation, CapabilityAvailable
    <2>5. CredentialsKeptApart
      BY ZenonT(60), <2>1, <2>2, SupportMeans DEF CredentialsKeptApart,
         BuildCommand,
         DropToWorkstation, CapabilityAvailable
    <2> QED
      BY <2>3, <2>4, <2>5
  <1> QED
    BY <1>1, <1>2 DEF AdmissionSafe, CwdIsPrepared,
       PrivilegeHonoured, CredentialsKeptApart

(* However long the caller waits between prepare and execute, and whatever   *)
(* others do to the directories: a command starts in the very directory      *)
(* object that was prepared for it, with the privilege recorded, apart from  *)
(* the server's credentials, and execute refuses no capability that prepare  *)
(* let through.                                                              *)
THEOREM CommandsAdmitted ==
    ASSUME Platforms \subseteq {"linux", "macos"}
    PROVE  AdmissionSpec => []AdmissionSafe
  <1>1. AdmissionInit => AdmissionInvariant
    BY AdmissionStarts
  <1>2. AdmissionInvariant /\ [AdmissionNext]_admissionVars
          => AdmissionInvariant'
    BY AdmissionKept
  <1>3. AdmissionInvariant => AdmissionSafe
    BY AdmissionIsSafe
  <1> QED
    BY <1>1, <1>2, <1>3, PTL DEF AdmissionSpec

-----------------------------------------------------------------------------
(* A read against a file that others keep changing.                        *)

(* A finite set with two different members has more than one.                *)
LEMMA TwoOfThem ==
    ASSUME NEW S, IsFiniteSet(S), NEW v \in S, NEW w \in S, v # w
    PROVE  Cardinality(S) > 1
  <1>1. /\ IsFiniteSet({v}) /\ Cardinality({v}) = 1
        /\ Cardinality({v} \cup {w}) = 2
    <2>1. IsFiniteSet({v}) /\ Cardinality({v}) = 1
      BY ZenonT(60), FS_Singleton
    <2> QED
      BY <2>1, FS_AddElement, w \notin {v}
  <1>2. Cardinality({v} \cup {w}) <= Cardinality(S)
    BY FS_Subset, {v} \cup {w} \subseteq S
  <1>3. Cardinality(S) \in Nat
    BY FS_CardinalityType
  <1> QED
    BY <1>1, <1>2, <1>3

(* Before the answer there is nothing to promise. *)
LEMMA NoAnswerYet ==
    ASSUME result' = NoResult
    PROVE  ReadSafe'
  BY DEF ReadSafe, ReadIsSnapshot, ChangedMeansChanged, TooLargeIsTrue,
     ObservationExact, NoResult

(* An answer ends the call: what remains is what it promises. *)
LEMMA AnswerKept ==
    ASSUME ReadInvariant, NEW r, r # NoResult, Answer(r), ReadSafe'
    PROVE  ReadInvariant'
  <1>1. /\ UNCHANGED <<mode, inodes, entry, writes, late, during>>
        /\ call' = [call EXCEPT !.at = "done"] /\ result' = r
    BY DEF Answer, Quiet
  <1>2. TypeOK'
    BY ZenonT(60), <1>1 DEF ReadInvariant, TypeOK, Calls, CallSteps, NoResult
  <1>3. call'.at = "done"
    BY <1>1 DEF ReadInvariant, TypeOK, Calls
  <1> QED
    BY ZenonT(60), <1>1, <1>2, <1>3 DEF ReadInvariant

(* The errors that say nothing of the file's contents. *)
OtherErrors == {"timeout", "not_found", "invalid_path", "io_error", "permission_denied",
                "binary_content", "file_too_large"}

(* An error other than changed_during_read promises nothing. *)
LEMMA ErrorKept ==
    ASSUME ReadInvariant, NEW kind \in OtherErrors, Error(kind)
    PROVE  ReadInvariant'
  <1>1. PICK r : r = [NoResult EXCEPT !.kind = kind] /\ Answer(r)
    BY DEF Error
  <1>2. r.kind = kind /\ r.size = 0 /\ r # NoResult /\ result' = r
    BY ZenonT(60), <1>1 DEF NoResult, Answer, OtherErrors
  <1>3. ReadSafe'
    BY <1>2 DEF ReadSafe, ReadIsSnapshot, ChangedMeansChanged,
       TooLargeIsTrue, ObservationExact, OtherErrors
  <1> QED
    BY ZenonT(60), <1>1, <1>2, <1>3, AnswerKept

(* changed_during_read is answered when the path has shown two versions. *)
LEMMA ChangedKept ==
    ASSUME ReadInvariant, Changed, Error("changed_during_read")
    PROVE  ReadInvariant'
  <1>1. PICK r : r = [NoResult EXCEPT !.kind = "changed_during_read"] /\ Answer(r)
    BY DEF Error
  <1>2. r.kind = "changed_during_read" /\ r # NoResult /\ result' = r /\ during' = during
    BY ZenonT(60), <1>1 DEF NoResult, Answer
  <1>3. Cardinality(during) > 1
    BY ZenonT(60), TwoOfThem DEF Changed, ReadInvariant, TypeOK
  <1>4. ReadSafe'
    BY ZenonT(60), <1>2, <1>3 DEF ReadSafe, ReadIsSnapshot, ChangedMeansChanged,
       TooLargeIsTrue, ObservationExact
  <1> QED
    BY ZenonT(60), <1>1, <1>2, <1>4, AnswerKept

(* file_too_large is answered with the length of what the path names. *)
LEMMA TooLargeKept ==
    ASSUME ReadInvariant, call.at \notin {"idle", "done"}, entry # None,
           Len(inodes[entry].data) > call.max, TooLarge(Len(inodes[entry].data))
    PROVE  ReadInvariant'
  <1> DEFINE size == Len(inodes[entry].data)
  <1>1. PICK r : /\ r = [NoResult EXCEPT !.kind = "file_too_large", !.size = size]
                 /\ Answer(r)
    BY DEF TooLarge
  <1>2. /\ r.kind = "file_too_large" /\ r.size = size /\ r # NoResult /\ result' = r
        /\ during' = during /\ call'.max = call.max
    BY ZenonT(60), <1>1 DEF NoResult, Answer, ReadInvariant, TypeOK, Calls
  <1>3. \E v \in Shown : Len(v.data) = size
    BY DEF ReadInvariant, Version, Shown
  <1>4. ReadSafe'
    BY ZenonT(60), <1>2, <1>3 DEF ReadSafe, ReadIsSnapshot, ChangedMeansChanged,
       TooLargeIsTrue, ObservationExact, Shown
  <1> QED
    BY ZenonT(60), <1>1, <1>2, <1>4, AnswerKept

(* The bytes are answered when they are a version the path named and, read   *)
(* directly, with the time that version had.                                 *)
LEMMA SuccessKept ==
    ASSUME ReadInvariant, Decode,
           \E v \in Shown : /\ v.data = call.bytes
                            /\ mode = "direct" => v.mtime = call.stat.mtime
    PROVE  ReadInvariant'
  <1>1. CASE Error("binary_content")
    BY ZenonT(60), <1>1, ErrorKept DEF OtherErrors
  <1>2. CASE Answer(Success)
    <2>1. /\ Success.kind = "success" /\ Success.bytes = call.bytes
          /\ Success.mtime = call.stat.mtime /\ Success # NoResult
      BY ZenonT(60) DEF Success, NoResult
    <2>2. result' = Success /\ during' = during /\ mode' = mode
      BY ZenonT(60), <1>2 DEF Answer, Quiet
    <2>3. PICK v \in during : /\ v.ino # None /\ v.data = call.bytes
                              /\ mode = "direct" => v.mtime = call.stat.mtime
      BY DEF Shown
    <2>4. v \in Shown'
      BY ZenonT(60), <2>2, <2>3 DEF Shown
    <2>5. ReadIsSnapshot' /\ (mode' = "direct" => ObservationExact')
      BY ZenonT(60), <2>1, <2>2, <2>3, <2>4 DEF ReadIsSnapshot, ObservationExact
    <2>6. ChangedMeansChanged' /\ TooLargeIsTrue'
      BY ZenonT(60), <2>1, <2>2 DEF ChangedMeansChanged, TooLargeIsTrue
    <2> QED
      BY ZenonT(60), <1>2, <2>1, <2>5, <2>6, AnswerKept DEF ReadSafe
  <1> QED
    BY <1>1, <1>2 DEF Decode

(* Others change the table: an inode that changes gets a modification time   *)
(* nobody has seen, and if the path named it, the path shows a new version.  *)
LEMMA ChangeKept ==
    ASSUME MaxWrites \in Nat, ReadInvariant, NEW n \in Seq(Inode),
           NEW e \in DOMAIN n \cup {None}, Change(n, e),
           DOMAIN inodes \subseteq DOMAIN n,
           \A ino \in DOMAIN n : n[ino].mtime <= writes + 1,
           \A ino \in DOMAIN inodes :
               n[ino] = inodes[ino] \/ (n[ino].mtime = writes + 1 /\ e = entry)
    PROVE  ReadInvariant'
  <1>1. /\ call.at # "done" /\ writes' = writes + 1 /\ writes' \in 0 .. MaxWrites
        /\ inodes' = n /\ entry' = e
        /\ during' = IF call.at = "idle" THEN {} ELSE during \cup {Version(n, e)}
        /\ UNCHANGED <<mode, late, call, result>>
    BY DEF Change, ReadInvariant, TypeOK
  <1>2. IsFiniteSet(during')
    BY ZenonT(60), <1>1, FS_EmptySet, FS_AddElement DEF ReadInvariant, TypeOK
  <1>3. TypeOK'
    BY ZenonT(60), <1>1, <1>2 DEF ReadInvariant, TypeOK
  <1>4. ReadSafe'
    BY ZenonT(60), <1>1, NoAnswerYet DEF ReadInvariant, TypeOK
  <1>5. CASE call.at = "idle"
    BY ZenonT(60), <1>1, <1>3, <1>4, <1>5 DEF ReadInvariant
  <1>6. CASE call.at # "idle"
    <2>1. during \subseteq during' /\ Version(n, e) \in during' /\ Shown \subseteq Shown'
      BY ZenonT(60), <1>1, <1>6 DEF Shown
    <2>2. \A m : Seen(m) => Seen(m)'
      BY ZenonT(60), <2>1 DEF Seen
    <2>3. Version(inodes, entry) \in during
      BY ZenonT(60), <1>1, <1>6 DEF ReadInvariant
    <2>4. ASSUME ReadGood PROVE ReadGood'
      <3>1. /\ call.fd \in DOMAIN inodes /\ call.first.ino = call.fd /\ Seen(call.first)
            /\ call.first.mtime <= writes /\ call.first \in Metadata
        BY ZenonT(60), <2>4 DEF ReadGood, ReadInvariant, TypeOK, Calls
      <3>2. ASSUME n[call.fd] = inodes[call.fd]
            PROVE  IF n[call.fd].mtime = call.first.mtime THEN PrefixRead' ELSE Changed'
        BY ZenonT(60), <1>1, <2>1, <2>4, <3>2 DEF ReadGood, PrefixRead, Changed
      <3>3. ASSUME n[call.fd].mtime = writes + 1, e = entry
            PROVE  n[call.fd].mtime # call.first.mtime /\ Changed'
        <4>1. n[call.fd].mtime # call.first.mtime
          BY <3>1, <3>3 DEF ReadInvariant, TypeOK, Metadata
        <4>2. PICK v \in during : v.ino = call.fd /\ v.mtime = call.first.mtime
          BY <3>1 DEF Seen, Shown
        <4>3. CASE entry = call.fd
          <5>1. Version(n, e).mtime = n[call.fd].mtime
            BY <3>1, <3>3, <4>3, call.fd # 0 DEF Version, None, ReadInvariant,
               TypeOK
          <5> QED
            BY ZenonT(60), <2>1, <4>1, <4>2, <5>1 DEF Changed
        <4>4. CASE entry # call.fd
          <5>1. Version(inodes, entry).ino = entry
            BY ZenonT(60) DEF Version, None
          <5>2. v # Version(inodes, entry)
            BY ZenonT(60), <4>2, <4>4, <5>1
          <5>3. v \in during' /\ Version(inodes, entry) \in during'
            BY ZenonT(60), <2>1, <2>3, <4>2
          <5> QED
            BY ZenonT(60), <4>1, <5>2, <5>3 DEF Changed
        <4> QED
          BY ZenonT(60), <4>1, <4>3, <4>4
      <3>4. IF n[call.fd].mtime = call.first.mtime THEN PrefixRead' ELSE Changed'
        BY ZenonT(60), <3>1, <3>2, <3>3
      <3>5. call.first.mtime <= writes'
        BY <1>1, <3>1 DEF ReadInvariant, TypeOK, Metadata
      <3> QED
        BY ZenonT(60), <1>1, <2>2, <2>4, <3>1, <3>4, <3>5 DEF ReadGood
    <2> QED
      BY ZenonT(60), <1>1, <1>3, <1>4, <1>6, <2>1, <2>2, <2>4 DEF ReadInvariant
  <1> QED
    BY ZenonT(60), <1>5, <1>6

(* A write gives an inode with the new contents and the time of the write.   *)
LEMMA Rewritten ==
    ASSUME NEW x \in Inode, NEW data \in Seq(Nat), NEW time \in Nat
    PROVE  LET i == [x EXCEPT !.data = data, !.mtime = time]
           IN  i \in Inode /\ i.mtime = time
  BY ZenonT(60) DEF Inode

(* Every step of another program is such a change, except that time passes. *)
LEMMA OthersKept ==
    ASSUME MaxWrites \in Nat, ReadInvariant, OthersNext
    PROVE  ReadInvariant'
  <1> USE DEF None
  <1>1. /\ inodes \in Seq(Inode) /\ entry \in DOMAIN inodes \cup {None} /\ writes \in Nat
        /\ \A ino \in DOMAIN inodes : inodes[ino].mtime <= writes
        /\ \A ino \in DOMAIN inodes : inodes[ino] \in Inode
    BY DEF ReadInvariant, TypeOK
  <1>2. ASSUME NEW ino \in DOMAIN inodes, NEW data \in Seq(Nat), Rewrite(ino, data)
        PROVE  ReadInvariant'
    <2> DEFINE i == [inodes[ino] EXCEPT !.data = data, !.mtime = writes + 1]
               n == [inodes EXCEPT ![ino] = i]
    <2>1. i \in Inode /\ i.mtime = writes + 1
      <3>1. writes + 1 \in Nat
        BY <1>1
      <3> QED
        BY ZenonT(60), <1>1, <3>1, Rewritten
    <2>2. Change(n, entry)
      BY <1>2 DEF Rewrite
    <2>3. /\ n \in Seq(Inode) /\ DOMAIN n = DOMAIN inodes /\ n[ino] = i
          /\ \A k \in DOMAIN inodes : k # ino => n[k] = inodes[k]
      BY <1>1, <2>1
    <2> HIDE DEF n, i
    <2>4. \A k \in DOMAIN n : n[k].mtime <= writes + 1
      <3> TAKE k \in DOMAIN n
      <3>1. CASE k = ino
        BY <1>1, <2>1, <2>3, <3>1
      <3>2. CASE k # ino
        BY <1>1, <2>3, <3>2 DEF Inode
      <3> QED
        BY <3>1, <3>2
    <2> QED
      BY ZenonT(60), <1>1, <2>1, <2>2, <2>3, <2>4, ChangeKept
  <1>3. ASSUME NEW ino \in DOMAIN inodes, NEW k, Overwrite(ino, k)
        PROVE  ReadInvariant'
    <2>1. inodes[ino].data \in Seq(Nat)
      BY <1>1 DEF Inode
    <2>2. [inodes[ino].data EXCEPT ![k] = writes + 1] \in Seq(Nat)
      BY <1>1, <1>3, <2>1 DEF Overwrite
    <2> QED
      BY ZenonT(60), <1>2, <1>3, <2>2 DEF Overwrite
  <1>4. ASSUME NEW ino \in DOMAIN inodes, Extend(ino)
        PROVE  ReadInvariant'
    <2>1. inodes[ino].data \in Seq(Nat)
      BY <1>1 DEF Inode
    <2>2. Append(inodes[ino].data, writes + 1) \in Seq(Nat)
      BY <1>1, <2>1
    <2> QED
      BY ZenonT(60), <1>2, <1>4, <2>2 DEF Extend
  <1>5. ASSUME NEW ino \in DOMAIN inodes, Truncate(ino)
        PROVE  ReadInvariant'
    <2>1. <<>> \in Seq(Nat)
      OBVIOUS
    <2> QED
      BY ZenonT(60), <1>2, <1>5, <2>1 DEF Truncate
  <1>6. CASE Replace
    <2> DEFINE i == [kind |-> "text", data |-> <<writes + 1, writes + 1>>, mtime |-> writes + 1]
               n == Append(inodes, i)
    <2>1. i \in Inode /\ i.mtime = writes + 1
      BY <1>1 DEF Inode, Kinds
    <2> HIDE DEF i
    <2>2. /\ n \in Seq(Inode) /\ DOMAIN inodes \subseteq DOMAIN n /\ Len(inodes) + 1 \in DOMAIN n
          /\ \A k \in DOMAIN inodes : n[k] = inodes[k]
          /\ \A k \in DOMAIN n : k \in DOMAIN inodes \/ n[k] = i
      BY <1>1, <2>1
    <2>3. Change(n, Len(inodes) + 1)
      BY ZenonT(60), <1>6 DEF Replace, i
    <2> HIDE DEF n
    <2>4. \A k \in DOMAIN n : n[k].mtime <= writes + 1
      <3> TAKE k \in DOMAIN n
      <3>1. CASE k \in DOMAIN inodes
        <4>1. inodes[k].mtime \in Nat /\ inodes[k].mtime <= writes /\ n[k] = inodes[k]
          BY ZenonT(60), <1>1, <2>2, <3>1 DEF Inode
        <4> QED
          BY <1>1, <4>1
      <3>2. CASE n[k] = i
        BY <1>1, <2>1, <3>2
      <3> QED
        BY ZenonT(60), <2>2, <3>1, <3>2
    <2> QED
      BY ZenonT(60), <1>1, <2>2, <2>3, <2>4, ChangeKept
  <1>7. CASE Unlink
    <2>1. Change(inodes, None) /\ \A ino \in DOMAIN inodes : inodes[ino].mtime <= writes + 1
      <3>1. Change(inodes, None)
        BY ZenonT(60), <1>7 DEF Unlink
      <3>2. ASSUME NEW ino \in DOMAIN inodes PROVE inodes[ino].mtime <= writes + 1
        <4>1. inodes[ino].mtime \in Nat /\ inodes[ino].mtime <= writes /\ writes \in Nat
          BY ZenonT(60), <1>1 DEF Inode
        <4> QED
          BY <4>1
      <3> QED
        BY ZenonT(60), <3>1, <3>2
    <2> QED
      BY ZenonT(60), <1>1, <2>1, ChangeKept
  <1>8. CASE DeadlinePasses
    <2>1. /\ late' = TRUE /\ mode' = mode /\ inodes' = inodes /\ entry' = entry
          /\ writes' = writes /\ call' = call /\ result' = result /\ during' = during
      BY ZenonT(60), <1>8 DEF DeadlinePasses
    <2>2. TypeOK'
      BY ZenonT(60), <2>1 DEF ReadInvariant, TypeOK
    <2>3. ReadSafe'
      BY ZenonT(60), <2>1 DEF ReadInvariant, ReadSafe, ReadIsSnapshot, ChangedMeansChanged,
         TooLargeIsTrue, ObservationExact, Shown
    <2>4. \A m : Seen(m)' <=> Seen(m)
      BY ZenonT(60), <2>1 DEF Seen, Shown
    <2>5. (PrefixRead' <=> PrefixRead) /\ (Changed' <=> Changed)
      BY ZenonT(60), <2>1 DEF PrefixRead, Shown, Changed
    <2>6. ReadGood' <=> ReadGood
      BY ZenonT(60), <2>1, <2>4, <2>5 DEF ReadGood
    <2>7. Version(inodes, entry)' = Version(inodes, entry) /\ Shown' = Shown
      BY ZenonT(60), <2>1 DEF Version, Shown
    <2> QED
      BY ZenonT(60), <2>1, <2>2, <2>3, <2>4, <2>6, <2>7 DEF ReadInvariant
  <1> QED
    BY ZenonT(60), <1>3, <1>4, <1>5, <1>6, <1>7, <1>8 DEF OthersNext

(* What the path names now is among what it has named. *)
LEMMA NowSeen ==
    ASSUME ReadInvariant, call.at \notin {"idle", "done"}, entry # None
    PROVE  /\ entry \in DOMAIN inodes /\ inodes[entry] \in Inode /\ entry \in Nat
           /\ MetadataSnapshot(entry) \in Metadata
           /\ Seen(MetadataSnapshot(entry))
           /\ inodes[entry].mtime <= writes
           /\ \E v \in Shown : v.data = inodes[entry].data /\ v.mtime = inodes[entry].mtime
  <1>1. /\ inodes \in Seq(Inode) /\ entry \in DOMAIN inodes /\ inodes[entry].mtime <= writes
        /\ Version(inodes, entry) \in during
    BY DEF ReadInvariant, TypeOK
  <1>2. inodes[entry] \in Inode /\ entry \in Nat
    BY <1>1
  <1>3. MetadataSnapshot(entry) \in Metadata
    BY <1>2 DEF MetadataSnapshot, Metadata, Inode
  <1>4. /\ Version(inodes, entry) \in Shown
        /\ Version(inodes, entry).data = inodes[entry].data
        /\ Version(inodes, entry).mtime = inodes[entry].mtime
        /\ Version(inodes, entry).ino = entry
    BY <1>1 DEF Version, Shown
  <1>5. Seen(MetadataSnapshot(entry))
    BY <1>4 DEF Seen, MetadataSnapshot
  <1> QED
    BY <1>1, <1>2, <1>3, <1>4, <1>5

(* The call goes on: nothing but the call itself moves. *)
LEMMA GoesOn ==
    ASSUME ReadInvariant, call.at # "done", NEW c, Continue(c),
           c \in Calls, c.at # "done"
    PROVE  /\ TypeOK' /\ ReadSafe' /\ call' = c
           /\ UNCHANGED <<mode, inodes, entry, writes, during>>
           /\ \A m : Seen(m)' = Seen(m)
           /\ Changed' = Changed /\ Shown' = Shown
           /\ \A ino \in DOMAIN inodes : inodes[ino].mtime <= writes
           /\ call.at # "idle" => Version(inodes, entry) \in during
  <1>1. UNCHANGED <<mode, inodes, entry, writes, late, result, during>> /\ call' = c
    BY DEF Continue, Quiet
  <1>2. TypeOK'
    BY <1>1 DEF ReadInvariant, TypeOK
  <1>3. ReadSafe'
    BY <1>1, NoAnswerYet DEF ReadInvariant, TypeOK
  <1>4. /\ \A m : Seen(m)' = Seen(m)
        /\ Changed' = Changed /\ Shown' = Shown
    BY <1>1 DEF Seen, Shown, Changed
  <1> QED
    BY <1>1, <1>2, <1>3, <1>4 DEF ReadInvariant

(* read_file begins. *)
LEMMA ReadFileKept ==
    ASSUME HardLimit \in Nat, ReadInvariant, NEW max \in 0 .. (HardLimit + 1), ReadFile(max)
    PROVE  ReadInvariant'
  <1>1. call.at = "idle" /\ result = NoResult
    BY DEF ReadFile, ReadInvariant, TypeOK
  <1>2. CASE max = 0 \/ max > HardLimit
    BY <1>2, ErrorKept DEF ReadFile, OtherErrors
  <1>3. CASE ~(max = 0 \/ max > HardLimit) /\ late
    BY <1>3, ErrorKept DEF ReadFile, OtherErrors
  <1>4. CASE ~(max = 0 \/ max > HardLimit) /\ ~late
    <2>1. /\ call' = [Idle EXCEPT !.at = "resolve", !.max = max]
          /\ during' = {Version(inodes, entry)} /\ result' = result /\ Quiet
      BY <1>4 DEF ReadFile
    <2>2. Idle \in Calls /\ Idle.bytes = <<>>
      BY DEF Idle, Nothing, None, Metadata, Calls, CallSteps
    <2>3. call' \in Calls /\ call'.at = "resolve" /\ call'.bytes = <<>>
      <3>1. max \in 0 .. HardLimit
        BY <1>4
      <3> QED
        BY ZenonT(60), <2>1, <2>2, <3>1 DEF Calls, CallSteps
    <2>4. IsFiniteSet(during')
      BY ZenonT(60), <2>1, FS_Singleton
    <2>5. TypeOK'
      BY <1>1, <2>1, <2>3, <2>4 DEF ReadInvariant, TypeOK, Quiet
    <2>6. ReadSafe'
      BY <1>1, <2>1, NoAnswerYet
    <2>7. Version(inodes, entry)' \in during'
      BY ZenonT(60), <2>1 DEF Quiet, Version
    <2> QED
      BY <2>1, <2>3, <2>5, <2>6, <2>7 DEF ReadInvariant, Quiet
  <1> QED
    BY <1>2, <1>3, <1>4

(* The path is resolved. *)
LEMMA ResolveKept ==
    ASSUME ReadInvariant, Resolve
    PROVE  ReadInvariant'
  <1> DEFINE at == IF mode = "launcher" THEN "stat" ELSE "open"
             c == [call EXCEPT !.at = at]
  <1>1. call.at = "resolve" /\ call \in Calls /\ call.bytes = <<>>
    BY DEF Resolve, ReadInvariant, TypeOK
  <1>2. CASE \E kind \in {"not_found", "timeout"} : Error(kind)
    BY ZenonT(60), <1>2, ErrorKept DEF OtherErrors
  <1>3. CASE Continue(c)
    <2>1. c \in Calls /\ c.at = at /\ c.bytes = <<>> /\ at \in {"stat", "open"}
      BY <1>1 DEF Calls, CallSteps
    <2>2. (at = "stat") <=> (mode = "launcher")
      BY ZenonT(60)
    <2> HIDE DEF c, at
    <2> QED
      BY <1>1, <1>3, <2>1, <2>2, GoesOn DEF ReadInvariant
  <1> QED
    BY ZenonT(60), <1>2, <1>3 DEF Resolve

(* Where the file is opened and is as the path names it, reading can begin. *)
LEMMA OpenedKept ==
    ASSUME ReadInvariant, call.at = "open", entry # None,
           ~(Len(inodes[entry].data) > call.max),
           NEW stat \in Metadata, Seen(stat),
           mode = "direct" => stat = MetadataSnapshot(entry),
           Continue([call EXCEPT !.at = "read", !.fd = entry, !.stat = stat,
                                 !.first = MetadataSnapshot(entry)])
    PROVE  ReadInvariant'
  <1> DEFINE c == [call EXCEPT !.at = "read", !.fd = entry, !.stat = stat,
                               !.first = MetadataSnapshot(entry)]
  <1>1. /\ call \in Calls /\ call.bytes = <<>>
        /\ entry \in DOMAIN inodes /\ inodes[entry] \in Inode /\ entry \in Nat
        /\ MetadataSnapshot(entry) \in Metadata /\ Seen(MetadataSnapshot(entry))
        /\ inodes[entry].mtime <= writes
        /\ \E v \in Shown : v.data = inodes[entry].data /\ v.mtime = inodes[entry].mtime
    BY ZenonT(60), NowSeen DEF ReadInvariant, TypeOK
  <1>2. /\ c \in Calls /\ c.at = "read" /\ c.fd = entry /\ c.stat = stat /\ c.bytes = <<>>
        /\ c.first = MetadataSnapshot(entry) /\ c.max = call.max
    BY ZenonT(60), <1>1 DEF Calls, CallSteps
  <1>3. Continue(c)
    OBVIOUS
  <1> HIDE DEF c
  <1>4. /\ TypeOK' /\ ReadSafe' /\ call' = c
        /\ UNCHANGED <<mode, inodes, entry, writes, during>>
        /\ \A m : Seen(m)' = Seen(m)
        /\ Shown' = Shown
        /\ \A ino \in DOMAIN inodes : inodes[ino].mtime <= writes
        /\ Version(inodes, entry) \in during
    BY ZenonT(60), <1>2, <1>3, GoesOn
  <1>5. /\ c.first.mtime = inodes[entry].mtime /\ c.first.len = Len(inodes[entry].data)
        /\ c.first.ino = entry
    BY <1>2 DEF MetadataSnapshot
  <1>6. c.first.len <= c.max
    BY <1>1, <1>2, <1>5 DEF Inode, Calls
  <1>7. PrefixRead'
    BY <1>1, <1>2, <1>4, <1>5 DEF PrefixRead, Inode
  <1>8. ReadGood'
    BY ZenonT(60), <1>1, <1>2, <1>4, <1>5, <1>6, <1>7 DEF ReadGood
  <1> QED
    BY ZenonT(60), <1>2, <1>4, <1>8 DEF ReadInvariant

(* read_file opens the file itself.                                          *)
LEMMA OpenDirectKept ==
    ASSUME ReadInvariant, OpenDirect
    PROVE  ReadInvariant'
  <1>1. CASE \E kind \in {"not_found", "timeout", "invalid_path"} : Error(kind)
    BY ZenonT(60), <1>1, ErrorKept DEF OtherErrors
  <1>2. CASE /\ entry # None /\ Len(inodes[entry].data) > call.max
             /\ TooLarge(Len(inodes[entry].data))
    BY ZenonT(60), <1>2, TooLargeKept DEF OpenDirect
  <1>3. CASE /\ entry # None /\ ~(Len(inodes[entry].data) > call.max)
             /\ Continue([call EXCEPT !.at = "read", !.fd = entry,
                                      !.stat = MetadataSnapshot(entry),
                                      !.first = MetadataSnapshot(entry)])
    BY ZenonT(60), <1>3, NowSeen, OpenedKept DEF OpenDirect
  <1> QED
    BY ZenonT(60), <1>1, <1>2, <1>3 DEF OpenDirect

(* The first look at the metadata: kind, size and time.                      *)
LEMMA StatKept ==
    ASSUME ReadInvariant, Stat
    PROVE  ReadInvariant'
  <1> DEFINE c == [call EXCEPT !.at = "launch", !.stat = MetadataSnapshot(entry)]
  <1>1. call.at = "stat" /\ call \in Calls /\ call.bytes = <<>> /\ mode = "launcher"
    BY ZenonT(60) DEF Stat, ReadInvariant, TypeOK
  <1>2. CASE \E kind \in {"not_found", "timeout", "invalid_path"} : Error(kind)
    BY <1>2, ErrorKept DEF OtherErrors
  <1>3. CASE /\ entry # None /\ Len(inodes[entry].data) > call.max
             /\ TooLarge(Len(inodes[entry].data))
    BY ZenonT(60), <1>1, <1>3, TooLargeKept
  <1>4. CASE entry # None /\ Continue(c)
    <2>1. MetadataSnapshot(entry) \in Metadata /\ Seen(MetadataSnapshot(entry))
      BY ZenonT(60), <1>1, <1>4, NowSeen
    <2>2. /\ c \in Calls /\ c.at = "launch" /\ c.stat = MetadataSnapshot(entry)
          /\ c.bytes = <<>>
      BY ZenonT(60), <1>1, <2>1 DEF Calls, CallSteps
    <2> HIDE DEF c
    <2> QED
      BY <1>1, <1>4, <2>1, <2>2, GoesOn DEF ReadInvariant
  <1> QED
    BY ZenonT(60), <1>2, <1>3, <1>4 DEF Stat

(* An error the reader process reports.                                      *)
LEMMA ReaderErrorKept ==
    ASSUME ReadInvariant, NEW kind, ReaderError(kind),
           kind \in OtherErrors \/ (kind = "changed_during_read" /\ Changed)
    PROVE  ReadInvariant'
  BY ZenonT(60), ErrorKept, ChangedKept DEF ReaderError, OtherErrors

(* The launcher starts the reader process, or fails to.                      *)
LEMMA LaunchReaderKept ==
    ASSUME ReadInvariant, LaunchReader
    PROVE  ReadInvariant'
  <1> DEFINE c == [call EXCEPT !.at = "open"]
  <1>1. /\ call.at = "launch" /\ call \in Calls /\ call.bytes = <<>> /\ mode = "launcher"
        /\ Seen(call.stat)
    BY DEF LaunchReader, ReadInvariant, TypeOK
  <1>2. CASE ReaderError("io_error")
    BY ZenonT(60), <1>2, ReaderErrorKept DEF OtherErrors
  <1>3. CASE Continue(c)
    <2>1. c \in Calls /\ c.at = "open" /\ c.stat = call.stat /\ c.bytes = <<>>
      BY ZenonT(60), <1>1 DEF Calls, CallSteps
    <2> HIDE DEF c
    <2> QED
      BY <1>1, <1>3, <2>1, GoesOn DEF ReadInvariant
  <1> QED
    BY ZenonT(60), <1>2, <1>3 DEF LaunchReader

(* The reader opens the path and compares what it got with what the server   *)
(* saw.                                                                      *)
LEMMA OpenReaderKept ==
    ASSUME ReadInvariant, OpenReader
    PROVE  ReadInvariant'
  <1>1. call.at = "open" /\ mode = "launcher" /\ call \in Calls /\ Seen(call.stat)
    BY DEF OpenReader, ReadInvariant, TypeOK
  <1>2. CASE \E kind \in {"not_found", "invalid_path"} : ReaderError(kind)
    BY ZenonT(60), <1>2, ReaderErrorKept DEF OtherErrors
  <1>3. CASE entry # call.stat.ino /\ ReaderError("changed_during_read")
    <2>1. PICK v \in during : v.ino = call.stat.ino
      BY ZenonT(60), <1>1 DEF Seen, Shown
    <2>2. Version(inodes, entry) \in during /\ Version(inodes, entry).ino = entry
      BY ZenonT(60), <1>1 DEF ReadInvariant, Version
    <2>3. v # Version(inodes, entry)
      BY ZenonT(60), <1>3, <2>1, <2>2
    <2>4. Changed
      BY ZenonT(60), <2>1, <2>2, <2>3 DEF Changed
    <2> QED
      BY ZenonT(60), <1>3, <2>4, ReaderErrorKept
  <1>4. CASE Error("timeout")
    BY ZenonT(60), <1>4, ErrorKept DEF OtherErrors
  <1>5. CASE /\ entry # None /\ Len(inodes[entry].data) > call.max
             /\ TooLarge(Len(inodes[entry].data))
    BY ZenonT(60), <1>1, <1>5, TooLargeKept
  <1>6. CASE /\ entry # None /\ ~(Len(inodes[entry].data) > call.max)
             /\ Continue([call EXCEPT !.at = "read", !.fd = entry,
                                      !.first = MetadataSnapshot(entry)])
    <2>1. call.stat \in Metadata
      BY <1>1 DEF Calls
    <2>2. [call EXCEPT !.at = "read", !.fd = entry, !.first = MetadataSnapshot(entry)]
            = [call EXCEPT !.at = "read", !.fd = entry, !.stat = call.stat,
                           !.first = MetadataSnapshot(entry)]
      BY ZenonT(60), <1>1 DEF Calls
    <2> QED
      BY ZenonT(60), <1>1, <1>6, <2>1, <2>2, OpenedKept
  <1> QED
    BY ZenonT(60), <1>2, <1>3, <1>4, <1>5, <1>6 DEF OpenReader

(* What is known of the open file while it is read. *)
LEMMA OpenFile ==
    ASSUME ReadInvariant, call.at \in {"read", "compare"}
    PROVE  /\ ReadGood /\ call \in Calls /\ call.max \in 0 .. HardLimit
           /\ call.first.len \in Nat /\ call.bytes \in Seq(Nat) /\ Len(call.bytes) \in Nat
           /\ inodes[call.fd].data \in Seq(Nat) /\ Len(inodes[call.fd].data) \in Nat
  <1>1. ReadGood /\ call \in Calls /\ call.fd \in DOMAIN inodes /\ inodes \in Seq(Inode)
    BY DEF ReadInvariant, TypeOK, ReadGood
  <1>2. inodes[call.fd] \in Inode
    BY <1>1
  <1>3. call.first \in Metadata /\ call.bytes \in Seq(Nat) /\ call.max \in 0 .. HardLimit
    BY ZenonT(60), <1>1 DEF Calls
  <1>4. call.first.len \in Nat
    BY ZenonT(60), <1>3 DEF Metadata
  <1>5. inodes[call.fd].data \in Seq(Nat)
    BY ZenonT(60), <1>2 DEF Inode
  <1>6. Len(call.bytes) \in Nat /\ Len(inodes[call.fd].data) \in Nat
    BY ZenonT(60), <1>3, <1>5, LenProperties
  <1> QED
    BY ZenonT(60), <1>1, <1>3, <1>4, <1>5, <1>6

(* A chunk more of a prefix is a prefix.                                     *)
LEMMA ChunkAppended ==
    ASSUME NEW b \in Seq(Nat), NEW data \in Seq(Nat), Len(b) + 1 \in DOMAIN data
    PROVE  LET c == Append(b, data[Len(b) + 1])
           IN  /\ c \in Seq(Nat) /\ Len(c) = Len(b) + 1
               /\ (\A i \in 1 .. Len(b) : b[i] = data[i])
                    => \A i \in 1 .. Len(b) + 1 : c[i] = data[i]
  <1> DEFINE e == data[Len(b) + 1]
             c == Append(b, e)
  <1>1. e \in Nat /\ Len(b) \in Nat
    BY ZenonT(60), ElementOfSeq, LenProperties
  <1> HIDE DEF e
  <1>2. /\ c \in Seq(Nat) /\ Len(c) = Len(b) + 1 /\ c[Len(b) + 1] = e
        /\ \A i \in 1 .. Len(b) : c[i] = b[i]
    BY <1>1, AppendProperties
  <1> HIDE DEF c
  <1>3. \A i \in 1 .. Len(b) + 1 : i \in 1 .. Len(b) \/ i = Len(b) + 1
    BY <1>1
  <1>4. (\A i \in 1 .. Len(b) : b[i] = data[i]) => \A i \in 1 .. Len(b) + 1 : c[i] = data[i]
    BY ZenonT(60), <1>2, <1>3 DEF e
  <1> QED
    BY ZenonT(60), <1>2, <1>4 DEF c, e

(* One read of the open file, up to the limit and one byte beyond.           *)
LEMMA ReadChunkKept ==
    ASSUME HardLimit \in Nat, ReadInvariant, ReadChunk
    PROVE  ReadInvariant'
  <1> DEFINE data == inodes[call.fd].data
             next == Len(call.bytes) + 1
             same == inodes[call.fd].mtime = call.first.mtime
  <1>1. call.at = "read"
    BY DEF ReadChunk
  <1>2. /\ ReadGood /\ call \in Calls /\ call.max \in 0 .. HardLimit
        /\ call.first.len \in Nat /\ call.bytes \in Seq(Nat) /\ Len(call.bytes) \in Nat
        /\ data \in Seq(Nat) /\ Len(data) \in Nat /\ call.first.len <= call.max
        /\ Seen(call.stat)
    BY ZenonT(60), <1>1, OpenFile DEF ReadGood, ReadInvariant
  <1>3. /\ same => PrefixRead /\ Len(data) = call.first.len /\ Len(call.bytes) <= Len(data)
        /\ ~same => Changed
    BY ZenonT(60), <1>2 DEF ReadGood, PrefixRead
  <1>4. CASE Error("timeout")
    BY ZenonT(60), <1>4, ErrorKept DEF OtherErrors
  <1>5. CASE /\ next > Len(data) \/ (mode = "launcher" /\ next > call.max + 1)
             /\ Continue([call EXCEPT !.at = "compare"])
    <2> DEFINE c == [call EXCEPT !.at = "compare"]
    <2>1. /\ c \in Calls /\ c.at = "compare" /\ c.fd = call.fd /\ c.first = call.first
          /\ c.stat = call.stat /\ c.bytes = call.bytes /\ c.max = call.max
      BY ZenonT(60), <1>2 DEF Calls, CallSteps
    <2>2. Continue(c)
      BY ZenonT(60), <1>5
    <2> HIDE DEF c
    <2>3. same => Len(call.bytes) = Len(data)
      BY <1>2, <1>3, <1>5
    <2>4. /\ TypeOK' /\ ReadSafe' /\ call' = c
          /\ UNCHANGED <<mode, inodes, entry, writes, during>>
          /\ \A m : Seen(m)' = Seen(m)
          /\ Changed' = Changed /\ Shown' = Shown
          /\ \A ino \in DOMAIN inodes : inodes[ino].mtime <= writes
          /\ Version(inodes, entry) \in during
      BY ZenonT(60), <1>1, <2>1, <2>2, GoesOn
    <2>5. same => PrefixRead'
      BY ZenonT(60), <1>3, <2>1, <2>3, <2>4 DEF PrefixRead
    <2>6. ReadGood'
      BY ZenonT(60), <1>2, <1>3, <2>1, <2>4, <2>5 DEF ReadGood
    <2> QED
      BY ZenonT(60), <1>2, <2>1, <2>4, <2>6 DEF ReadInvariant
  <1>6. CASE /\ ~(next > Len(data)) /\ (next > call.max \/ next > HardLimit)
             /\ Error("changed_during_read")
    <2>1. ~same
      BY <1>2, <1>3, <1>6
    <2> QED
      BY ZenonT(60), <1>3, <1>6, <2>1, ChangedKept
  <1>7. CASE /\ ~(next > Len(data))
             /\ Continue([call EXCEPT !.bytes = Append(@, data[next])])
    <2> DEFINE b == Append(call.bytes, data[next])
               c == [call EXCEPT !.bytes = b]
    <2>1. next \in DOMAIN data
      BY <1>2, <1>7
    <2>2. /\ b \in Seq(Nat) /\ Len(b) = next
          /\ (\A i \in 1 .. Len(call.bytes) : call.bytes[i] = data[i])
               => \A i \in 1 .. next : b[i] = data[i]
      BY ZenonT(60), <1>2, <2>1, ChunkAppended
    <2> HIDE DEF b
    <2>3. /\ c \in Calls /\ c.at = "read" /\ c.fd = call.fd /\ c.first = call.first
          /\ c.stat = call.stat /\ c.bytes = b /\ c.max = call.max
      BY ZenonT(60), <1>1, <1>2, <2>2 DEF Calls
    <2>4. Continue(c)
      BY ZenonT(60), <1>2, <1>7 DEF b, Calls
    <2> HIDE DEF c
    <2>5. /\ TypeOK' /\ ReadSafe' /\ call' = c
          /\ UNCHANGED <<mode, inodes, entry, writes, during>>
          /\ \A m : Seen(m)' = Seen(m)
          /\ Changed' = Changed /\ Shown' = Shown
          /\ \A ino \in DOMAIN inodes : inodes[ino].mtime <= writes
          /\ Version(inodes, entry) \in during
      BY ZenonT(60), <1>1, <2>3, <2>4, GoesOn
    <2>6. ASSUME same PROVE \A i \in 1 .. Len(b) : b[i] = data[i]
      <3>1. \A i \in 1 .. Len(call.bytes) : call.bytes[i] = data[i]
        BY ZenonT(60), <1>3, <2>6 DEF PrefixRead
      <3> QED
        BY ZenonT(60), <2>2, <3>1
    <2>7. ASSUME same PROVE PrefixRead'
      <3>1. /\ Len(b) <= Len(data) /\ Len(data) = call.first.len
            /\ \E v \in Shown : v.data = data /\ v.mtime = call.first.mtime
        BY <1>2, <1>3, <1>7, <2>2, <2>7 DEF PrefixRead
      <3> QED
        BY ZenonT(60), <2>3, <2>5, <2>6, <2>7, <3>1 DEF PrefixRead
    <2>8. ReadGood'
      BY ZenonT(60), <1>2, <1>3, <2>3, <2>5, <2>7 DEF ReadGood
    <2> QED
      BY ZenonT(60), <1>2, <2>3, <2>5, <2>8 DEF ReadInvariant
  <1> QED
    BY ZenonT(60), <1>4, <1>5, <1>6, <1>7 DEF ReadChunk

(* The second look tells the two cases apart: the file changed and the path  *)
(* has shown two versions, or what was read is a version the path named.     *)
LEMMA SecondLook ==
    ASSUME HardLimit \in Nat, ReadInvariant, call.at = "compare"
    PROVE  /\ MetadataSnapshot(call.fd) # call.first => Changed
           /\ Len(call.bytes) # call.first.len => Changed
           /\ Len(call.bytes) > call.max => Changed
           /\ MetadataSnapshot(call.fd) = call.first
                => \E v \in Shown : /\ v.data = call.bytes
                                    /\ mode = "direct" => v.mtime = call.stat.mtime
  <1> DEFINE data == inodes[call.fd].data
             same == inodes[call.fd].mtime = call.first.mtime
  <1>1. /\ ReadGood /\ call \in Calls /\ call.max \in 0 .. HardLimit
        /\ call.first.len \in Nat /\ call.bytes \in Seq(Nat) /\ Len(call.bytes) \in Nat
        /\ data \in Seq(Nat) /\ Len(data) \in Nat
    BY ZenonT(60), OpenFile
  <1>2. call.first.ino = call.fd /\ call.first.len <= call.max /\ call.first \in Metadata
    BY ZenonT(60), <1>1 DEF ReadGood, Calls
  <1>3. same => PrefixRead /\ Len(data) = call.first.len /\ Len(call.bytes) = Len(data)
    BY ZenonT(60), <1>1 DEF ReadGood, PrefixRead
  <1>4. ~same => Changed
    BY ZenonT(60), <1>1 DEF ReadGood
  <1>5. same => MetadataSnapshot(call.fd) = call.first
    BY ZenonT(60), <1>2, <1>3 DEF MetadataSnapshot, Metadata
  <1>6. same => ~(Len(call.bytes) > call.max)
    BY <1>1, <1>2, <1>3
  <1>7. ASSUME MetadataSnapshot(call.fd) = call.first
        PROVE  \E v \in Shown : /\ v.data = call.bytes
                                /\ mode = "direct" => v.mtime = call.stat.mtime
    <2>1. same
      BY <1>7 DEF MetadataSnapshot
    <2>2. \A i \in 1 .. Len(data) : call.bytes[i] = data[i]
      BY ZenonT(60), <1>3, <2>1 DEF PrefixRead
    <2>3. call.bytes = data
      BY ZenonT(60), <1>1, <1>3, <2>1, <2>2, SeqEqual
    <2>4. PICK v \in Shown : v.data = data /\ v.mtime = call.first.mtime
      BY ZenonT(60), <1>3, <2>1 DEF PrefixRead
    <2>5. mode = "direct" => call.stat = call.first
      BY ZenonT(60), <1>1 DEF ReadGood
    <2> QED
      BY ZenonT(60), <2>3, <2>4, <2>5
  <1> QED
    BY ZenonT(60), <1>3, <1>4, <1>5, <1>6, <1>7

(* The second look at the metadata after a direct read.                      *)
LEMMA CompareDirectKept ==
    ASSUME HardLimit \in Nat, ReadInvariant, CompareDirect
    PROVE  ReadInvariant'
  <1>1. CASE MetadataSnapshot(call.fd) # call.first \/ Len(call.bytes) # call.first.len
    BY ZenonT(60), <1>1, SecondLook, ChangedKept DEF CompareDirect
  <1>2. CASE /\ ~(MetadataSnapshot(call.fd) # call.first \/ Len(call.bytes) # call.first.len)
             /\ late
    BY ZenonT(60), <1>2, ErrorKept DEF CompareDirect, OtherErrors
  <1>3. CASE /\ ~(MetadataSnapshot(call.fd) # call.first \/ Len(call.bytes) # call.first.len)
             /\ ~late
    BY ZenonT(60), <1>3, SecondLook, SuccessKept DEF CompareDirect
  <1> QED
    BY ZenonT(60), <1>1, <1>2, <1>3

(* The second look at the metadata in the reader.                            *)
LEMMA CompareReaderKept ==
    ASSUME HardLimit \in Nat, ReadInvariant, CompareReader
    PROVE  ReadInvariant'
  <1> DEFINE c == [call EXCEPT !.at = "collect"]
             differ == \/ Len(call.bytes) > call.max
                       \/ MetadataSnapshot(call.fd) # call.first
                       \/ Len(call.bytes) # call.first.len
  <1>1. /\ call.at = "compare" /\ mode = "launcher" /\ call \in Calls /\ Seen(call.stat)
    BY DEF CompareReader, ReadInvariant, TypeOK
  <1>2. CASE differ
    <2>1. ReaderError("changed_during_read")
      BY ZenonT(60), <1>2 DEF CompareReader
    <2>2. Changed
      BY ZenonT(60), <1>1, <1>2, SecondLook
    <2> QED
      BY ZenonT(60), <2>1, <2>2, ReaderErrorKept
  <1>3. CASE ~differ
    <2>1. \E v \in Shown : v.data = call.bytes
      BY ZenonT(60), <1>1, <1>3, SecondLook
    <2>2. c \in Calls /\ c.at = "collect" /\ c.stat = call.stat /\ c.bytes = call.bytes
      BY ZenonT(60), <1>1 DEF Calls, CallSteps
    <2>3. Continue(c)
      BY <1>3 DEF CompareReader
    <2> HIDE DEF c
    <2> QED
      BY <1>1, <2>1, <2>2, <2>3, GoesOn DEF ReadInvariant
  <1> QED
    BY ZenonT(60), <1>2, <1>3

(* The server takes over what the reader sent.                               *)
LEMMA CollectKept ==
    ASSUME ReadInvariant, Collect
    PROVE  ReadInvariant'
  <1>1. PICK v \in Shown : v.data = call.bytes
    BY ZenonT(60) DEF Collect, ReadInvariant
  <1>2. PICK u \in Shown : Len(u.data) = call.stat.len
    BY ZenonT(60) DEF Collect, ReadInvariant, Seen
  <1>3. mode = "launcher"
    BY ZenonT(60) DEF Collect, ReadInvariant
  <1>4. CASE late
    BY ZenonT(60), <1>4, ErrorKept DEF Collect, OtherErrors
  <1>5. CASE ~late /\ Len(call.bytes) # call.stat.len
    <2>1. v \in during /\ u \in during /\ u # v
      BY ZenonT(60), <1>1, <1>2, <1>5 DEF Shown
    <2>2. Changed
      BY ZenonT(60), <2>1 DEF Changed
    <2> QED
      BY ZenonT(60), <1>5, <2>2, ChangedKept DEF Collect
  <1>6. CASE ~late /\ Len(call.bytes) = call.stat.len
    BY ZenonT(60), <1>1, <1>3, <1>6, SuccessKept DEF Collect
  <1> QED
    BY ZenonT(60), <1>4, <1>5, <1>6

(* The invariant holds before the call.                                      *)
LEMMA ReadStarts ==
    ASSUME HardLimit \in Nat, MaxWrites \in Nat
    PROVE  Init => ReadInvariant
  <1> SUFFICES ASSUME Init PROVE ReadInvariant
    BY ZenonT(60)
  <1>1. PICK k \in Kinds : inodes = <<[kind |-> k, data |-> <<0, 0>>, mtime |-> 0]>>
    BY ZenonT(60) DEF Init
  <1> DEFINE i == [kind |-> k, data |-> <<0, 0>>, mtime |-> 0]
  <1>2. i \in Inode /\ i.mtime = 0
    BY DEF Inode
  <1> HIDE DEF i
  <1>3. inodes = <<i>>
    BY ZenonT(60), <1>1 DEF i
  <1>4. /\ inodes \in Seq(Inode) /\ DOMAIN inodes = {1}
        /\ \A ino \in DOMAIN inodes : inodes[ino].mtime <= 0
    <2>1. inodes \in Seq(Inode) /\ DOMAIN inodes = {1} /\ inodes[1] = i
      BY <1>2, <1>3
    <2> QED
      BY <1>2, <2>1
  <1>5. call \in Calls /\ call.at = "idle"
    BY DEF Init, Idle, Nothing, None, Metadata, Calls, CallSteps
  <1>6. IsFiniteSet(during)
    BY ZenonT(60), FS_EmptySet DEF Init
  <1>7. TypeOK
    <2>1. /\ mode \in Modes /\ entry \in DOMAIN inodes /\ writes \in 0 .. MaxWrites
          /\ late \in BOOLEAN /\ result = NoResult
      <3>1. mode \in Modes /\ entry = 1 /\ writes = 0 /\ late = FALSE /\ result = NoResult
        BY ZenonT(60) DEF Init
      <3>2. entry \in DOMAIN inodes
        BY ZenonT(60), <1>4, <3>1
      <3>3. writes \in 0 .. MaxWrites
        BY <3>1
      <3> QED
        BY ZenonT(60), <3>1, <3>2, <3>3
    <2> QED
      BY ZenonT(60), <1>4, <1>5, <1>6, <2>1 DEF TypeOK
  <1>8. ReadSafe
    BY DEF Init, NoResult, ReadSafe, ReadIsSnapshot, ChangedMeansChanged, TooLargeIsTrue,
       ObservationExact
  <1> QED
    BY ZenonT(60), <1>4, <1>5, <1>7, <1>8 DEF Init, ReadInvariant

(* Every step of the call and of the other programs keeps the invariant.     *)
LEMMA ReadKept ==
    ASSUME HardLimit \in Nat, MaxWrites \in Nat, ReadInvariant, [Next]_vars
    PROVE  ReadInvariant'
  <1>1. CASE UNCHANGED vars
    <2>1. UNCHANGED <<mode, inodes, entry, writes, late, call, result, during>>
      BY ZenonT(60), <1>1 DEF vars
    <2>2. Shown' = Shown /\ Changed' = Changed /\ Version(inodes, entry)' = Version(inodes, entry)
      BY ZenonT(60), <2>1 DEF Shown, Changed, Version
    <2>3. TypeOK' /\ Seen(call.stat)' = Seen(call.stat) /\ Seen(call.first)' = Seen(call.first)
      BY ZenonT(60), <2>1, <2>2 DEF ReadInvariant, TypeOK, Seen
    <2>4. ReadSafe'
      BY ZenonT(60), <2>1, <2>2 DEF ReadInvariant, ReadSafe, ReadIsSnapshot,
         ChangedMeansChanged,
         TooLargeIsTrue, ObservationExact
    <2>5. PrefixRead' = PrefixRead
      BY ZenonT(60), <2>1, <2>2 DEF PrefixRead
    <2>6. ReadGood' = ReadGood
      BY ZenonT(60), <2>1, <2>2, <2>3, <2>5 DEF ReadGood
    <2> QED
      BY ZenonT(60), <2>1, <2>2, <2>3, <2>4, <2>6 DEF ReadInvariant
  <1>2. CASE OthersNext
    BY ZenonT(60), <1>2, OthersKept
  <1>3. CASE CallNext
    <2>1. CASE IoFails
      BY ZenonT(60), <2>1, ErrorKept DEF IoFails, OtherErrors
    <2> QED
      BY ZenonT(60), <1>3, <2>1, ReadFileKept, ResolveKept, OpenDirectKept, StatKept,
         LaunchReaderKept,
         OpenReaderKept, ReadChunkKept, CompareDirectKept, CompareReaderKept, CollectKept
      DEF CallNext
  <1>4. CASE Finished
    BY ZenonT(60), <1>1, <1>4 DEF Finished
  <1> QED
    BY ZenonT(60), <1>1, <1>2, <1>3, <1>4 DEF Next

(* However long the file, whatever limit is asked for and however often      *)
(* others write, truncate, replace or remove it during the call: a read that *)
(* succeeds returns one version of the file that the path named during the   *)
(* call, read directly with its modification time; changed_during_read means *)
(* that it changed; and file_too_large gives a length it had.                *)
THEOREM ReadsAreSnapshots ==
    ASSUME HardLimit \in Nat, MaxWrites \in Nat
    PROVE  Spec => []ReadSafe
  <1>1. Init => ReadInvariant
    BY ZenonT(60), ReadStarts
  <1>2. ReadInvariant /\ [Next]_vars => ReadInvariant'
    BY ZenonT(60), ReadKept
  <1>3. ReadInvariant => ReadSafe
    BY DEF ReadInvariant
  <1> QED
    BY <1>1, <1>2, <1>3, PTL DEF Spec
=============================================================================
