---------------------------- MODULE FileTransfer ----------------------------
(***************************************************************************)
(* File transfers: _handle_file_transfer, _upload_file and _download_file  *)
(* of the paramiko driver, and netmiko's hand-over to its library.  Source *)
(* and destination change sides with the direction and are otherwise       *)
(* treated alike; a directory is the sequence of its files.  job.i is the  *)
(* file being copied; what has been copied of it is in dst.                *)
(***************************************************************************)
EXTENDS DeviceState

Req == job.req
File == Req.files[job.i]
Exists(f) == dst[f] # None

NextFile ==
  [job EXCEPT !.i = @ + 1, !.pc = IF job.i = Len(Req.files) THEN "copied" ELSE "stat"]

(* sync_mode "hash" compares the MD5 sums of the two ends. *)
SameHash(f) == Req.hash /\ Exists(f) /\ dst[f] = src[f]

(* resume takes a destination at least as long as the source for complete. *)
(* Mutant: one chunk less will do.                                         *)
AlmostAllThere(f) == Req.resume /\ Exists(f) /\ Len(dst[f]) >= Len(src[f]) - 1
AllThere(f) == Req.resume /\ Exists(f) /\ Len(dst[f]) >= Len(src[f])

SkipFile ==
  /\ job.pc = "stat" /\ (SameHash(File) \/ AllThere(File))
  /\ job' = NextFile
  /\ UNCHANGED <<dev, rem, files, jobs, faults>>

(* The destination is opened for appending, after a seek in the source, or *)
(* truncated.                                                              *)
OpenFile ==
  /\ job.pc = "stat" /\ ~SameHash(File) /\ ~AllThere(File)
  /\ LET appends == Req.resume /\ Exists(File)
     IN /\ dst' = [dst EXCEPT ![File] = IF appends THEN @ ELSE <<>>]
        /\ foreign' = IF appends THEN foreign ELSE foreign \ {File}
  /\ job' = [job EXCEPT !.pc = "copy"]
  /\ UNCHANGED <<dev, rem, src, jobs, faults>>

CopyChunk ==
  /\ job.pc = "copy" /\ Len(dst[File]) < Len(src[File])
  /\ dst' = [dst EXCEPT ![File] = Append(@, src[File][Len(@) + 1])]
  /\ UNCHANGED <<job, dev, rem, src, foreign, jobs, faults>>

CloseFile ==
  /\ job.pc = "copy" /\ Len(dst[File]) = Len(src[File])
  /\ job' = NextFile
  /\ UNCHANGED <<dev, rem, files, jobs, faults>>

(* SFTP or a command after the upload raises; what has been written stays. *)
(* Mutant: the error of one file is dropped and the next one is copied.    *)
FailedFileSkipped == NextFile
FailedTransfer == Raised

TransferRaises ==
  /\ job.pc \in {"stat", "copy", "netmiko", "exec", "rm"} /\ MayRaise
  /\ faults' = faults + 1
  /\ job' = FailedTransfer
  /\ UNCHANGED <<dev, rem, files, jobs>>

(* netmiko's file_transfer() copies and verifies, or raises. *)
NetmikoTransfer ==
  /\ job.pc = "netmiko"
  /\ dst' = [dst EXCEPT ![File] = src[File]]
  /\ foreign' = foreign \ {File}
  /\ job' = Return(<<"ok">>)
  /\ UNCHANGED <<dev, rem, src, jobs, faults>>

(* The command to execute runs after the copy, the clean-up after it,      *)
(* whatever its status was.                                                *)
Copied ==
  /\ job.pc = "copied"
  /\ job' = IF Req.op = "upload" /\ Req.exec
              THEN [job EXCEPT !.results = <<"ok">>, !.pc = "exec"]
              ELSE Return(<<"ok">>)
  /\ UNCHANGED <<dev, rem, files, jobs, faults>>

ExecAfterUpload ==
  /\ job.pc = "exec"
  /\ \E status \in {"ok", "error"} :
       LET results == Append(job.results, status)
       IN job' = IF Req.cleanup THEN [job EXCEPT !.results = results, !.pc = "rm"]
                                ELSE Return(results)
  /\ UNCHANGED <<dev, rem, files, jobs, faults>>

(* rm -f of the path as requested: nothing goes when that is a directory. *)
RemoveUploaded ==
  /\ job.pc = "rm"
  /\ LET gone == IF Req.dirpath \/ Len(Req.files) > 1 THEN {} ELSE {Req.files[1]}
     IN /\ dst' = [f \in Files |-> IF f \in gone THEN None ELSE dst[f]]
        /\ foreign' = foreign \ gone
  /\ job' = Return(Append(job.results, "ok"))
  /\ UNCHANGED <<dev, rem, src, jobs, faults>>

(* Between two jobs somebody puts another version of a file in place. *)
SourceReplaced(f) ==
  /\ job.pc \in {"idle", "done"} /\ MayRaise
  /\ \E v \in Versions \ {src[f]} : src' = [src EXCEPT ![f] = v]
  /\ foreign' = IF Exists(f) THEN foreign \cup {f} ELSE foreign
  /\ faults' = faults + 1
  /\ UNCHANGED <<job, dev, rem, dst, jobs>>

TransferStep ==
  \/ SkipFile \/ OpenFile \/ CopyChunk \/ CloseFile \/ TransferRaises
  \/ NetmikoTransfer
  \/ Copied \/ ExecAfterUpload \/ RemoveUploaded
=============================================================================
