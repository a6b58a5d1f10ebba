---------------------------- MODULE DeviceState ----------------------------
(***************************************************************************)
(* What a job on a device works on: the request, the session's mode and    *)
(* configuration on the device, the remote side of an interactive command, *)
(* and the two ends of a file transfer.  The session itself is the subject *)
(* of DeviceSession.                                                       *)
(***************************************************************************)
EXTENDS Integers, Sequences, FiniteSets

CONSTANTS
  Requests,   \* the requests a client may send, see NoRequest for the fields
  Files,      \* files a transfer may be about
  Versions,   \* contents a source file may have: sequences of chunks
  MaxPolls,   \* max_no_output of _execute_interactive
  MaxJobs,    \* bound on the jobs run
  MaxFaults,  \* bound on exceptions raised and source files replaced
  None        \* null marker

(* The fields of a request that the drivers look at. *)
NoRequest ==
  [drv |-> "paramiko",  \* "paramiko" or "netmiko"
   op |-> "send",       \* "send", "config", "script", "interactive",
                        \* "upload" or "download"
   lines |-> 0,         \* number of commands or configuration lines
   args |-> "none",     \* driver_args: absent, or stop_on_error on or off
   save |-> FALSE,      \* netmiko: save the configuration
   enable |-> FALSE,    \* netmiko: enable_mode
   asks |-> <<>>,       \* prompts the remote command asks, in order
   expects |-> {},      \* the prompts in expect_map
   files |-> <<>>,      \* the file, or the files of the directory
   resume |-> FALSE,    \* file_transfer.resume
   hash |-> FALSE,      \* file_transfer.sync_mode = "hash"
   exec |-> FALSE,      \* execute_after_upload and execute_command
   cleanup |-> FALSE,   \* cleanup_after_exec
   dirpath |-> FALSE]   \* remote_path ends in a slash

(* What the contents of files are made of. *)
Chunks == UNION {{v[k] : k \in DOMAIN v} : v \in Versions}

(* A request has something to do: send() and config() return at once when  *)
(* the list of lines is empty.                                             *)
ASSUME DeviceAssumption ==
  /\ \A r \in Requests :
       /\ DOMAIN r = DOMAIN NoRequest
       /\ r.drv \in {"paramiko", "netmiko"}
       /\ r.op \in {"send", "config", "script", "interactive", "upload", "download"}
       /\ r.drv = "netmiko" => r.op \notin {"script", "interactive"}
       /\ r.lines \in Nat /\ (r.op \in {"send", "config"} => r.lines > 0)
       /\ r.files \in Seq(Files) /\ (r.op \in {"upload", "download"} => r.files # <<>>)
  /\ Versions # {} /\ Versions \subseteq Seq(Chunks) \ {<<>>}
  /\ None \notin Seq(Chunks)
  /\ MaxPolls \in Nat /\ MaxJobs \in Nat /\ MaxFaults \in Nat

VARIABLES
  job,      \* the running or last job: its request and the driver's locals
  dev,      \* the device behind the session: modes and configuration
  rem,      \* the remote side of an interactive command
  src,      \* contents of the source files
  dst,      \* contents of their destinations, None when there is none
  foreign,  \* destinations that do not come from copying the present source
  jobs,     \* jobs started so far
  faults    \* exceptions raised and files replaced so far

files == <<src, dst, foreign>>
vars == <<job, dev, rem, files, jobs, faults>>

NoJob ==
  [req |-> NoRequest, pc |-> "idle", i |-> 0, results |-> <<>>,
   failed |-> FALSE, raised |-> FALSE,
   unseen |-> {}]       \* history: lines refused without the driver noticing

NoRemote == [asking |-> FALSE, todo |-> <<>>, unread |-> {}, seen |-> {},
             responded |-> {}, polls |-> 0]

(* Line k of the running job, as it appears in a configuration. *)
Line(k) == <<jobs, k>>

(* The driver returns what it has; a raised exception leaves one error     *)
(* entry instead of the results so far.                                    *)
Return(results) == [job EXCEPT !.pc = "done", !.results = results]
Raised == [job EXCEPT !.pc = "done", !.results = <<"error">>, !.raised = TRUE]

MayRaise == faults < MaxFaults
=============================================================================
