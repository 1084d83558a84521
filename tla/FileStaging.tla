------------------------------ MODULE FileStaging -----------------------------
(***************************************************************************)
(* How the files of a job get to the worker that runs it. The edge fetches *)
(* the video and the configuration of a job while it is posted, stores     *)
(* uploads, and serves all of them (api.go). The worker downloads what is  *)
(* missing of its programs and models, then the job's file, converts it,   *)
(* starts the command with a log of its own, and removes the job's files   *)
(* when the job ends (milkv-node/main.go). Who gets a job is not shown: a  *)
(* single worker takes them in any order.                                  *)
(*                                                                         *)
(* A file is written in place, so that between Create and the end of the   *)
(* copy everybody sees a part of it, and what two writers make of one file *)
(* at once is the whole of neither, or of the last.                        *)
(***************************************************************************)
EXTENDS Integers, Sequences, FiniteSets, SequencesExt

CONSTANTS Posts,      \* jobs posted, each by a createJob request
          Uploads,    \* uploads of the file Clip
          Clip,       \* the name under which clients upload
          Movies,     \* names, without suffix, of files that users have on the worker
          Placed,     \* the files that users have put there
          Stamps,     \* values of the clock modulo 10^8 in configuration names
          Absent,     \* no file; no job
          Keep,       \* logs that rotateLogs keeps, 5 in the code
          OldLogs,    \* logs of earlier lives of the worker, the oldest first
          MaxCrashes  \* bound: crashes of the worker

\* The suffixes of videos; "other" is any but these two.
Kinds == {"mp4", "h264", "other"}

\* What a job says its file is (FileType). A file that ends in .MP4 is one of
\* another suffix that is to be converted, so an "other" of type "mp4".
Types == {"mp4", "h264"}

\* What ensureBinariesAndModels wants: first the binaries, then the models.
Resources == {"binary", "model"}

ASSUME NamesAssumption ==
    /\ Posts \cap Movies = {} /\ Posts \cap Uploads = {} /\ Uploads \cap Movies = {}
    /\ Clip \notin Posts \cup Movies
    /\ Absent \notin Posts \cup Uploads \cup Movies
    /\ Absent \notin (Posts \cup Movies) \X Kinds
    /\ Absent \notin [of : Posts \cup Uploads \cup Movies, whole : BOOLEAN]
    /\ Placed \subseteq Movies \X Kinds
ASSUME BoundsAssumption ==
    Keep \in Nat \ {0} /\ MaxCrashes \in Nat /\ OldLogs \in Seq(STRING)

\* The files of a directory have different names. A log is named after its task;
\* tasks that share an identifier are left to HttpDispatch.
ASSUME LogNamesAssumption == IsInjective(OldLogs) /\ ToSet(OldLogs) \cap Posts = {}

VARIABLES files,     \* FILE_STORAGE_DIR: videos
          configs,   \* FILE_STORAGE_DIR: configurations, by stamp
          hpc,       \* where the handler of a post or an upload is
          job,       \* the file that a job asks for
          stamp,     \* the stamp in the name of its configuration
          derived,   \* whose requirements the job's record has
          queue,     \* jobs that wait for the worker
          wpc,       \* where processTask is
          cur,       \* the task
          dl,        \* the file that is being downloaded, as it was when opened
          input,     \* the local file that the command gets
          wdir,      \* /root/h264 on the worker
          present,   \* binaries and models that exist on the worker
          complete,  \* those that have arrived as a whole
          executable,
          logs,      \* the log directory, the oldest first
          crashed    \* jobs that the worker had when it crashed

edgeFiles == <<files, configs>>
handlers == <<hpc, job, stamp, derived>>
process == <<wpc, cur, dl, input>>
programs == <<present, complete, executable>>
disk == <<wdir, programs, logs>>
vars == <<edgeFiles, handlers, queue, process, disk, crashed>>

Owners == Posts \cup Uploads \cup Movies
Contents == [of : Owners, whole : BOOLEAN]
Whole(x) == [of |-> x, whole |-> TRUE]
Part(x) == [of |-> x, whole |-> FALSE]

\* The edge's videos are named after the post that fetched them or by clients,
\* the worker's after the task, with the suffix of the edge's, or by users.
EdgeNames == (Posts \cup {Clip}) \X Kinds
LocalNames == (Posts \cup Movies) \X Kinds
Jobs == [from : {"url"}, name : EdgeNames, type : Types]
        \cup [from : {"local"}, name : LocalNames, type : Types]

TypeOK ==
    /\ files \in [EdgeNames -> Contents \cup {Absent}]
    /\ configs \in [Stamps -> Contents \cup {Absent}]
    /\ hpc \in [Posts \cup Uploads -> {"none", "fetch", "convert", "config", "write",
                                       "parse", "queued", "refused", "done"}]
    /\ job \in [Posts -> Jobs \cup {Absent}]
    /\ stamp \in [Posts -> Stamps \cup {Absent}]
    /\ derived \in [Posts -> Posts \cup {Absent}]
    /\ queue \subseteq Posts
    /\ wpc \in {"idle", "resources", "fetching", "chmod", "prepare", "download",
                "convert", "start", "run"}
    /\ cur \in Posts \cup {Absent}
    /\ dl \in Contents \cup {Absent}
    /\ input \in LocalNames \cup {Absent}
    /\ wdir \in [LocalNames -> Contents \cup {Absent}]
    /\ present \subseteq Resources
    /\ complete \subseteq Resources
    /\ executable \subseteq Resources
    /\ logs \in Seq(ToSet(OldLogs) \cup Posts)
    /\ crashed \subseteq Posts
    /\ cur = Absent <=> wpc = "idle"
    /\ dl # Absent <=> wpc = "download"
    /\ input # Absent <=> wpc \in {"download", "convert", "start", "run"}

Init ==
    /\ files = [n \in EdgeNames |-> Absent]
    /\ configs = [s \in Stamps |-> Absent]
    /\ hpc = [h \in Posts \cup Uploads |-> "none"]
    /\ job = [p \in Posts |-> Absent]
    /\ stamp = [p \in Posts |-> Absent]
    /\ derived = [p \in Posts |-> Absent]
    /\ queue = {}
    /\ wpc = "idle" /\ cur = Absent /\ dl = Absent /\ input = Absent
    /\ wdir = [n \in LocalNames |-> IF n \in Placed THEN Whole(n[1]) ELSE Absent]
    /\ present = {} /\ complete = {} /\ executable = {}
    /\ logs = OldLogs
    /\ crashed = {}

-------------------------------------------------------------------------------
(* The edge's files *)

\* What x may leave in a file that it has created: if somebody has created the
\* file anew in the meantime, also the other's, or a mixture.
Written(old, x) ==
    IF old = Part(x) THEN {Whole(x)} ELSE {old, Part(x), Whole(x)}

Goto(h, l) == hpc' = [hpc EXCEPT ![h] = l]

\* Edge and worker convert a file whose job says mp4, and one that ends in .mp4.
ToConvert(n, t) == t = "mp4" \/ n[2] = "mp4"

\* uploadFile writes to the name that the client gives. The copy is from memory
\* or from the request's own temporary file.
UploadCreate(u) ==
    /\ hpc[u] = "none"
    /\ files' = [files EXCEPT ![<<Clip, "mp4">>] = Part(u)]
    /\ Goto(u, "write")
    /\ UNCHANGED <<configs, job, stamp, derived, queue, process, disk, crashed>>

UploadDone(u) ==
    /\ hpc[u] = "write"
    /\ \E c \in Written(files[<<Clip, "mp4">>], u) :
          files' = [files EXCEPT ![<<Clip, "mp4">>] = c]
    /\ Goto(u, "done")
    /\ UNCHANGED <<configs, job, stamp, derived, queue, process, disk, crashed>>

\* createJob without a file to fetch: it is on the worker, or one that
\* listFiles has offered.
PostStored(p) ==
    /\ hpc[p] = "none"
    /\ \E t \in Types :
          \/ \E n \in EdgeNames :
                /\ files[n] # Absent
                /\ job' = [job EXCEPT ![p] = [from |-> "url", name |-> n, type |-> t]]
          \/ \E n \in Movies \X Kinds :
                job' = [job EXCEPT ![p] = [from |-> "local", name |-> n, type |-> t]]
    /\ Goto(p, "config")
    /\ UNCHANGED <<edgeFiles, stamp, derived, queue, process, disk, crashed>>

\* createJob with an external file: ensureEdgeHostedFile has got an answer and
\* creates the file, whose name the clock makes unique.
FetchCreate(p) ==
    /\ hpc[p] = "none"
    /\ \E k \in Kinds, t \in Types :
          /\ files' = [files EXCEPT ![<<p, k>>] = Part(p)]
          /\ job' = [job EXCEPT ![p] = [from |-> "url", name |-> <<p, k>>, type |-> t]]
    /\ Goto(p, "fetch")
    /\ UNCHANGED <<configs, stamp, derived, queue, process, disk, crashed>>

FetchDone(p) ==
    /\ hpc[p] = "fetch"
    /\ files' = [files EXCEPT ![job[p].name] = Whole(p)]
    /\ Goto(p, IF ToConvert(job[p].name, job[p].type) THEN "convert" ELSE "config")
    /\ UNCHANGED <<configs, job, stamp, derived, queue, process, disk, crashed>>

\* The copy fails: the job is refused, and the part of the file stays.
FetchCut(p) ==
    /\ hpc[p] = "fetch"
    /\ Goto(p, "refused")
    /\ UNCHANGED <<edgeFiles, job, stamp, derived, queue, process, disk, crashed>>

\* Mutated: the original is removed whatever ffmpeg has done.
EdgeConvertRemoves(p) ==
    /\ hpc[p] = "convert"
    /\ \E c \in {Whole(p), Part(p)} :
          files' = [files EXCEPT ![<<p, "h264">>] = c, ![job[p].name] = Absent]
    /\ job' = [job EXCEPT ![p] = [from |-> "url", name |-> <<p, "h264">>, type |-> "h264"]]
    /\ Goto(p, "config")
    /\ UNCHANGED <<configs, stamp, derived, queue, process, disk, crashed>>

\* ffmpeg converts the file, and the original is removed; or it fails, which
\* may leave a part of its output, and the original is kept. It never writes to
\* its input: an .h264 that the job calls mp4 is kept as well.
EdgeConvert(p) ==
    /\ hpc[p] = "convert"
    /\ LET output == <<p, "h264">>
       IN  \/ /\ job[p].name # output
              /\ files' = [files EXCEPT ![output] = Whole(p), ![job[p].name] = Absent]
              /\ job' = [job EXCEPT ![p] =
                            [from |-> "url", name |-> output, type |-> "h264"]]
           \/ /\ \/ UNCHANGED files
                 \/ job[p].name # output /\ files' = [files EXCEPT ![output] = Part(p)]
              /\ job' = [job EXCEPT ![p] =
                            [from |-> "url", name |-> job[p].name, type |-> "mp4"]]
    /\ Goto(p, "config")
    /\ UNCHANGED <<configs, stamp, derived, queue, process, disk, crashed>>

\* Mutated: the configuration has a fixed name.
ConfigFixed(p) ==
    /\ hpc[p] = "config"
    /\ \E s \in Stamps :
          /\ stamp' = [stamp EXCEPT ![p] = s]
          /\ configs' = [t \in Stamps |-> Part(p)]
    /\ Goto(p, "write")
    /\ UNCHANGED <<files, job, derived, queue, process, disk, crashed>>

\* ensureEdgeHostedConfig creates a file named by the clock modulo 10^8.
ConfigCreate(p) ==
    /\ hpc[p] = "config"
    /\ \E s \in Stamps :
          /\ stamp' = [stamp EXCEPT ![p] = s]
          /\ configs' = [configs EXCEPT ![s] = Part(p)]
    /\ Goto(p, "write")
    /\ UNCHANGED <<files, job, derived, queue, process, disk, crashed>>

ConfigDone(p) ==
    /\ hpc[p] = "write"
    /\ \E c \in Written(configs[stamp[p]], p) :
          configs' = [configs EXCEPT ![stamp[p]] = c]
    /\ Goto(p, "parse")
    /\ UNCHANGED <<files, job, stamp, derived, queue, process, disk, crashed>>

ConfigCut(p) ==
    /\ hpc[p] = "write"
    /\ Goto(p, "refused")
    /\ UNCHANGED <<edgeFiles, job, stamp, derived, queue, process, disk, crashed>>

\* createJob reads the file again, ignores an error, and queues the job.
Parse(p) ==
    /\ hpc[p] = "parse"
    /\ LET c == configs[stamp[p]]
       IN  derived' = [derived EXCEPT ![p] = IF c.whole THEN c.of ELSE Absent]
    /\ queue' = queue \cup {p}
    /\ Goto(p, "queued")
    /\ UNCHANGED <<edgeFiles, job, stamp, process, disk, crashed>>

\* A job without a configuration is queued at once; a download that is refused
\* before a file is created leaves nothing.
NoConfig(p) ==
    /\ hpc[p] = "config"
    /\ \/ queue' = queue \cup {p} /\ Goto(p, "queued")
       \/ Goto(p, "refused") /\ UNCHANGED queue
    /\ UNCHANGED <<edgeFiles, job, stamp, derived, process, disk, crashed>>

-------------------------------------------------------------------------------
(* The worker's programs and models *)

\* processTask begins.
Take(p) ==
    /\ wpc = "idle"
    /\ p \in queue
    /\ queue' = queue \ {p}
    /\ cur' = p
    /\ wpc' = "resources"
    /\ UNCHANGED <<edgeFiles, handlers, dl, input, disk, crashed>>

\* Nothing is missing, or the edge does not answer with the resource: the task
\* goes on in any case.
ResourcesDone ==
    /\ wpc = "resources"
    /\ wpc' = "prepare"
    /\ UNCHANGED <<edgeFiles, handlers, queue, cur, dl, input, disk, crashed>>

\* downloadResource creates the first one that is missing, in place.
ResourceCreate ==
    /\ wpc = "resources"
    /\ present # Resources
    /\ present' = present \cup {IF "binary" \notin present THEN "binary" ELSE "model"}
    /\ wpc' = "fetching"
    /\ UNCHANGED <<edgeFiles, handlers, queue, cur, dl, input, wdir, complete,
                   executable, logs, crashed>>

\* It has arrived; a binary is then made executable.
ResourceDone ==
    /\ wpc = "fetching"
    /\ LET r == IF "model" \in present THEN "model" ELSE "binary"
       IN  /\ complete' = complete \cup {r}
           /\ wpc' = IF r = "binary" THEN "chmod" ELSE "resources"
    /\ UNCHANGED <<edgeFiles, handlers, queue, cur, dl, input, wdir, present,
                   executable, logs, crashed>>

Chmod ==
    /\ wpc = "chmod"
    /\ executable' = executable \cup {"binary"}
    /\ wpc' = "resources"
    /\ UNCHANGED <<edgeFiles, handlers, queue, cur, dl, input, wdir, present,
                   complete, logs, crashed>>

\* The copy fails. The part that is there will not be fetched again.
ResourceCut ==
    /\ wpc = "fetching"
    /\ wpc' = "prepare"
    /\ UNCHANGED <<edgeFiles, handlers, queue, cur, dl, input, disk, crashed>>

-------------------------------------------------------------------------------
(* The job's file on the worker *)

\* Mutated: only what the command got is removed.
CleanedInput(d) ==
    [n \in LocalNames |-> IF n = input /\ n[1] = cur THEN Absent ELSE d[n]]

\* Mutated: the task's path is removed as well, whoever put the file there.
CleanedPath(d) == [n \in LocalNames |-> IF n[1] = cur \/ n = input THEN Absent ELSE d[n]]

\* cleanupDownloadedFileArtifacts: /root/h264/<id>_*.
Cleaned(d) == [n \in LocalNames |-> IF n[1] = cur THEN Absent ELSE d[n]]

\* Mutated: a file that is not there ends the task without cleaning the state.
FinishOnly ==
    /\ wdir' = Cleaned(wdir)
    /\ wpc' = "idle" /\ cur' = Absent
    /\ UNCHANGED <<dl, input>>

\* finalizeTask...: the files of the task are removed, and the worker is free.
Finish ==
    /\ wdir' = Cleaned(wdir)
    /\ wpc' = "idle" /\ cur' = Absent /\ dl' = Absent /\ input' = Absent

\* prepareFileForTask with a URL: serveFile opens the file, and the worker
\* creates its own; or the request fails.
Download ==
    /\ wpc = "prepare"
    /\ job[cur].from = "url"
    /\ LET source == files[job[cur].name]
           n == <<cur, job[cur].name[2]>>
       IN  \/ Finish
           \/ /\ source # Absent
              /\ dl' = source
              /\ input' = n
              /\ wdir' = [wdir EXCEPT ![n] = Part(source.of)]
              /\ wpc' = "download"
              /\ UNCHANGED cur
    /\ UNCHANGED <<edgeFiles, handlers, queue, programs, logs, crashed>>

\* As many bytes have come as the file had when it was opened. If it has been
\* written since, they may be of two versions.
DownloadDone ==
    /\ wpc = "download"
    /\ \E c \in IF files[job[cur].name] = dl THEN {dl} ELSE {dl, Part(dl.of)} :
          wdir' = [wdir EXCEPT ![input] = c]
    /\ dl' = Absent
    /\ wpc' = IF ToConvert(input, job[cur].type) THEN "convert" ELSE "start"
    /\ UNCHANGED <<edgeFiles, handlers, queue, cur, input, programs, logs, crashed>>

\* Mutated: what has come until the timeout is used.
DownloadCut ==
    /\ wpc = "download"
    /\ dl' = Absent
    /\ wpc' = "start"
    /\ UNCHANGED <<edgeFiles, handlers, queue, cur, input, disk, crashed>>

\* Mutated: the client of the download has no timeout.
DownloadHangs == FALSE /\ UNCHANGED vars

\* Fewer bytes, an error, or the timeout of 15 seconds: the task fails.
DownloadFails ==
    /\ wpc = "download"
    /\ Finish
    /\ UNCHANGED <<edgeFiles, handlers, queue, programs, logs, crashed>>

\* prepareFileForTask with a local path.
UseLocal ==
    /\ wpc = "prepare"
    /\ job[cur].from = "local"
    /\ IF wdir[job[cur].name] = Absent THEN Finish
       ELSE /\ input' = job[cur].name
            /\ wpc' = IF ToConvert(input', job[cur].type) THEN "convert" ELSE "start"
            /\ UNCHANGED <<cur, dl, wdir>>
    /\ UNCHANGED <<edgeFiles, handlers, queue, programs, logs, crashed>>

Output == <<input[1], "h264">>

\* ffmpeg converts the file, unless its output exists already. What is removed
\* then is the .mp4 of that name: the original if it ends so, but of an original
\* with another suffix the file that somebody has put beside it.
Convert ==
    /\ wpc = "convert"
    /\ wdir[Output] = Absent
    /\ wdir' = [wdir EXCEPT ![Output] = wdir[input], ![<<input[1], "mp4">>] = Absent]
    /\ input' = Output
    /\ wpc' = "start"
    /\ UNCHANGED <<edgeFiles, handlers, queue, cur, dl, programs, logs, crashed>>

\* ffmpeg fails, and may leave a part of its output: the file is used as it is.
ConvertFails ==
    /\ wpc = "convert"
    /\ \/ UNCHANGED wdir
       \/ /\ wdir[Output] = Absent
          /\ wdir' = [wdir EXCEPT ![Output] = Part(wdir[input].of)]
    /\ wpc' = "start"
    /\ UNCHANGED <<edgeFiles, handlers, queue, cur, dl, input, programs, logs, crashed>>

-------------------------------------------------------------------------------
(* The command *)

\* Mutated: the newest logs are deleted.
rotateLogsNewest(s) == IF Len(s) <= Keep THEN s ELSE SubSeq(s, 1, Keep)

\* rotateLogs deletes all but the newest.
rotateLogs(s) == IF Len(s) <= Keep THEN s ELSE SubSeq(s, Len(s) - Keep + 1, Len(s))

\* runExternalWorkload rotates the logs, creates one more, and starts the
\* command, which must be executable.
Start ==
    /\ wpc = "start"
    /\ logs' = Append(rotateLogs(logs), cur)
    /\ IF "binary" \in executable
       THEN wpc' = "run" /\ UNCHANGED <<cur, dl, input, wdir>>
       ELSE Finish
    /\ UNCHANGED <<edgeFiles, handlers, queue, programs, crashed>>

\* The command ends, in whatever way.
End ==
    /\ wpc = "run"
    /\ Finish
    /\ UNCHANGED <<edgeFiles, handlers, queue, programs, logs, crashed>>

\* The worker's process dies and is started again; its disk stays.
Crash ==
    /\ wpc # "idle"
    /\ Cardinality(crashed) < MaxCrashes
    /\ crashed' = crashed \cup {cur}
    /\ wpc' = "idle" /\ cur' = Absent /\ dl' = Absent /\ input' = Absent
    /\ UNCHANGED <<edgeFiles, handlers, queue, disk>>

-------------------------------------------------------------------------------
Edge ==
    \/ \E u \in Uploads : UploadCreate(u) \/ UploadDone(u)
    \/ \E p \in Posts :
          \/ PostStored(p)
          \/ FetchCreate(p) \/ FetchDone(p) \/ FetchCut(p) \/ EdgeConvert(p)
          \/ ConfigCreate(p) \/ ConfigDone(p) \/ ConfigCut(p) \/ Parse(p) \/ NoConfig(p)

\* What processTask does without the network.
Local ==
    \/ \E p \in Posts : Take(p)
    \/ ResourcesDone \/ Chmod
    \/ Download \/ DownloadFails \/ UseLocal
    \/ Convert \/ ConvertFails
    \/ Start \/ End

Worker ==
    \/ Local
    \/ ResourceCreate \/ ResourceDone \/ ResourceCut
    \/ DownloadDone
    \/ Crash

Next == Edge \/ Worker

Spec == Init /\ [][Next]_vars

\* The worker goes on; ffmpeg and commands end, and a download has a deadline.
\* The download of a resource has none.
FairSpec == Spec /\ WF_vars(Local)

-------------------------------------------------------------------------------
(* Properties *)

Running(p) == wpc = "run" /\ cur = p
Fetched(p) == job[p] \in [from : {"url"}, name : {p} \X Kinds, type : Types]

\* A job that the edge has fetched a file for runs on that file, converted or
\* not, and on all of it, whoever fails or crashes on the way, and with all of
\* its program. (Users may name files that are still being written.)
RunsOnItsFile ==
    \A p \in Posts : Running(p) =>
        /\ "binary" \in complete
        /\ Fetched(p) => wdir[input] = Whole(p)

\* What a queued job refers to is kept on the edge: nobody overwrites, converts
\* or removes it any more.
HostedFilesStay ==
    \A p \in Posts :
        hpc[p] = "queued" /\ Fetched(p)
            => files[job[p].name] = Whole(p)

\* A task leaves no file of its own in /root/h264, unless the worker crashes. (It
\* does leave what ffmpeg has made of a user's file.)
NoLeftovers ==
    \A p \in Posts, k \in Kinds : wdir[<<p, k>>] # Absent => p = cur \/ p \in crashed

\* The requirements by which a job is scheduled come from its own configuration,
\* unless two names have met in the same 100 milliseconds.
OwnRequirements ==
    \A p \in Posts :
        stamp[p] # Absent /\ hpc[p] = "queued" /\ derived[p] # p
            => \E q \in Posts \ {p} : stamp[q] = stamp[p]

\* Logs do not pile up, and those that go are older than those that stay.
LogsKept ==
    [][logs' # logs =>
          /\ Len(logs') <= Keep + 1
          /\ \A i, k \in DOMAIN logs :
                i < k /\ logs[i] \in ToSet(logs') => logs[k] \in ToSet(logs')]_vars

\* What is there under a user's name is never written again, and it goes in one
\* case: an .mp4, when a conversion of a file of that name, itself or another,
\* has just made an .h264 that was not there.
UsersFilesStay ==
    [][\A n \in Movies \X Kinds :
          wdir[n] # Absent /\ wdir'[n] # wdir[n] =>
             /\ wpc = "convert" /\ n = <<input[1], "mp4">> /\ wdir'[n] = Absent
             /\ wdir[Output] = Absent /\ wdir'[Output] = wdir[input]]_vars

\* No task stays with the worker for ever, except in the download of a resource.
TaskEnds == (wpc # "idle") ~> (wpc \in {"idle", "fetching"})
===============================================================================
