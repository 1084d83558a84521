--------------------------- MODULE FileStagingProofs --------------------------
(***************************************************************************)
(* Proofs about FileStaging, for any jobs, uploads, movies, stamps and     *)
(* crashes. The edge keeps what a queued job refers to, and the worker     *)
(* keeps to it: what it gets of such a file is the whole of it.            *)
(***************************************************************************)
EXTENDS FileStaging, SequenceTheorems, TLAPS

USE NamesAssumption, BoundsAssumption

EdgeTypes ==
    /\ files \in [EdgeNames -> Contents \cup {Absent}]
    /\ configs \in [Stamps -> Contents \cup {Absent}]
    /\ hpc \in [Posts \cup Uploads -> {"none", "fetch", "convert", "config", "write",
                                       "parse", "queued", "refused", "done"}]
    /\ job \in [Posts -> Jobs \cup {Absent}]
    /\ stamp \in [Posts -> Stamps \cup {Absent}]
    /\ derived \in [Posts -> Posts \cup {Absent}]

\* The names that the clock makes unique belong to their posts, whose files
\* are whole and kept from the end of the fetch on.
HostedFor(p) ==
    /\ hpc[p] = "none" => \A k \in Kinds : files[<<p, k>>] = Absent
    /\ hpc[p] # "none" =>
          job[p] \in Jobs /\ (job[p].from = "local" => job[p].name[1] \in Movies)
    /\ hpc[p] \in {"fetch", "convert"} => Fetched(p)
    /\ hpc[p] \in {"convert", "config", "write", "parse", "queued"} /\ Fetched(p) =>
          files[job[p].name] = Whole(p)

Hosted == \A p \in Posts : HostedFor(p)

Alone(p) == \A q \in Posts \ {p} : stamp[q] # stamp[p]

\* A stamp that nobody shares leads to the post's own configuration.
Configured ==
    \A p \in Posts :
        /\ hpc[p] \in {"none", "fetch", "convert", "config"} => stamp[p] = Absent
        /\ hpc[p] \in {"write", "parse"} =>
              stamp[p] \in Stamps /\ configs[stamp[p]] \in [of : Posts, whole : BOOLEAN]
        /\ Alone(p) /\ stamp[p] # Absent =>
              /\ hpc[p] = "write" => configs[stamp[p]] = Part(p)
              /\ hpc[p] = "parse" => configs[stamp[p]] = Whole(p)
              /\ hpc[p] = "queued" => derived[p] = p

EdgeInv == EdgeTypes /\ Hosted /\ Configured

-------------------------------------------------------------------------------
(* The edge *)

LEMMA EdgeInit == Init => EdgeInv
<1> SUFFICES ASSUME Init PROVE EdgeInv
  OBVIOUS
<1>1. EdgeTypes
  BY DEF Init, EdgeTypes
<1>2. Hosted
  BY DEF Init, Hosted, HostedFor, EdgeNames
<1>3. Configured
  BY DEF Init, Configured
<1> QED
  BY <1>1, <1>2, <1>3 DEF EdgeInv

LEMMA NamesTypes ==
    /\ \A p \in Posts, k \in Kinds : <<p, k>> \in EdgeNames /\ <<p, k>> \in LocalNames
    /\ \A n \in EdgeNames : n = <<n[1], n[2]>> /\ n[2] \in Kinds
    /\ <<Clip, "mp4">> \in EdgeNames /\ "mp4" \in Kinds /\ "h264" \in Kinds
    /\ Absent \notin Contents
    /\ \A n \in LocalNames : n = <<n[1], n[2]>> /\ n[2] \in Kinds /\ n[1] \in Posts \cup Movies
    /\ \A n \in Movies \X Kinds : n \in LocalNames /\ n[1] \in Movies
    /\ \A x \in Owners : Whole(x) \in Contents /\ Part(x) \in Contents
    /\ Posts \cup Uploads \cup Movies \subseteq Owners
  BY DEF EdgeNames, LocalNames, Kinds, Owners, Contents, Whole, Part

LEMMA JobTypes ==
    /\ "mp4" \in Types /\ "h264" \in Types
    /\ \A n \in EdgeNames, t \in Types : [from |-> "url", name |-> n, type |-> t] \in Jobs
    /\ \A n \in LocalNames, t \in Types : [from |-> "local", name |-> n, type |-> t] \in Jobs
    /\ \A x \in Jobs : /\ x.from = "url" => x.name \in EdgeNames
                       /\ x.from = "local" => x.name \in LocalNames
                       /\ x.from \in {"url", "local"}
  BY DEF Jobs, Types

LEMMA OwnJobs ==
    \A x, p : x \in [from : {"url"}, name : {p} \X Kinds, type : Types]
                 <=> \E k \in Kinds, t \in Types :
                        x = [from |-> "url", name |-> <<p, k>>, type |-> t]
<1> SUFFICES ASSUME NEW x, NEW p
             PROVE  x \in [from : {"url"}, name : {p} \X Kinds, type : Types]
                       <=> \E k \in Kinds, t \in Types :
                              x = [from |-> "url", name |-> <<p, k>>, type |-> t]
  OBVIOUS
<1>1. ASSUME x \in [from : {"url"}, name : {p} \X Kinds, type : Types]
      PROVE  \E k \in Kinds, t \in Types :
                x = [from |-> "url", name |-> <<p, k>>, type |-> t]
  <2>1. /\ x = [from |-> x.from, name |-> x.name, type |-> x.type]
        /\ x.from = "url" /\ x.name \in {p} \X Kinds /\ x.type \in Types
    BY <1>1
  <2>2. x.name = <<p, x.name[2]>> /\ x.name[2] \in Kinds
    BY <2>1
  <2> QED
    BY <2>1, <2>2
<1>2. ASSUME NEW k \in Kinds, NEW t \in Types,
             x = [from |-> "url", name |-> <<p, k>>, type |-> t]
      PROVE  x \in [from : {"url"}, name : {p} \X Kinds, type : Types]
  BY <1>2
<1> QED
  BY <1>1, <1>2

\* A conversion on the edge replaces the file or keeps it, and the job has its name.
LEMMA EdgeConverts ==
    ASSUME EdgeInv, NEW p \in Posts, EdgeConvert(p)
    PROVE  \E n \in EdgeNames, t \in Types :
              /\ n[1] = p /\ job[p].name \in {p} \X Kinds
              /\ job' = [job EXCEPT ![p] = [from |-> "url", name |-> n, type |-> t]]
              /\ \/ n = job[p].name /\ files' = files
                 \/ /\ n = job[p].name /\ n # <<p, "h264">>
                    /\ files' = [files EXCEPT ![<<p, "h264">>] = Part(p)]
                 \/ /\ n = <<p, "h264">> /\ n # job[p].name
                    /\ files' = [files EXCEPT ![<<p, "h264">>] = Whole(p),
                                              ![job[p].name] = Absent]
<1>1. hpc[p] = "convert" /\ Fetched(p)
  BY DEF EdgeConvert, EdgeInv, Hosted, HostedFor
<1>2. job[p].name \in {p} \X Kinds
  BY <1>1 DEF Fetched
<1>3. job[p].name \in EdgeNames /\ job[p].name[1] = p
  BY <1>2 DEF EdgeNames
<1>4. <<p, "h264">> \in EdgeNames /\ <<p, "h264">>[1] = p
  BY NamesTypes
<1>5. \/ /\ job[p].name # <<p, "h264">>
         /\ files' = [files EXCEPT ![<<p, "h264">>] = Whole(p), ![job[p].name] = Absent]
         /\ job' = [job EXCEPT ![p] =
                       [from |-> "url", name |-> <<p, "h264">>, type |-> "h264"]]
      \/ /\ \/ files' = files
            \/ /\ job[p].name # <<p, "h264">>
               /\ files' = [files EXCEPT ![<<p, "h264">>] = Part(p)]
         /\ job' = [job EXCEPT ![p] =
                       [from |-> "url", name |-> job[p].name, type |-> "mp4"]]
  BY DEF EdgeConvert
<1> QED
  BY <1>2, <1>3, <1>4, <1>5, JobTypes

LEMMA EdgeTypesStep == EdgeInv /\ Edge => EdgeTypes'
<1> SUFFICES ASSUME EdgeInv, Edge PROVE EdgeTypes'
  OBVIOUS
<1> USE NamesTypes, JobTypes DEF EdgeInv, EdgeTypes, edgeFiles, handlers
<1>1. ASSUME NEW u \in Uploads, UploadCreate(u)
      PROVE  EdgeTypes'
  BY <1>1 DEF UploadCreate, Goto
<1>2. ASSUME NEW u \in Uploads, UploadDone(u)
      PROVE  EdgeTypes'
  BY <1>2 DEF UploadDone, Goto, Written
<1>3. ASSUME NEW p \in Posts, PostStored(p)
      PROVE  EdgeTypes'
  BY <1>3 DEF PostStored, Goto
<1>4. ASSUME NEW p \in Posts, FetchCreate(p)
      PROVE  EdgeTypes'
  BY <1>4 DEF FetchCreate, Goto
<1>5. ASSUME NEW p \in Posts, FetchDone(p)
      PROVE  EdgeTypes'
  BY <1>5 DEF FetchDone, Goto
<1>6. ASSUME NEW p \in Posts, FetchCut(p)
      PROVE  EdgeTypes'
  BY <1>6 DEF FetchCut, Goto
<1>7. ASSUME NEW p \in Posts, EdgeConvert(p)
      PROVE  EdgeTypes'
  <2>1. PICK n \in EdgeNames, t \in Types :
           /\ job' = [job EXCEPT ![p] = [from |-> "url", name |-> n, type |-> t]]
           /\ \/ files' = files
              \/ files' = [files EXCEPT ![<<p, "h264">>] = Part(p)]
              \/ files' = [files EXCEPT ![<<p, "h264">>] = Whole(p), ![job[p].name] = Absent]
    BY <1>7, EdgeConverts
  <2>2. files' \in [EdgeNames -> Contents \cup {Absent}]
    <3>1. /\ files \in [EdgeNames -> Contents \cup {Absent}]
          /\ Whole(p) \in Contents /\ Part(p) \in Contents
      OBVIOUS
    <3> HIDE NamesTypes, JobTypes DEF EdgeInv, EdgeTypes
    <3> QED
      BY <2>1, <3>1
  <2>3. job' \in [Posts -> Jobs \cup {Absent}]
    BY <2>1
  <2>4. hpc' = [hpc EXCEPT ![p] = "config"] /\ UNCHANGED <<configs, stamp, derived>>
    BY <1>7 DEF EdgeConvert, Goto
  <2> QED
    BY <2>2, <2>3, <2>4
<1>8. ASSUME NEW p \in Posts, ConfigCreate(p)
      PROVE  EdgeTypes'
  BY <1>8 DEF ConfigCreate, Goto
<1>9. ASSUME NEW p \in Posts, ConfigDone(p)
      PROVE  EdgeTypes'
  BY <1>9 DEF ConfigDone, Goto, Written, Configured
<1>10. ASSUME NEW p \in Posts, ConfigCut(p)
       PROVE  EdgeTypes'
  BY <1>10 DEF ConfigCut, Goto
<1>11. ASSUME NEW p \in Posts, Parse(p)
       PROVE  EdgeTypes'
  BY <1>11 DEF Parse, Goto, Configured
<1>12. ASSUME NEW p \in Posts, NoConfig(p)
       PROVE  EdgeTypes'
  BY <1>12 DEF NoConfig, Goto
<1> QED
  BY <1>1, <1>2, <1>3, <1>4, <1>5, <1>6, <1>7, <1>8, <1>9, <1>10, <1>11, <1>12 DEF Edge

\* A post that a step does not touch keeps what it has.
LEMMA HostedOthers ==
    ASSUME EdgeInv, NEW r \in Posts, hpc'[r] = hpc[r], job'[r] = job[r],
           \A k \in Kinds : files'[<<r, k>>] = files[<<r, k>>]
    PROVE  HostedFor(r)'
<1>1. Fetched(r) => \E k \in Kinds : job[r].name = <<r, k>>
  BY OwnJobs DEF Fetched
<1>3. HostedFor(r)
  BY DEF EdgeInv, Hosted
<1>4. Fetched(r)' <=> Fetched(r)
  BY DEF Fetched
<1>5. Fetched(r) => files'[job'[r].name] = files[job[r].name]
  BY <1>1
<1> QED
  BY <1>3, <1>4, <1>5 DEF HostedFor

LEMMA HostedStep == EdgeInv /\ Edge => Hosted'
<1> SUFFICES ASSUME EdgeInv, Edge PROVE Hosted'
  OBVIOUS
<1> USE DEF EdgeInv
<1>0. /\ files \in [EdgeNames -> Contents \cup {Absent}]
      /\ hpc \in [Posts \cup Uploads ->
                    {"none", "fetch", "convert", "config", "write",
                     "parse", "queued", "refused", "done"}]
      /\ job \in [Posts -> Jobs \cup {Absent}]
  BY DEF EdgeTypes
<1>1. ASSUME NEW u \in Uploads, UploadCreate(u) \/ UploadDone(u)
      PROVE  Hosted'
  <2>1. /\ job' = job
        /\ \E c : files' = [files EXCEPT ![<<Clip, "mp4">>] = c]
        /\ \E l : hpc' = [hpc EXCEPT ![u] = l]
    BY <1>1 DEF UploadCreate, UploadDone, Goto
  <2>2. ASSUME NEW r \in Posts
        PROVE  hpc'[r] = hpc[r] /\ \A k \in Kinds : files'[<<r, k>>] = files[<<r, k>>]
    BY <1>0, <2>1, NamesTypes
  <2> QED
    BY <2>1, <2>2, HostedOthers DEF Hosted
<1>2. ASSUME NEW p \in Posts,
             PostStored(p) \/ FetchCreate(p) \/ FetchDone(p) \/ FetchCut(p)
             \/ EdgeConvert(p) \/ ConfigCreate(p) \/ ConfigDone(p) \/ ConfigCut(p)
             \/ Parse(p) \/ NoConfig(p)
      PROVE  Hosted'
  <2>1. ASSUME NEW r \in Posts \ {p}
        PROVE  HostedFor(r)'
    <3>1. hpc'[r] = hpc[r]
      BY <1>0, <1>2 DEF PostStored, FetchCreate, FetchDone, FetchCut, EdgeConvert,
            ConfigCreate, ConfigDone, ConfigCut, Parse, NoConfig, Goto
    <3>2. job'[r] = job[r]
      BY <1>0, <1>2 DEF PostStored, FetchCreate, FetchDone, FetchCut, EdgeConvert,
            ConfigCreate, ConfigDone, ConfigCut, Parse, NoConfig, handlers
    <3>3. hpc[p] = "fetch" => \E k \in Kinds : job[p].name = <<p, k>>
      <4>1. hpc[p] = "fetch" => Fetched(p)
        BY DEF Hosted, HostedFor
      <4> QED
        BY <4>1, OwnJobs DEF Fetched
    <3>4. ASSUME NEW k \in Kinds
          PROVE  files'[<<r, k>>] = files[<<r, k>>]
      <4>1. \A i \in Kinds : <<r, k>> # <<p, i>>
        OBVIOUS
      <4>2. \/ files' = files
            \/ \E i \in Kinds : \E c : files' = [files EXCEPT ![<<p, i>>] = c]
            \/ \E i \in Kinds : \E c, d :
                  files' = [files EXCEPT ![<<p, "h264">>] = c, ![<<p, i>>] = d]
        <5>1. CASE PostStored(p) \/ FetchCut(p) \/ ConfigCreate(p) \/ ConfigDone(p)
                   \/ ConfigCut(p) \/ Parse(p) \/ NoConfig(p)
          BY <5>1 DEF PostStored, FetchCut, ConfigCreate, ConfigDone, ConfigCut, Parse,
                      NoConfig, edgeFiles
        <5>2. CASE FetchCreate(p)
          BY <5>2 DEF FetchCreate
        <5>3. CASE FetchDone(p)
          BY <3>3, <5>3 DEF FetchDone
        <5>4. CASE EdgeConvert(p)
          <6>1. /\ job[p].name \in {p} \X Kinds
                /\ \/ files' = files
                   \/ files' = [files EXCEPT ![<<p, "h264">>] = Part(p)]
                   \/ files' = [files EXCEPT ![<<p, "h264">>] = Whole(p),
                                             ![job[p].name] = Absent]
            BY <5>4, EdgeConverts
          <6>2. PICK i \in Kinds : job[p].name = <<p, i>>
            BY <6>1
          <6>3. "h264" \in Kinds
            BY DEF Kinds
          <6>4. CASE files' = [files EXCEPT ![<<p, "h264">>] = Part(p)]
            BY <6>3, <6>4, Zenon
          <6>5. CASE files' = [files EXCEPT ![<<p, "h264">>] = Whole(p), ![<<p, i>>] = Absent]
            BY <6>5, Zenon
          <6> QED
            BY <6>1, <6>2, <6>4, <6>5
        <5> QED
          BY <1>2, <5>1, <5>2, <5>3, <5>4
      <4>3. <<r, k>> # <<p, "h264">>
        BY <4>1 DEF Kinds
      <4>4. <<r, k>> \in EdgeNames
        BY NamesTypes
      <4> QED
        BY <1>0, <4>1, <4>2, <4>3, <4>4
    <3> QED
      BY <3>1, <3>2, <3>4, HostedOthers
  <2>2. HostedFor(p)'
    <3>0. HostedFor(p) /\ p \in Posts \cup Uploads
      BY DEF Hosted
    <3>1. CASE PostStored(p)
      <4>1. hpc'[p] = "config" /\ files' = files /\ hpc[p] = "none"
        BY <1>0, <3>1 DEF PostStored, Goto, edgeFiles
      <4>2. \E t \in Types :
               \/ \E n \in EdgeNames :
                     files[n] # Absent /\ job'[p] = [from |-> "url", name |-> n, type |-> t]
               \/ \E n \in Movies \X Kinds :
                     job'[p] = [from |-> "local", name |-> n, type |-> t]
        BY <1>0, <3>1 DEF PostStored
      <4>3. job'[p] \in Jobs /\ (job'[p].from = "local" => job'[p].name[1] \in Movies)
        <5>1. ASSUME NEW n \in EdgeNames, NEW t \in Types,
                     job'[p] = [from |-> "url", name |-> n, type |-> t]
              PROVE  job'[p] \in Jobs /\ (job'[p].from = "local" => job'[p].name[1] \in Movies)
          BY <5>1, JobTypes
        <5>2. ASSUME NEW n \in Movies \X Kinds, NEW t \in Types,
                     job'[p] = [from |-> "local", name |-> n, type |-> t]
              PROVE  job'[p] \in Jobs /\ (job'[p].from = "local" => job'[p].name[1] \in Movies)
          <6>1. n \in LocalNames /\ n[1] \in Movies
            BY NamesTypes
          <6> QED
            BY <5>2, <6>1, JobTypes
        <5> QED
          BY <4>2, <5>1, <5>2
      <4>4. ~Fetched(p)'
        <5>1. ASSUME NEW k \in Kinds, NEW t \in Types,
                     job'[p] = [from |-> "url", name |-> <<p, k>>, type |-> t]
              PROVE  FALSE
          <6>1. files[<<p, k>>] = Absent
            BY <3>0, <4>1 DEF HostedFor
          <6>2. files[job'[p].name] # Absent
            <7>1. job'[p].from = "url"
              BY <5>1
            <7>2. PICK n \in EdgeNames, i \in Types :
                     files[n] # Absent /\ job'[p] = [from |-> "url", name |-> n, type |-> i]
              <8>1. \A n, i : [from |-> "local", name |-> n, type |-> i].from # "url"
                OBVIOUS
              <8> QED
                BY <4>2, <7>1, <8>1
            <7> QED
              BY <7>2
          <6> QED
            BY <5>1, <6>1, <6>2
        <5> QED
          BY <5>1, OwnJobs DEF Fetched
      <4> QED
        BY <4>1, <4>3, <4>4 DEF HostedFor
    <3>2. CASE FetchCreate(p)
      <4>1. PICK k \in Kinds, t \in Types :
               job'[p] = [from |-> "url", name |-> <<p, k>>, type |-> t]
        BY <1>0, <3>2 DEF FetchCreate
      <4>2. hpc'[p] = "fetch"
        BY <1>0, <3>2 DEF FetchCreate, Goto
      <4> QED
        BY <4>1, <4>2, NamesTypes, JobTypes DEF HostedFor, Fetched
    <3>3. CASE FetchDone(p)
      <4>1. PICK k \in Kinds, t \in Types :
               job[p] = [from |-> "url", name |-> <<p, k>>, type |-> t]
        BY <3>0, <3>3, OwnJobs DEF FetchDone, HostedFor, Fetched
      <4>2. files'[<<p, k>>] = Whole(p) /\ job' = job
        BY <1>0, <3>3, <4>1, NamesTypes DEF FetchDone
      <4>3. hpc'[p] \in {"convert", "config"}
        BY <1>0, <3>3 DEF FetchDone, Goto
      <4> QED
        BY <4>1, <4>2, <4>3, NamesTypes, JobTypes DEF HostedFor, Fetched
    <3>4. CASE FetchCut(p) \/ ConfigCut(p) \/ ConfigCreate(p) \/ ConfigDone(p)
               \/ Parse(p) \/ NoConfig(p)
      <4>1. /\ job' = job /\ files' = files
            /\ hpc[p] \in {"fetch", "config", "write", "parse"}
            /\ hpc'[p] = "refused" \/ (hpc[p] # "fetch" /\ hpc'[p] \in {"write", "parse", "queued"})
        BY <1>0, <3>4 DEF FetchCut, ConfigCut, ConfigCreate, ConfigDone, Parse, NoConfig,
                          Goto, edgeFiles
      <4> QED
        BY <3>0, <4>1 DEF HostedFor, Fetched
    <3>5. CASE EdgeConvert(p)
      <4>1. hpc[p] = "convert" /\ hpc'[p] = "config"
        BY <1>0, <3>5 DEF EdgeConvert, Goto
      <4>2. PICK n \in EdgeNames, t \in Types :
               /\ n[1] = p /\ job[p].name \in {p} \X Kinds
               /\ job' = [job EXCEPT ![p] = [from |-> "url", name |-> n, type |-> t]]
               /\ \/ n = job[p].name /\ files' = files
                  \/ /\ n = job[p].name /\ n # <<p, "h264">>
                     /\ files' = [files EXCEPT ![<<p, "h264">>] = Part(p)]
                  \/ /\ n = <<p, "h264">> /\ n # job[p].name
                     /\ files' = [files EXCEPT ![<<p, "h264">>] = Whole(p),
                                               ![job[p].name] = Absent]
        BY <3>5, EdgeConverts
      <4>3. Fetched(p) /\ files[job[p].name] = Whole(p)
        BY <3>0, <4>1 DEF HostedFor
      <4>4. files'[n] = Whole(p)
        BY <1>0, <4>2, <4>3
      <4>5. job'[p] = [from |-> "url", name |-> n, type |-> t]
        BY <1>0, <4>2
      <4>6. job'[p] \in Jobs /\ job'[p].from # "local" /\ job'[p].name = n
        BY <4>5, JobTypes
      <4> QED
        BY <4>1, <4>4, <4>6 DEF HostedFor
    <3> QED
      BY <1>2, <3>1, <3>2, <3>3, <3>4, <3>5
  <2> QED
    BY <2>1, <2>2 DEF Hosted
<1> QED
  BY <1>1, <1>2 DEF Edge

LEMMA PartWhole ==
    /\ \A x, y : /\ Part(x) # Whole(y)
                 /\ Whole(x).whole /\ Whole(x).of = x
    /\ \A x \in Posts : Part(x) \in [of : Posts, whole : BOOLEAN]
                        /\ Whole(x) \in [of : Posts, whole : BOOLEAN]
<1>1. \A x, y : Part(x) # Whole(y)
  <2>1. \A x, y : Part(x).whole # Whole(y).whole
    BY DEF Part, Whole
  <2> QED
    BY <2>1
<1>2. \A x : Whole(x).whole /\ Whole(x).of = x
  BY DEF Whole
<1> QED
  BY <1>1, <1>2 DEF Part, Whole

\* The configurations of other posts, after a step of post p.
LEMMA ConfiguredStep == EdgeInv /\ Edge => Configured'
<1> SUFFICES ASSUME EdgeInv, Edge PROVE Configured'
  OBVIOUS
<1>0. /\ configs \in [Stamps -> Contents \cup {Absent}]
      /\ hpc \in [Posts \cup Uploads ->
                    {"none", "fetch", "convert", "config", "write",
                     "parse", "queued", "refused", "done"}]
      /\ stamp \in [Posts -> Stamps \cup {Absent}]
      /\ derived \in [Posts -> Posts \cup {Absent}]
  BY DEF EdgeInv, EdgeTypes
<1> DEFINE For(p) ==
        /\ hpc[p] \in {"none", "fetch", "convert", "config"} => stamp[p] = Absent
        /\ hpc[p] \in {"write", "parse"} =>
              stamp[p] \in Stamps /\ configs[stamp[p]] \in [of : Posts, whole : BOOLEAN]
        /\ Alone(p) /\ stamp[p] # Absent =>
              /\ hpc[p] = "write" => configs[stamp[p]] = Part(p)
              /\ hpc[p] = "parse" => configs[stamp[p]] = Whole(p)
              /\ hpc[p] = "queued" => derived[p] = p
<1>1. \A p \in Posts : For(p)
  BY DEF EdgeInv, Configured
<1>2. ASSUME UNCHANGED <<configs, stamp, derived>>,
             \A r \in Posts : \/ hpc'[r] = hpc[r]
                              \/ hpc'[r] \in {"convert", "config", "fetch"}
                                    /\ hpc[r] \in {"none", "fetch", "convert"}
                              \/ hpc'[r] = "refused"
                              \/ hpc[r] = "config" /\ hpc'[r] = "queued"
      PROVE  Configured'
  BY <1>1, <1>2 DEF Configured, Alone
<1>3. ASSUME NEW u \in Uploads, UploadCreate(u) \/ UploadDone(u)
      PROVE  Configured'
  <2>1. UNCHANGED <<configs, stamp, derived>> /\ \A r \in Posts : hpc'[r] = hpc[r]
    BY <1>0, <1>3 DEF UploadCreate, UploadDone, Goto
  <2> QED
    BY <1>2, <2>1
<1>4. ASSUME NEW p \in Posts,
             PostStored(p) \/ FetchCreate(p) \/ FetchDone(p) \/ FetchCut(p)
             \/ EdgeConvert(p) \/ ConfigCut(p) \/ NoConfig(p)
      PROVE  Configured'
  <2>1. UNCHANGED <<configs, stamp, derived>>
    BY <1>4 DEF PostStored, FetchCreate, FetchDone, FetchCut, EdgeConvert, ConfigCut,
                NoConfig, edgeFiles
  <2>2. \/ /\ hpc[p] \in {"none", "fetch", "convert"}
           /\ \E l \in {"convert", "config", "fetch", "refused"} : hpc' = [hpc EXCEPT ![p] = l]
        \/ hpc' = [hpc EXCEPT ![p] = "refused"]
        \/ hpc[p] = "config" /\ hpc' = [hpc EXCEPT ![p] = "queued"]
    BY <1>4 DEF PostStored, FetchCreate, FetchDone, FetchCut, EdgeConvert, ConfigCut,
                NoConfig, Goto
  <2> QED
    BY <1>0, <1>2, <2>1, <2>2
<1>5. ASSUME NEW p \in Posts, ConfigCreate(p)
      PROVE  Configured'
  <2>1. PICK s \in Stamps : /\ stamp' = [stamp EXCEPT ![p] = s]
                            /\ configs' = [configs EXCEPT ![s] = Part(p)]
    BY <1>5 DEF ConfigCreate
  <2>2. hpc[p] = "config" /\ hpc' = [hpc EXCEPT ![p] = "write"] /\ derived' = derived
    BY <1>5 DEF ConfigCreate, Goto
  <2>3. stamp[p] = Absent /\ configs'[s] = Part(p) /\ stamp'[p] = s /\ hpc'[p] = "write"
    BY <1>0, <1>1, <2>1, <2>2
  <2>4. For(p)'
    BY <2>3, PartWhole
  <2>5. ASSUME NEW r \in Posts \ {p}
        PROVE  For(r)'
    <3>1. hpc'[r] = hpc[r] /\ stamp'[r] = stamp[r] /\ derived'[r] = derived[r] /\ For(r)
      BY <1>0, <1>1, <2>1, <2>2
    <3>2. stamp[r] \in Stamps => configs'[stamp[r]] \in {configs[stamp[r]], Part(p)}
      BY <1>0, <2>1
    <3>3. Alone(r)' /\ stamp[r] # Absent => Alone(r) /\ stamp[r] # s
      BY <1>0, <2>1, <2>3, <3>1 DEF Alone
    <3>4. stamp[r] # s => configs'[stamp[r]] = configs[stamp[r]]
      BY <1>0, <2>1
    <3> QED
      BY <3>1, <3>2, <3>3, <3>4, PartWhole
  <2> QED
    BY <2>4, <2>5 DEF Configured
<1>6. ASSUME NEW p \in Posts, ConfigDone(p)
      PROVE  Configured'
  <2>1. /\ hpc[p] = "write" /\ hpc' = [hpc EXCEPT ![p] = "parse"]
        /\ UNCHANGED <<stamp, derived>>
        /\ \E c \in Written(configs[stamp[p]], p) :
              configs' = [configs EXCEPT ![stamp[p]] = c]
    BY <1>6 DEF ConfigDone, Goto
  <2>2. stamp[p] \in Stamps /\ configs[stamp[p]] \in [of : Posts, whole : BOOLEAN]
    BY <1>1, <2>1
  <2>3. PICK c \in Written(configs[stamp[p]], p) : configs' = [configs EXCEPT ![stamp[p]] = c]
    BY <2>1
  <2>4. c \in [of : Posts, whole : BOOLEAN] /\ configs'[stamp[p]] = c
    BY <1>0, <2>2, <2>3, PartWhole DEF Written
  <2>5. ASSUME NEW r \in Posts \ {p}
        PROVE  For(r)'
    <3>1. hpc'[r] = hpc[r] /\ For(r) /\ stamp' = stamp /\ derived' = derived
      BY <1>0, <1>1, <2>1
    <3>2. stamp[r] # stamp[p] => configs'[stamp[r]] = configs[stamp[r]]
      BY <1>0, <2>3
    <3>3. Alone(r) => stamp[r] # stamp[p]
      BY DEF Alone
    <3>4. Alone(r)' <=> Alone(r)
      BY <3>1 DEF Alone
    <3> QED
      BY <2>4, <3>1, <3>2, <3>3, <3>4
  <2>6. For(p)'
    <3>1. hpc'[p] = "parse" /\ stamp' = stamp
      BY <1>0, <2>1
    <3>2. Alone(p)' <=> Alone(p)
      BY <3>1 DEF Alone
    <3>3. Alone(p) /\ stamp[p] # Absent => c = Whole(p)
      BY <1>1, <2>1, <2>3 DEF Written
    <3> QED
      BY <2>2, <2>4, <3>1, <3>2, <3>3
  <2> QED
    BY <2>5, <2>6 DEF Configured
<1>7. ASSUME NEW p \in Posts, Parse(p)
      PROVE  Configured'
  <2>1. /\ hpc[p] = "parse" /\ hpc' = [hpc EXCEPT ![p] = "queued"]
        /\ UNCHANGED <<configs, stamp>>
        /\ derived' = [derived EXCEPT ![p] = IF configs[stamp[p]].whole
                                             THEN configs[stamp[p]].of ELSE Absent]
    BY <1>7 DEF Parse, Goto, edgeFiles
  <2>2. configs[stamp[p]] = Whole(p) => derived'[p] = p
    BY <1>0, <2>1, PartWhole
  <2>3. \A r \in Posts \ {p} : hpc'[r] = hpc[r] /\ derived'[r] = derived[r]
    BY <1>0, <2>1
  <2>4. hpc'[p] = "queued"
    BY <1>0, <2>1
  <2> QED
    BY <1>1, <2>1, <2>2, <2>3, <2>4 DEF Configured, Alone
<1> QED
  BY <1>3, <1>4, <1>5, <1>6, <1>7 DEF Edge

-------------------------------------------------------------------------------
(* The worker *)

LogEntries == ToSet(OldLogs) \cup Posts

WorkerTypes ==
    /\ queue \subseteq Posts
    /\ wpc \in {"idle", "resources", "fetching", "chmod", "prepare", "download",
                "convert", "start", "run"}
    /\ cur \in Posts \cup {Absent}
    /\ dl \in Contents \cup {Absent}
    /\ input \in LocalNames \cup {Absent}
    /\ wdir \in [LocalNames -> Contents \cup {Absent}]
    /\ present \subseteq Resources
    /\ complete \subseteq Resources
    /\ executable \subseteq Resources
    /\ logs \in Seq(LogEntries)
    /\ crashed \subseteq Posts
    /\ cur = Absent <=> wpc = "idle"
    /\ dl # Absent <=> wpc = "download"
    /\ input # Absent <=> wpc \in {"download", "convert", "start", "run"}

\* Only jobs that are queued reach the worker, and their local files are the
\* users' or their own.
Tasks ==
    /\ \A p \in queue : hpc[p] = "queued"
    /\ cur # Absent => hpc[cur] = "queued"
    /\ input # Absent => input[1] \in Movies \cup {cur}
    /\ wpc = "download" => input[1] = cur
    /\ wpc = "convert" => wdir[input] \in Contents

\* Only what has arrived as a whole becomes executable.
Programs ==
    /\ executable \subseteq complete
    /\ wpc = "chmod" => "binary" \in complete
    /\ wpc = "run" => "binary" \in executable

\* The edge's file on its way to the command.
OwnFile ==
    cur # Absent /\ Fetched(cur) =>
        /\ wpc = "download" => dl = Whole(cur)
        /\ wpc \in {"convert", "start", "run"} => wdir[input] = Whole(cur)

WorkerInv == WorkerTypes /\ Tasks /\ Programs /\ OwnFile /\ NoLeftovers

IInv == EdgeInv /\ WorkerInv

LEMMA WorkerInit == Init => WorkerInv
<1> SUFFICES ASSUME Init PROVE WorkerInv
  OBVIOUS
<1>1. logs \in Seq(LogEntries)
  BY DEF Init, LogEntries, ToSet
<1>2. wdir \in [LocalNames -> Contents \cup {Absent}]
  BY NamesTypes DEF Init, Owners
<1>3. WorkerTypes
  BY <1>1, <1>2 DEF Init, WorkerTypes
<1>4. NoLeftovers
  BY NamesTypes DEF Init, NoLeftovers
<1> QED
  BY <1>3, <1>4 DEF Init, WorkerInv, Tasks, Programs, OwnFile

\* A task that ends takes its files with it.
LEMMA FinishStep ==
    ASSUME IInv, wpc # "idle", Finish, UNCHANGED <<files, handlers, queue, programs, crashed>>,
           logs' \in Seq(LogEntries)
    PROVE  WorkerInv'
<1>1. /\ wdir' = Cleaned(wdir) /\ wpc' = "idle" /\ cur' = Absent
      /\ dl' = Absent /\ input' = Absent
  BY DEF Finish
<1>2. wdir' \in [LocalNames -> Contents \cup {Absent}]
  BY <1>1 DEF IInv, WorkerInv, WorkerTypes, Cleaned
<1>3. NoLeftovers'
  <2> SUFFICES ASSUME NEW p \in Posts, NEW k \in Kinds, wdir'[<<p, k>>] # Absent
               PROVE  p \in crashed
    BY DEF NoLeftovers
  <2>1. wdir'[<<p, k>>] = IF p = cur THEN Absent ELSE wdir[<<p, k>>]
    BY <1>1, NamesTypes DEF Cleaned
  <2> QED
    BY <2>1 DEF IInv, WorkerInv, NoLeftovers
<1> QED
  BY <1>1, <1>2, <1>3
     DEF IInv, WorkerInv, WorkerTypes, Tasks, Programs, OwnFile, programs, handlers

\* A step before the job's file is touched, and the programs with it.
LEMMA ProgramStep ==
    ASSUME IInv, ResourcesDone \/ ResourceCreate \/ ResourceDone \/ Chmod \/ ResourceCut
    PROVE  WorkerInv'
<1>1. /\ UNCHANGED <<files, configs, handlers, queue, cur, dl, input, wdir, logs, crashed>>
      /\ wpc \in {"resources", "fetching", "chmod"}
      /\ wpc' \in {"resources", "fetching", "chmod", "prepare"}
      /\ present' \subseteq Resources
      /\ complete' \subseteq Resources /\ complete \subseteq complete'
      /\ executable' \subseteq complete'
      /\ wpc' = "chmod" => "binary" \in complete'
  BY DEF ResourcesDone, ResourceCreate, ResourceDone, Chmod, ResourceCut, disk, programs,
         edgeFiles, Resources, IInv, WorkerInv, WorkerTypes, Programs
<1> QED
  BY <1>1 DEF IInv, WorkerInv, WorkerTypes, Tasks, Programs, OwnFile, NoLeftovers,
              handlers, Fetched

LEMMA TakeStep == ASSUME IInv, NEW p \in Posts, Take(p) PROVE WorkerInv'
<1>1. /\ UNCHANGED <<files, configs, hpc, job, dl, input, wdir, programs, logs, crashed>>
      /\ wpc = "idle" /\ wpc' = "resources" /\ cur' = p /\ p \in queue
      /\ queue' = queue \ {p} /\ cur = Absent
  BY DEF Take, disk, edgeFiles, handlers, IInv, WorkerInv, WorkerTypes
<1> QED
  BY <1>1 DEF IInv, WorkerInv, WorkerTypes, Tasks, Programs, OwnFile, NoLeftovers, programs

LEMMA CrashStep == ASSUME IInv, Crash PROVE WorkerInv'
<1>1. /\ UNCHANGED <<files, configs, hpc, job, queue, wdir, programs, logs>>
      /\ wpc # "idle" /\ wpc' = "idle" /\ cur' = Absent /\ dl' = Absent /\ input' = Absent
      /\ crashed' = crashed \cup {cur} /\ cur \in Posts
  BY DEF Crash, disk, edgeFiles, handlers, IInv, WorkerInv, WorkerTypes
<1> QED
  BY <1>1 DEF IInv, WorkerInv, WorkerTypes, Tasks, Programs, OwnFile, NoLeftovers, programs

\* The job that the worker has, and what the edge has for it.
LEMMA CurrentJob ==
    ASSUME IInv, cur # Absent
    PROVE  /\ cur \in Posts /\ job[cur] \in Jobs
           /\ job[cur].from = "local" => job[cur].name[1] \in Movies
           /\ Fetched(cur) => files[job[cur].name] = Whole(cur)
  BY DEF IInv, WorkerInv, WorkerTypes, Tasks, EdgeInv, Hosted, HostedFor

LEMMA DownloadStep == ASSUME IInv, Download PROVE WorkerInv'
<1> DEFINE n == <<cur, job[cur].name[2]>>
           source == files[job[cur].name]
<1>1. /\ UNCHANGED <<files, configs, handlers, queue, programs, logs, crashed>>
      /\ wpc = "prepare" /\ cur \in Posts /\ job[cur].from = "url"
      /\ Finish \/ (/\ source # Absent /\ dl' = source /\ input' = n
                    /\ wdir' = [wdir EXCEPT ![n] = Part(source.of)]
                    /\ wpc' = "download" /\ cur' = cur)
  BY DEF Download, edgeFiles, IInv, WorkerInv, WorkerTypes
<1>2. CASE Finish
  BY <1>1, <1>2, FinishStep DEF IInv, WorkerInv, WorkerTypes
<1>3. CASE ~Finish
  <2>1. /\ cur # Absent /\ job[cur].name \in EdgeNames /\ n \in LocalNames /\ n # Absent
        /\ n[1] = cur
    BY <1>1, CurrentJob, JobTypes, NamesTypes
  <2>2. source \in Contents
    BY <1>1, <1>3, <2>1 DEF IInv, EdgeInv, EdgeTypes
  <2>3. Part(source.of) \in Contents
    BY <2>2, NamesTypes DEF Contents
  <2>4. wdir' \in [LocalNames -> Contents \cup {Absent}]
    BY <1>1, <1>3, <2>3 DEF IInv, WorkerInv, WorkerTypes
  <2>5. \A p \in Posts \ {cur}, k \in Kinds : wdir'[<<p, k>>] = wdir[<<p, k>>]
    BY <1>1, <1>3, NamesTypes DEF IInv, WorkerInv, WorkerTypes
  <2>6. NoLeftovers'
    BY <1>1, <1>3, <2>5 DEF IInv, WorkerInv, NoLeftovers
  <2>7. Fetched(cur) => source = Whole(cur)
    BY <2>1, CurrentJob
  <2>8. WorkerTypes'
    BY <1>1, <1>3, <2>1, <2>2, <2>4 DEF IInv, WorkerInv, WorkerTypes, programs
  <2>9. Tasks' /\ Programs' /\ OwnFile'
    BY <1>1, <1>3, <2>1, <2>7
       DEF IInv, WorkerInv, Tasks, Programs, OwnFile, Fetched, programs, handlers
  <2> QED
    BY <2>6, <2>8, <2>9 DEF WorkerInv
<1> QED
  BY <1>2, <1>3

LEMMA DownloadDoneStep == ASSUME IInv, DownloadDone PROVE WorkerInv'
<1>1. /\ UNCHANGED <<files, configs, handlers, queue, cur, input, programs, logs, crashed>>
      /\ wpc = "download" /\ wpc' \in {"convert", "start"} /\ dl' = Absent
      /\ cur \in Posts /\ dl \in Contents /\ input \in LocalNames /\ input[1] = cur
  BY DEF DownloadDone, edgeFiles, IInv, WorkerInv, WorkerTypes, Tasks
<1>2. PICK c \in IF files[job[cur].name] = dl THEN {dl} ELSE {dl, Part(dl.of)} :
             wdir' = [wdir EXCEPT ![input] = c]
  BY DEF DownloadDone
<1>3. c \in Contents
  BY <1>1, <1>2, NamesTypes DEF Contents
<1>4. Fetched(cur) => c = Whole(cur)
  BY <1>1, <1>2, CurrentJob DEF IInv, WorkerInv, OwnFile
<1>5. /\ wdir' \in [LocalNames -> Contents \cup {Absent}]
      /\ wdir'[input] = c
      /\ \A p \in Posts \ {cur}, k \in Kinds : wdir'[<<p, k>>] = wdir[<<p, k>>]
  BY <1>1, <1>2, <1>3, NamesTypes DEF IInv, WorkerInv, WorkerTypes
<1>6. NoLeftovers'
  BY <1>1, <1>5 DEF IInv, WorkerInv, NoLeftovers
<1>7. WorkerTypes'
  BY <1>1, <1>5 DEF IInv, WorkerInv, WorkerTypes, programs
<1>8. Tasks' /\ Programs' /\ OwnFile'
  BY <1>1, <1>3, <1>4, <1>5 DEF IInv, WorkerInv, Tasks, Programs, OwnFile, Fetched, programs, handlers
<1> QED
  BY <1>6, <1>7, <1>8 DEF WorkerInv

LEMMA UseLocalStep == ASSUME IInv, UseLocal PROVE WorkerInv'
<1>1. /\ UNCHANGED <<files, configs, handlers, queue, programs, logs, crashed>>
      /\ wpc = "prepare" /\ cur \in Posts /\ job[cur].from = "local"
      /\ Finish \/ (/\ input' = job[cur].name /\ wpc' \in {"convert", "start"}
                    /\ wdir[job[cur].name] # Absent
                    /\ UNCHANGED <<cur, dl, wdir>>)
  BY DEF UseLocal, edgeFiles, IInv, WorkerInv, WorkerTypes
<1>2. CASE Finish
  BY <1>1, <1>2, FinishStep DEF IInv, WorkerInv, WorkerTypes
<1>3. CASE ~Finish
  <2>1. /\ job[cur].name \in LocalNames /\ job[cur].name # Absent
        /\ job[cur].name[1] \in Movies /\ cur # Absent
    BY <1>1, CurrentJob, JobTypes, NamesTypes
  <2>2. ~Fetched(cur)
    BY <1>1 DEF Fetched
  <2>3. wdir[job[cur].name] \in Contents
    BY <1>1, <1>3, <2>1 DEF IInv, WorkerInv, WorkerTypes
  <2> QED
    BY <1>1, <1>3, <2>1, <2>2, <2>3
       DEF IInv, WorkerInv, WorkerTypes, Tasks, Programs, OwnFile, NoLeftovers, Fetched,
           programs, handlers
<1> QED
  BY <1>2, <1>3

\* A conversion touches files of the task or of users only.
LEMMA ConvertTypes ==
    ASSUME IInv, wpc = "convert"
    PROVE  /\ input \in LocalNames /\ Output \in LocalNames /\ Output # Absent
           /\ cur \in Posts /\ Output[1] \in Movies \cup {cur} /\ Output[1] = input[1]
           /\ <<input[1], "mp4">> # Output
           /\ \A p \in Posts \ {cur}, k \in Kinds :
                 <<p, k>> # <<input[1], "mp4">> /\ <<p, k>> # Output
<1>1. /\ input \in LocalNames /\ input[1] \in Movies \cup {cur} /\ cur \in Posts
  BY DEF IInv, WorkerInv, WorkerTypes, Tasks
<1>2. input[1] \in Posts \cup Movies /\ Output[1] = input[1] /\ Output[2] = "h264"
  BY <1>1, NamesTypes DEF Output
<1>3. Output \in LocalNames
  BY <1>2, NamesTypes DEF Output, LocalNames, Kinds
<1>4. ASSUME NEW p \in Posts \ {cur}, NEW k \in Kinds
      PROVE  <<p, k>> # <<input[1], "mp4">> /\ <<p, k>> # Output
  <2>1. <<p, k>>[1] = p /\ p \notin Movies /\ <<input[1], "mp4">>[1] = input[1]
    OBVIOUS
  <2> QED
    BY <1>1, <1>2, <2>1
<1>5. <<input[1], "mp4">> # Output
  BY DEF Output
<1> QED
  BY <1>1, <1>2, <1>3, <1>4, <1>5, NamesTypes

LEMMA ConvertStep == ASSUME IInv, Convert \/ ConvertFails PROVE WorkerInv'
<1>1. /\ UNCHANGED <<files, configs, handlers, queue, cur, dl, programs, logs, crashed>>
      /\ wpc = "convert" /\ wpc' = "start" /\ cur # Absent
  BY DEF Convert, ConvertFails, edgeFiles, IInv, WorkerInv, WorkerTypes
<1>2. wdir[input] \in Contents \cup {Absent} /\ wdir \in [LocalNames -> Contents \cup {Absent}]
  BY <1>1, ConvertTypes DEF IInv, WorkerInv, WorkerTypes
<1>3. /\ \A p \in Posts \ {cur}, k \in Kinds : wdir'[<<p, k>>] = wdir[<<p, k>>]
      /\ wdir' \in [LocalNames -> Contents \cup {Absent}]
      /\ wdir'[input'] = wdir[input]
      /\ input' \in LocalNames /\ input' # Absent /\ input'[1] \in Movies \cup {cur}
  <2>1. CASE Convert
    <3>1. /\ wdir' = [wdir EXCEPT ![Output] = wdir[input], ![<<input[1], "mp4">>] = Absent]
          /\ input' = Output
      BY <2>1 DEF Convert
    <3> QED
      BY <1>1, <1>2, <3>1, ConvertTypes, NamesTypes
  <2>2. CASE ConvertFails
    <3>1. input' = input
      BY <2>2 DEF ConvertFails
    <3>0. /\ wdir[input] \in Contents
          /\ input \in LocalNames /\ input # Absent /\ input[1] \in Movies \cup {cur}
      BY <1>1, ConvertTypes DEF IInv, WorkerInv, WorkerTypes, Tasks
    <3>2. CASE wdir' = wdir
      BY <1>2, <3>0, <3>1, <3>2
    <3>3. CASE wdir[Output] = Absent /\ wdir' = [wdir EXCEPT ![Output] = Part(wdir[input].of)]
      <4>3. Output \in LocalNames /\ Output # input
        BY <1>1, <3>0, <3>3, ConvertTypes, NamesTypes
      <4>1. Part(wdir[input].of) \in Contents
        <5>1. wdir[input].of \in Owners
          BY <3>0 DEF Contents
        <5> QED
          BY <5>1, NamesTypes
      <4>2. \A p \in Posts \ {cur}, k \in Kinds : <<p, k>> # Output
        BY <1>1, ConvertTypes
      <4> QED
        BY <1>2, <3>0, <3>1, <3>3, <4>1, <4>2, <4>3
    <3> QED
      BY <2>2, <3>2, <3>3 DEF ConvertFails
  <2> QED
    BY <2>1, <2>2
<1>4. NoLeftovers'
  BY <1>1, <1>3 DEF IInv, WorkerInv, NoLeftovers
<1>5. WorkerTypes'
  BY <1>1, <1>3 DEF IInv, WorkerInv, WorkerTypes, programs
<1>6. Tasks' /\ Programs' /\ OwnFile'
  <2>1. CASE Convert
    <3>1. Fetched(cur) => wdir[input] = Whole(cur)
      BY <1>1 DEF IInv, WorkerInv, OwnFile
    <3> QED
      BY <1>1, <1>3, <3>1 DEF IInv, WorkerInv, Tasks, Programs, OwnFile, Fetched, programs, handlers
  <2>2. CASE ConvertFails
    <3>1. Fetched(cur) => wdir[input] = Whole(cur)
      BY <1>1 DEF IInv, WorkerInv, OwnFile
    <3> QED
      BY <1>1, <1>3, <3>1 DEF IInv, WorkerInv, Tasks, Programs, OwnFile, Fetched, programs, handlers
  <2> QED
    BY <2>1, <2>2
<1> QED
  BY <1>4, <1>5, <1>6 DEF WorkerInv

LEMMA StartStep == ASSUME IInv, Start PROVE WorkerInv'
<1>1. /\ UNCHANGED <<files, configs, handlers, queue, programs, crashed>>
      /\ wpc = "start" /\ cur \in Posts /\ cur # Absent
      /\ logs' = Append(rotateLogs(logs), cur)
      /\ Finish \/ (/\ "binary" \in executable /\ wpc' = "run"
                    /\ UNCHANGED <<cur, dl, input, wdir>>)
  BY DEF Start, edgeFiles, IInv, WorkerInv, WorkerTypes
<1>2. logs' \in Seq(LogEntries)
  <2>1. logs \in Seq(LogEntries) /\ Keep \in Nat /\ cur \in LogEntries
    BY <1>1 DEF IInv, WorkerInv, WorkerTypes, LogEntries
  <2>2. rotateLogs(logs) \in Seq(LogEntries)
    BY <2>1 DEF rotateLogs
  <2> QED
    BY <1>1, <2>1, <2>2
<1>3. CASE Finish
  BY <1>1, <1>2, <1>3, FinishStep
<1>4. CASE ~Finish
  BY <1>1, <1>2, <1>4
     DEF IInv, WorkerInv, WorkerTypes, Tasks, Programs, OwnFile, NoLeftovers, Fetched,
         programs, handlers
<1> QED
  BY <1>3, <1>4

LEMMA WorkerStep == ASSUME IInv, Worker PROVE WorkerInv' /\ EdgeInv'
<1>1. UNCHANGED <<edgeFiles, handlers>>
  BY DEF Worker, Local, Take, ResourcesDone, Chmod, Download, DownloadFails, UseLocal,
         Convert, ConvertFails, Start, End, ResourceCreate, ResourceDone, ResourceCut,
         DownloadDone, Crash
<1>2. EdgeInv'
  BY <1>1 DEF IInv, EdgeInv, EdgeTypes, Hosted, HostedFor, Configured, Alone, Fetched,
              edgeFiles, handlers
<1>3. CASE DownloadFails \/ End
  <2>1. /\ Finish /\ wpc # "idle" /\ logs' = logs
        /\ UNCHANGED <<files, handlers, queue, programs, crashed>>
    BY <1>3 DEF DownloadFails, End, edgeFiles
  <2>2. logs' \in Seq(LogEntries)
    BY <2>1 DEF IInv, WorkerInv, WorkerTypes
  <2> QED
    BY <1>2, <2>1, <2>2, FinishStep
<1> QED
  BY <1>2, <1>3, TakeStep, ProgramStep, DownloadStep, UseLocalStep, ConvertStep, StartStep,
     DownloadDoneStep, CrashStep
     DEF Worker, Local

-------------------------------------------------------------------------------
(* Both *)

\* A handler that has queued its job is done; the others may queue theirs.
LEMMA QueuedStay ==
    ASSUME IInv, Edge
    PROVE  /\ \A r \in Posts : hpc[r] = "queued" => hpc'[r] = "queued" /\ job'[r] = job[r]
           /\ \/ queue' = queue
              \/ \E p \in Posts : /\ queue' = queue \cup {p}
                                  /\ hpc[p] # "queued" /\ hpc'[p] = "queued"
<1>1. /\ hpc \in [Posts \cup Uploads ->
                    {"none", "fetch", "convert", "config", "write",
                     "parse", "queued", "refused", "done"}]
      /\ job \in [Posts -> Jobs \cup {Absent}]
  BY DEF IInv, EdgeInv, EdgeTypes
<1>2. \A r \in Posts : hpc[r] = "queued" => hpc'[r] = "queued" /\ job'[r] = job[r]
  <2>1. ASSUME NEW u \in Uploads, UploadCreate(u) \/ UploadDone(u)
        PROVE  \A r \in Posts : hpc'[r] = hpc[r] /\ job'[r] = job[r]
    BY <1>1, <2>1 DEF UploadCreate, UploadDone, Goto
  <2>2. ASSUME NEW p \in Posts,
               PostStored(p) \/ FetchCreate(p) \/ FetchDone(p) \/ FetchCut(p)
               \/ EdgeConvert(p) \/ ConfigCreate(p) \/ ConfigDone(p) \/ ConfigCut(p)
               \/ Parse(p) \/ NoConfig(p)
        PROVE  \A r \in Posts : hpc[r] = "queued" => hpc'[r] = "queued" /\ job'[r] = job[r]
    <3>1. hpc[p] # "queued"
      BY <2>2 DEF PostStored, FetchCreate, FetchDone, FetchCut, EdgeConvert,
            ConfigCreate, ConfigDone, ConfigCut, Parse, NoConfig
    <3>2. \E l : hpc' = [hpc EXCEPT ![p] = l]
      BY <2>2 DEF PostStored, FetchCreate, FetchDone, FetchCut, EdgeConvert,
            ConfigCreate, ConfigDone, ConfigCut, Parse, NoConfig, Goto
    <3>3. \A r \in Posts \ {p} : job'[r] = job[r]
      BY <1>1, <2>2 DEF PostStored, FetchCreate, FetchDone, FetchCut, EdgeConvert,
            ConfigCreate, ConfigDone, ConfigCut, Parse, NoConfig, handlers
    <3> QED
      BY <1>1, <3>1, <3>2, <3>3
  <2> QED
    BY <2>1, <2>2 DEF Edge
<1>3. \/ queue' = queue
      \/ \E p \in Posts : /\ queue' = queue \cup {p}
                           /\ hpc[p] # "queued" /\ hpc'[p] = "queued"
  BY <1>1 DEF Edge, UploadCreate, UploadDone, PostStored, FetchCreate, FetchDone, FetchCut,
         EdgeConvert, ConfigCreate, ConfigDone, ConfigCut, Parse, NoConfig, Goto
<1> QED
  BY <1>2, <1>3

\* The edge leaves the worker alone, and its jobs as they were queued.
LEMMA EdgeKeepsWorker == ASSUME IInv, Edge PROVE WorkerInv'
<1>1. UNCHANGED <<process, disk, crashed>>
  BY DEF Edge, UploadCreate, UploadDone, PostStored, FetchCreate, FetchDone, FetchCut,
         EdgeConvert, ConfigCreate, ConfigDone, ConfigCut, Parse, NoConfig
<1>2. cur # Absent => cur \in Posts /\ hpc[cur] = "queued" /\ hpc'[cur] = "queued"
                      /\ job'[cur] = job[cur]
  BY QueuedStay DEF IInv, WorkerInv, WorkerTypes, Tasks
<1>3. queue' \subseteq Posts /\ \A p \in queue' : hpc'[p] = "queued"
  BY QueuedStay DEF IInv, WorkerInv, WorkerTypes, Tasks
<1> QED
  BY <1>1, <1>2, <1>3
     DEF IInv, WorkerInv, WorkerTypes, Tasks, Programs, OwnFile, NoLeftovers, Fetched,
         process, disk, programs

LEMMA InvStep == IInv /\ [Next]_vars => IInv'
<1> SUFFICES ASSUME IInv, [Next]_vars PROVE IInv'
  OBVIOUS
<1>1. CASE UNCHANGED vars
  <2>1. EdgeInv'
    BY <1>1 DEF vars, IInv, EdgeInv, EdgeTypes, Hosted, HostedFor, Configured, Alone, Fetched,
                edgeFiles, handlers
  <2>2. WorkerInv'
    BY <1>1 DEF vars, IInv, WorkerInv, WorkerTypes, Tasks, Programs, OwnFile, NoLeftovers,
                Fetched, process, disk, programs, handlers
  <2> QED
    BY <2>1, <2>2 DEF IInv
<1>2. CASE Edge
  BY <1>2, EdgeTypesStep, HostedStep, ConfiguredStep, EdgeKeepsWorker DEF IInv, EdgeInv
<1>3. CASE Worker
  BY <1>3, WorkerStep DEF IInv
<1> QED
  BY <1>1, <1>2, <1>3 DEF Next

LEMMA InvHolds == Spec => []IInv
<1>1. Init => IInv
  BY EdgeInit, WorkerInit DEF IInv
<1> QED
  BY <1>1, InvStep, PTL DEF Spec

\* Every variable keeps its type, and every step of a task its place.
THEOREM TypeCorrect == Spec => []TypeOK
<1>1. IInv => TypeOK
  BY DEF IInv, EdgeInv, EdgeTypes, WorkerInv, WorkerTypes, TypeOK, LogEntries
<1> QED
  BY <1>1, InvHolds, PTL

\* A job for which the edge has fetched a file runs on the whole of that file,
\* converted or not, with all of its program.
THEOREM RunsOnOwnFile == Spec => []RunsOnItsFile
<1>1. IInv => RunsOnItsFile
  BY DEF IInv, WorkerInv, WorkerTypes, Programs, OwnFile, Fetched, RunsOnItsFile, Running
<1> QED
  BY <1>1, InvHolds, PTL

\* What the edge has fetched for a queued job stays whole on the edge.
THEOREM HostedStay == Spec => []HostedFilesStay
<1>1. IInv => HostedFilesStay
  BY DEF IInv, EdgeInv, Hosted, HostedFor, Fetched, HostedFilesStay
<1> QED
  BY <1>1, InvHolds, PTL

\* A job is scheduled by its own configuration unless two stamps are the same.
THEOREM Requirements == Spec => []OwnRequirements
<1>1. IInv => OwnRequirements
  BY DEF IInv, EdgeInv, Configured, Alone, OwnRequirements
<1> QED
  BY <1>1, InvHolds, PTL

\* The worker's directory keeps nothing of a task that has ended.
THEOREM Cleanup == Spec => []NoLeftovers
  BY InvHolds, PTL DEF IInv, WorkerInv

\* What users have put on the worker is not written again, and all that can go
\* is the .mp4 beside a file that has just been converted.
THEOREM UsersFiles == Spec => UsersFilesStay
<1> DEFINE Allowed(n) ==
       /\ wpc = "convert" /\ n = <<input[1], "mp4">> /\ wdir'[n] = Absent
       /\ wdir[Output] = Absent /\ wdir'[Output] = wdir[input]
<1>1. ASSUME IInv, [Next]_vars, NEW n \in Movies \X Kinds, wdir[n] # Absent, wdir'[n] # wdir[n]
      PROVE  Allowed(n)
  <2>0. /\ n \in LocalNames /\ n[1] \in Movies
        /\ wdir \in [LocalNames -> Contents \cup {Absent}]
        /\ wdir' # wdir
    BY <1>1, NamesTypes DEF IInv, WorkerInv, WorkerTypes
  <2>1. CASE Finish
    BY <1>1, <2>0, <2>1 DEF Finish, Cleaned, IInv, WorkerInv, WorkerTypes
  <2>2. CASE ~Finish /\ Download
    <3>1. PICK k, c : wdir' = [wdir EXCEPT ![<<cur, k>>] = c]
      BY <2>2 DEF Download
    <3>2. cur \notin Movies
      <4>1. wpc = "prepare"
        BY <2>2 DEF Download
      <4>2. cur \in Posts
        BY <1>1, <4>1 DEF IInv, WorkerInv, WorkerTypes
      <4> QED
        BY <4>2
    <3> QED
      BY <1>1, <2>0, <3>1, <3>2
  <2>3. CASE DownloadDone
    BY <1>1, <2>0, <2>3 DEF DownloadDone, IInv, WorkerInv, WorkerTypes, Tasks
  <2>4. CASE Convert
    <3>1. /\ wpc = "convert" /\ wdir[Output] = Absent
          /\ wdir' = [wdir EXCEPT ![Output] = wdir[input], ![<<input[1], "mp4">>] = Absent]
      BY <2>4 DEF Convert
    <3>2. n # Output
      BY <1>1, <3>1
    <3>3. n = <<input[1], "mp4">> /\ wdir'[n] = Absent
      BY <1>1, <2>0, <3>1, <3>2
    <3>4. wdir'[Output] = wdir[input]
      BY <1>1, <2>0, <3>1, ConvertTypes
    <3> QED
      BY <3>1, <3>3, <3>4
  <2>6. CASE ConvertFails
    BY <1>1, <2>0, <2>6 DEF ConvertFails
  <2>5. Download \/ DownloadDone \/ Convert \/ ConvertFails \/ Finish
    BY <1>1, <2>0 DEF Next, Edge, Worker, Local, Take, ResourcesDone, Chmod, DownloadFails,
         UseLocal, Start, End, ResourceCreate, ResourceDone, ResourceCut, Crash,
         UploadCreate, UploadDone, PostStored, FetchCreate, FetchDone, FetchCut,
         EdgeConvert, ConfigCreate, ConfigDone, ConfigCut, Parse, NoConfig, disk, vars
  <2> QED
    BY <2>1, <2>2, <2>3, <2>4, <2>5, <2>6
<1>2. IInv /\ [Next]_vars =>
          [\A n \in Movies \X Kinds :
              wdir[n] # Absent /\ wdir'[n] # wdir[n] => Allowed(n)]_vars
  BY <1>1
<1> QED
  BY <1>2, InvHolds, PTL DEF Spec, UsersFilesStay
-------------------------------------------------------------------------------
(* The logs *)

\* What the directory has of a task is the log of its only start.
Started(p) == hpc[p] = "queued" /\ p \notin queue /\ (p = cur => wpc = "run")

LogsInv ==
    /\ IsInjective(logs)
    /\ \A p \in Posts \cap ToSet(logs) : Started(p)
    /\ cur \notin queue

\* rotateLogs drops a prefix, and leaves no more than Keep.
LEMMA Rotated ==
    ASSUME NEW S, NEW s \in Seq(S)
    PROVE  /\ rotateLogs(s) \in Seq(S) /\ Len(rotateLogs(s)) <= Keep
           /\ \E d \in 0..Len(s) : /\ Len(rotateLogs(s)) = Len(s) - d
                                   /\ \A i \in 1..(Len(s) - d) : rotateLogs(s)[i] = s[i + d]
<1>1. CASE Len(s) <= Keep
  <2>1. rotateLogs(s) = s
    BY <1>1 DEF rotateLogs
  <2>2. /\ 0 \in 0..Len(s) /\ Len(rotateLogs(s)) = Len(s) - 0
        /\ \A i \in 1..(Len(s) - 0) : rotateLogs(s)[i] = s[i + 0]
    BY <2>1
  <2>3. rotateLogs(s) \in Seq(S) /\ Len(rotateLogs(s)) <= Keep
    BY <1>1, <2>1
  <2> QED
    BY <2>2, <2>3, Zenon
<1>2. CASE ~(Len(s) <= Keep)
  <2> DEFINE d == Len(s) - Keep
  <2>1. rotateLogs(s) = SubSeq(s, d + 1, Len(s))
    BY <1>2 DEF rotateLogs
  <2>2. d \in 0..Len(s) /\ Keep = Len(s) - d /\ Len(s) \in Nat
    BY <1>2
  <2>3. \A i \in (d + 1)..Len(s) : s[i] \in S
    BY <2>2
  <2> HIDE DEF d
  <2>4. /\ SubSeq(s, d + 1, Len(s)) \in Seq(S)
        /\ Len(SubSeq(s, d + 1, Len(s))) = IF d + 1 <= Len(s) THEN Len(s) - (d + 1) + 1 ELSE 0
        /\ \A i \in 1..(Len(s) - (d + 1) + 1) : SubSeq(s, d + 1, Len(s))[i] = s[(d + 1) + i - 1]
    BY <2>2, <2>3, SubSeqProperties
  <2>5. \A i \in 1..(Len(s) - d) : rotateLogs(s)[i] = s[i + d]
    BY <2>1, <2>2, <2>4
  <2>6. Len(rotateLogs(s)) = Len(s) - d
    BY <2>1, <2>2, <2>4
  <2>7. rotateLogs(s) \in Seq(S) /\ Len(rotateLogs(s)) <= Keep /\ d \in 0..Len(s)
    BY <2>1, <2>2, <2>4, <2>6
  <2> QED
    BY <2>5, <2>6, <2>7, Zenon
<1> QED
  BY <1>1, <1>2

\* The logs after Start: a suffix of those before it, and the new one.
LEMMA StartLogs ==
    ASSUME IInv, Start
    PROVE  /\ Len(logs') <= Keep + 1
           /\ \E d \in 0..Len(logs) :
                 /\ Len(logs') = Len(logs) - d + 1
                 /\ logs'[Len(logs) - d + 1] = cur
                 /\ \A i \in 1..(Len(logs) - d) : logs'[i] = logs[i + d]
<1>1. /\ logs \in Seq(LogEntries) /\ cur \in LogEntries /\ Len(logs) \in Nat
      /\ logs' = Append(rotateLogs(logs), cur)
  BY DEF IInv, WorkerInv, WorkerTypes, Start, LogEntries
<1>2. PICK d \in 0..Len(logs) :
             /\ Len(rotateLogs(logs)) = Len(logs) - d
             /\ \A i \in 1..(Len(logs) - d) : rotateLogs(logs)[i] = logs[i + d]
  BY <1>1, Rotated
<1>3. rotateLogs(logs) \in Seq(LogEntries) /\ Len(rotateLogs(logs)) <= Keep
  BY <1>1, Rotated
<1>4. /\ Len(logs') = Len(rotateLogs(logs)) + 1
      /\ \A i \in 1..Len(rotateLogs(logs)) : logs'[i] = rotateLogs(logs)[i]
      /\ logs'[Len(rotateLogs(logs)) + 1] = cur
  BY <1>1, <1>3, AppendProperties
<1> QED
  BY <1>1, <1>2, <1>3, <1>4

LEMMA LogsInit == Init => LogsInv
  BY LogNamesAssumption DEF Init, LogsInv

LEMMA StartKeepsLogs == ASSUME IInv, LogsInv, Start PROVE LogsInv'
<1>1. /\ cur \in Posts /\ wpc = "start" /\ UNCHANGED <<hpc, queue>>
      /\ logs \in Seq(LogEntries) /\ Len(logs) \in Nat /\ DOMAIN logs = 1..Len(logs)
      /\ logs' \in Seq(LogEntries) /\ DOMAIN logs' = 1..Len(logs')
      /\ cur' = Absent \/ (cur' = cur /\ wpc' = "run")
      /\ hpc[cur] = "queued" /\ Absent \notin Posts /\ queue \subseteq Posts
  BY StartStep DEF Start, Finish, handlers, IInv, WorkerInv, WorkerTypes, Tasks
<1>2. PICK d \in 0..Len(logs) :
             /\ Len(logs') = Len(logs) - d + 1
             /\ logs'[Len(logs) - d + 1] = cur
             /\ \A i \in 1..(Len(logs) - d) : logs'[i] = logs[i + d]
  BY StartLogs
<1>3. \A i \in DOMAIN logs : logs[i] # cur
  BY <1>1 DEF LogsInv, Started, ToSet
<1>4. IsInjective(logs')
  <2> SUFFICES ASSUME NEW i \in 1..Len(logs'), NEW k \in 1..Len(logs'), logs'[i] = logs'[k]
               PROVE  i = k
    BY <1>1 DEF IsInjective
  <2>1. CASE i \in 1..(Len(logs) - d) /\ k \in 1..(Len(logs) - d)
    <3>1. /\ i + d \in DOMAIN logs /\ k + d \in DOMAIN logs
          /\ logs[i + d] = logs[k + d]
      BY <1>1, <1>2, <2>1
    <3> QED
      BY <1>1, <3>1 DEF LogsInv, IsInjective
  <2>2. \A m \in 1..(Len(logs) - d) : m + d \in DOMAIN logs /\ logs'[m] # cur
    BY <1>1, <1>2, <1>3
  <2>3. \A m \in 1..Len(logs') : m \in 1..(Len(logs) - d) \/ m = Len(logs) - d + 1
    <3>1. \A l \in Nat : \A e \in 0..l : \A m \in 1..(l - e + 1) :
             m \in 1..(l - e) \/ m = l - e + 1
      OBVIOUS
    <3>2. Len(logs) \in Nat /\ Len(logs') = Len(logs) - d + 1
      BY <1>1, <1>2
    <3> QED
      BY <3>1, <3>2, Zenon
  <2>4. CASE i = Len(logs) - d + 1
    BY <1>2, <2>2, <2>3, <2>4
  <2>5. CASE k = Len(logs) - d + 1
    BY <1>2, <2>2, <2>3, <2>5
  <2>6. CASE i \in 1..(Len(logs) - d) /\ k \in 1..(Len(logs) - d)
    BY <2>1, <2>6
  <2> QED
    BY <2>3, <2>4, <2>5, <2>6, Zenon
<1>5. \A x \in ToSet(logs') : x = cur \/ x \in ToSet(logs)
  <2> SUFFICES ASSUME NEW i \in 1..Len(logs') PROVE logs'[i] = cur \/ logs'[i] \in ToSet(logs)
    BY <1>1 DEF ToSet
  <2>1. CASE i \in 1..(Len(logs) - d)
    <3>1. i + d \in DOMAIN logs /\ logs'[i] = logs[i + d]
      BY <1>1, <1>2, <2>1
    <3> QED
      BY <3>1 DEF ToSet
  <2> QED
    BY <1>1, <1>2, <2>1
<1>6. \A p \in Posts \cap ToSet(logs') : Started(p)'
  BY <1>1, <1>5 DEF LogsInv, Started
<1>7. cur' \notin queue'
  BY <1>1 DEF LogsInv
<1> QED
  BY <1>4, <1>6, <1>7 DEF LogsInv

\* Every other step leaves the logs and starts nothing.
LEMMA OthersKeepLogs ==
    ASSUME IInv, LogsInv, [Next]_vars, ~Start
    PROVE  LogsInv' /\ logs' = logs
<1>1. logs' = logs
  BY DEF Next, Edge, Worker, Local, vars, disk, programs,
         Take, ResourcesDone, Chmod, Download, DownloadFails, UseLocal, Convert,
         ConvertFails, End, ResourceCreate, ResourceDone, ResourceCut, DownloadDone, Crash,
         UploadCreate, UploadDone, PostStored, FetchCreate, FetchDone, FetchCut,
         EdgeConvert, ConfigCreate, ConfigDone, ConfigCut, Parse, NoConfig
<1>2. CASE Edge
  <2>0. /\ hpc \in [Posts \cup Uploads ->
                      {"none", "fetch", "convert", "config", "write",
                       "parse", "queued", "refused", "done"}]
        /\ cur # Absent => cur \in Posts /\ hpc[cur] = "queued"
        /\ Absent \notin Posts /\ queue \subseteq Posts
    BY DEF IInv, EdgeInv, EdgeTypes, WorkerInv, WorkerTypes, Tasks
  <2>1. UNCHANGED <<cur, wpc>>
    BY <1>2 DEF Edge, process, UploadCreate, UploadDone, PostStored, FetchCreate, FetchDone,
         FetchCut, EdgeConvert, ConfigCreate, ConfigDone, ConfigCut, Parse, NoConfig
  <2>2. /\ \A r \in Posts : hpc[r] = "queued" => hpc'[r] = "queued"
        /\ \/ queue' = queue
           \/ \E p \in Posts : queue' = queue \cup {p} /\ hpc[p] # "queued"
    BY <1>2, <2>0, QueuedStay
  <2>3. \A p \in Posts \cap ToSet(logs) : Started(p)'
    BY <2>1, <2>2 DEF LogsInv, Started
  <2>4. cur \notin queue'
    BY <2>0, <2>2 DEF LogsInv
  <2> QED
    BY <1>1, <2>1, <2>3, <2>4 DEF LogsInv
<1>3. ASSUME NEW p \in Posts, Take(p) PROVE LogsInv'
  <2>1. /\ p \in queue /\ cur' = p /\ queue' = queue \ {p} /\ hpc' = hpc /\ cur = Absent
    BY <1>3 DEF Take, handlers, IInv, WorkerInv, WorkerTypes
  <2> QED
    BY <1>1, <2>1 DEF LogsInv, Started
<1>4. CASE Worker /\ ~(\E p \in Posts : Take(p))
  <2>1. /\ UNCHANGED <<hpc, queue>>
        /\ cur' = Absent \/ (cur' = cur /\ (wpc = "run" => wpc' = "run"))
    BY <1>4 DEF Worker, Local, ResourcesDone, Chmod, Download, DownloadFails, UseLocal,
         Convert, ConvertFails, End, ResourceCreate, ResourceDone, ResourceCut,
         DownloadDone, Crash, Finish, handlers
  <2>2. queue \subseteq Posts /\ Absent \notin Posts
    BY DEF IInv, WorkerInv, WorkerTypes
  <2> QED
    BY <1>1, <2>1, <2>2 DEF LogsInv, Started
<1>5. CASE UNCHANGED vars
  BY <1>1, <1>5 DEF vars, handlers, process, LogsInv, Started
<1> QED
  BY <1>1, <1>2, <1>3, <1>4, <1>5 DEF Next

LEMMA LogsInvHolds == Spec => []LogsInv
<1>1. IInv /\ LogsInv /\ [Next]_vars => LogsInv'
  BY StartKeepsLogs, OthersKeepLogs
<1> QED
  BY <1>1, LogsInit, InvHolds, PTL DEF Spec

\* The directory never has more than Keep + 1 logs after a start, and a log goes
\* only when all of the older ones have gone.
THEOREM LogsAreKept == Spec => LogsKept
<1>1. ASSUME IInv, LogsInv, [Next]_vars, logs' # logs
      PROVE  /\ Len(logs') <= Keep + 1
             /\ \A i, k \in DOMAIN logs :
                   i < k /\ logs[i] \in ToSet(logs') => logs[k] \in ToSet(logs')
  <2>1. Start
    BY <1>1, OthersKeepLogs
  <2>2. PICK d \in 0..Len(logs) :
               /\ Len(logs') = Len(logs) - d + 1
               /\ logs'[Len(logs) - d + 1] = cur
               /\ \A i \in 1..(Len(logs) - d) : logs'[i] = logs[i + d]
    BY <1>1, <2>1, StartLogs
  <2>3. /\ Len(logs) \in Nat /\ DOMAIN logs = 1..Len(logs) /\ DOMAIN logs' = 1..Len(logs')
        /\ \A i \in DOMAIN logs : logs[i] # cur
    <3>1. /\ logs \in Seq(LogEntries) /\ cur \in Posts /\ wpc = "start"
      BY <1>1, <2>1 DEF Start, IInv, WorkerInv, WorkerTypes
    <3>2. logs' \in Seq(LogEntries)
      BY <1>1, <2>1, StartStep DEF IInv, WorkerInv, WorkerTypes
    <3>3. \A i \in DOMAIN logs : logs[i] # cur
      BY <1>1, <3>1 DEF LogsInv, Started, ToSet
    <3> QED
      BY <3>1, <3>2, <3>3
  <2>4. ASSUME NEW i \in DOMAIN logs, NEW k \in DOMAIN logs, i < k, logs[i] \in ToSet(logs')
        PROVE  logs[k] \in ToSet(logs')
    <3>1. PICK j \in 1..Len(logs') : logs'[j] = logs[i]
      BY <2>3, <2>4 DEF ToSet
    <3>2. j \in 1..(Len(logs) - d) /\ j + d \in DOMAIN logs /\ logs[j + d] = logs[i]
      BY <2>2, <2>3, <3>1
    <3>3. j + d = i
      BY <1>1, <3>2 DEF LogsInv, IsInjective
    <3>4. k - d \in 1..(Len(logs) - d) /\ logs'[k - d] = logs[k]
      BY <2>2, <2>3, <2>4, <3>2, <3>3
    <3> QED
      BY <2>2, <2>3, <3>4 DEF ToSet
  <2>5. Len(logs') <= Keep + 1
    BY <1>1, <2>1, StartLogs
  <2> QED
    BY <2>4, <2>5
<1>2. IInv /\ LogsInv /\ [Next]_vars =>
        [logs' # logs =>
          /\ Len(logs') <= Keep + 1
          /\ \A i, k \in DOMAIN logs :
                i < k /\ logs[i] \in ToSet(logs') => logs[k] \in ToSet(logs')]_vars
  BY <1>1
<1> QED
  BY <1>2, InvHolds, LogsInvHolds, PTL DEF Spec, LogsKept

-------------------------------------------------------------------------------
(* The worker serves the jobs as JobService has it                         *)

\* How far a job has come: it is with the worker, queued for it, has been with
\* it, or is not queued yet.
JobStage(p) ==
    IF cur = p THEN "held"
    ELSE IF p \in queue THEN "waiting"
    ELSE IF hpc[p] = "queued" THEN "over" ELSE "unposted"

JS == INSTANCE JobService WITH
          Jobs <- Posts, Workers <- {"worker"}, NoWorker <- Absent,
          stage <- [p \in Posts |-> JobStage(p)],
          holder <- [p \in Posts |-> IF cur = p THEN "worker" ELSE Absent]

\* A job that waits is not with the worker.
NotBoth == cur \notin queue

\* Of a job's own steps only its last queues it.
LEMMA EdgeQueues ==
    ASSUME IInv, Edge
    PROVE  /\ UNCHANGED cur
           /\ \/ /\ queue' = queue
                 /\ \A r \in Posts : hpc'[r] = "queued" <=> hpc[r] = "queued"
              \/ \E p \in Posts :
                    /\ queue' = queue \cup {p} /\ hpc[p] # "queued"
                    /\ \A r \in Posts : hpc'[r] = "queued" <=> r = p \/ hpc[r] = "queued"
<1>0. hpc \in [Posts \cup Uploads ->
                  {"none", "fetch", "convert", "config", "write",
                   "parse", "queued", "refused", "done"}]
  BY DEF IInv, EdgeInv, EdgeTypes
<1>1. ASSUME NEW u \in Uploads, UploadCreate(u) \/ UploadDone(u)
      PROVE  /\ UNCHANGED <<cur, queue>>
             /\ \A r \in Posts : hpc'[r] = hpc[r]
  BY <1>0, <1>1 DEF UploadCreate, UploadDone, Goto, process
<1>2. ASSUME NEW p \in Posts,
             \/ PostStored(p) \/ FetchCreate(p) \/ FetchDone(p) \/ FetchCut(p)
             \/ EdgeConvert(p) \/ ConfigCreate(p) \/ ConfigDone(p) \/ ConfigCut(p)
      PROVE  /\ UNCHANGED <<cur, queue>>
             /\ \A r \in Posts : hpc'[r] = "queued" <=> hpc[r] = "queued"
  BY <1>0, <1>2 DEF PostStored, FetchCreate, FetchDone, FetchCut, EdgeConvert,
                    ConfigCreate, ConfigDone, ConfigCut, Goto, process
<1>3. ASSUME NEW p \in Posts, Parse(p) \/ NoConfig(p)
      PROVE  /\ UNCHANGED cur
             /\ hpc[p] # "queued"
             /\ \/ queue' = queue \cup {p} /\ hpc' = [hpc EXCEPT ![p] = "queued"]
                \/ queue' = queue /\ hpc' = [hpc EXCEPT ![p] = "refused"]
  BY <1>3 DEF Parse, NoConfig, Goto, process
<1> QED
  BY <1>0, <1>1, <1>2, <1>3 DEF Edge

\* The worker takes one of the queue, goes on with its task, or is rid of it.
LEMMA WorkerServes ==
    ASSUME IInv, Worker
    PROVE  /\ UNCHANGED hpc
           /\ \/ UNCHANGED <<cur, queue>>
              \/ \E p \in queue : cur = Absent /\ cur' = p /\ queue' = queue \ {p}
              \/ cur # Absent /\ cur' = Absent /\ UNCHANGED queue
<1>1. ASSUME NEW p \in Posts, Take(p)
      PROVE  /\ UNCHANGED hpc
             /\ p \in queue /\ cur = Absent /\ cur' = p /\ queue' = queue \ {p}
  BY <1>1 DEF Take, handlers, IInv, WorkerInv, WorkerTypes
<1>2. CASE Worker /\ ~(\E p \in Posts : Take(p))
  <2>1. /\ UNCHANGED <<hpc, queue>>
        /\ wpc # "idle"
        /\ cur' = Absent \/ cur' = cur
    BY <1>2 DEF Worker, Local, ResourcesDone, Chmod, Download, DownloadFails, UseLocal,
         Convert, ConvertFails, Start, End, ResourceCreate, ResourceDone, ResourceCut,
         DownloadDone, Crash, Finish, handlers
  <2>2. cur # Absent
    BY <2>1 DEF IInv, WorkerInv, WorkerTypes
  <2> QED
    BY <2>1, <2>2
<1> QED
  BY <1>1, <1>2

LEMMA NotBothStep == IInv /\ NotBoth /\ [Next]_vars => NotBoth'
<1> SUFFICES ASSUME IInv, NotBoth, [Next]_vars PROVE NotBoth'
  OBVIOUS
<1>1. queue \subseteq Posts /\ (cur # Absent => cur \in Posts /\ hpc[cur] = "queued")
      /\ Absent \notin Posts
  BY DEF IInv, WorkerInv, WorkerTypes, Tasks
<1>2. CASE Edge
  BY <1>1, <1>2, EdgeQueues DEF NotBoth
<1>3. CASE Worker
  BY <1>1, <1>3, WorkerServes DEF NotBoth
<1>4. CASE UNCHANGED vars
  BY <1>4 DEF NotBoth, vars, process
<1> QED
  BY <1>2, <1>3, <1>4 DEF Next

LEMMA ServiceInits == Init => JS!ServiceInit /\ NotBoth
  BY DEF Init, JS!ServiceInit, JobStage, NotBoth

LEMMA ServiceSteps == IInv /\ NotBoth /\ [Next]_vars => [JS!ServiceNext]_(JS!serviceVars)
<1> SUFFICES ASSUME IInv, NotBoth, [Next]_vars
             PROVE  JS!ServiceNext \/ UNCHANGED JS!serviceVars
  OBVIOUS
<1> DEFINE st == [p \in Posts |-> JobStage(p)]
           ho == [p \in Posts |-> IF cur = p THEN "worker" ELSE Absent]
<1>0. queue \subseteq Posts /\ (cur # Absent => cur \in Posts /\ hpc[cur] = "queued")
      /\ (\A p \in queue : hpc[p] = "queued") /\ Absent \notin Posts
  BY DEF IInv, WorkerInv, WorkerTypes, Tasks
<1>1. CASE /\ UNCHANGED <<cur, queue>>
           /\ \A r \in Posts : hpc'[r] = "queued" <=> hpc[r] = "queued"
  <2>1. st' = st /\ ho' = ho
    BY <1>1 DEF JobStage
  <2> QED
    BY <2>1 DEF JS!serviceVars
<1>2. ASSUME NEW p \in Posts, UNCHANGED cur, queue' = queue \cup {p}, hpc[p] # "queued",
             \A r \in Posts : hpc'[r] = "queued" <=> r = p \/ hpc[r] = "queued"
      PROVE  JS!Post(p)
  <2>1. cur # p /\ p \notin queue
    BY <1>0, <1>2
  <2>2. st[p] = "unposted"
    BY <1>2, <2>1 DEF JobStage
  <2>3. JobStage(p)' = "waiting" /\ ho' = ho
    BY <1>2, <2>1 DEF JobStage
  <2>4. \A r \in Posts \ {p} : JobStage(r)' = JobStage(r)
    BY <1>2 DEF JobStage
  <2>5. st' = [st EXCEPT ![p] = "waiting"]
    BY <2>3, <2>4
  <2> QED
    BY <2>2, <2>3, <2>5 DEF JS!Post
<1>3. ASSUME NEW p \in queue, UNCHANGED hpc, cur = Absent, cur' = p, queue' = queue \ {p}
      PROVE  JS!HandOver(p, "worker")
  <2>1. p \in Posts /\ st[p] = "waiting"
    BY <1>0, <1>3 DEF JobStage
  <2>2. st' = [st EXCEPT ![p] = "held"] /\ ho' = [ho EXCEPT ![p] = "worker"]
    BY <1>0, <1>3, <2>1 DEF JobStage
  <2> QED
    BY <2>1, <2>2 DEF JS!HandOver
<1>4. ASSUME NEW p \in Posts, UNCHANGED <<hpc, queue>>, cur = p, cur' = Absent
      PROVE  JS!End(p)
  <2>1. p \notin queue /\ hpc[p] = "queued" /\ st[p] = "held"
    BY <1>0, <1>4 DEF JobStage, NotBoth
  <2>2. st' = [st EXCEPT ![p] = "over"] /\ ho' = [ho EXCEPT ![p] = Absent]
    BY <1>0, <1>4, <2>1 DEF JobStage
  <2> QED
    BY <2>1, <2>2 DEF JS!End
<1>5. CASE Edge
  <2>1. CASE /\ UNCHANGED <<cur, queue>>
             /\ \A r \in Posts : hpc'[r] = "queued" <=> hpc[r] = "queued"
    BY <1>1, <2>1
  <2>2. CASE ~(/\ UNCHANGED <<cur, queue>>
               /\ \A r \in Posts : hpc'[r] = "queued" <=> hpc[r] = "queued")
    <3>1. PICK p \in Posts :
             /\ UNCHANGED cur
             /\ queue' = queue \cup {p} /\ hpc[p] # "queued"
             /\ \A r \in Posts : hpc'[r] = "queued" <=> r = p \/ hpc[r] = "queued"
      BY <1>5, <2>2, EdgeQueues
    <3>2. JS!Post(p)
      BY <1>2, <3>1
    <3> QED
      BY <3>2 DEF JS!ServiceNext
  <2> QED
    BY <2>1, <2>2
<1>6. CASE Worker
  <2>1. CASE UNCHANGED <<cur, queue>>
    BY <1>1, <1>6, <2>1, WorkerServes
  <2>2. ASSUME NEW p \in queue, cur = Absent, cur' = p, queue' = queue \ {p}
        PROVE  JS!ServiceNext
    <3>1. JS!HandOver(p, "worker") /\ p \in Posts
      BY <1>0, <1>3, <1>6, <2>2, WorkerServes
    <3> QED
      BY <3>1 DEF JS!ServiceNext
  <2>3. CASE cur # Absent /\ cur' = Absent /\ UNCHANGED queue
    <3>1. PICK p \in Posts : p = cur
      BY <1>0, <2>3
    <3>2. JS!End(p)
      BY <1>4, <1>6, <2>3, <3>1, WorkerServes
    <3> QED
      BY <3>2 DEF JS!ServiceNext
  <2>4. CASE \E p \in queue : cur = Absent /\ cur' = p /\ queue' = queue \ {p}
    BY <2>2, <2>4
  <2>5. \/ UNCHANGED <<cur, queue>>
        \/ \E p \in queue : cur = Absent /\ cur' = p /\ queue' = queue \ {p}
        \/ cur # Absent /\ cur' = Absent /\ UNCHANGED queue
    BY <1>6, WorkerServes
  <2> HIDE DEF st, ho
  <2> QED
    BY <2>1, <2>3, <2>4, <2>5
<1>7. CASE UNCHANGED vars
  BY <1>1, <1>7 DEF vars, process, handlers
<1> QED
  BY <1>5, <1>6, <1>7 DEF Next

\* The service that the cluster implements is also the one that the files rely
\* on: a job is queued once and reaches the worker once at most, and when the
\* worker is done with it, or has crashed on it, it does not come back to look
\* for its files.
THEOREM ServesJobs == Spec => JS!Service
  BY ServiceInits, ServiceSteps, NotBothStep, InvHolds, PTL DEF Spec, JS!Service
===============================================================================
