---------------------------- MODULE MCFileStaging -----------------------------
(***************************************************************************)
(* FileStaging for TLC: two jobs, uploads of one file, a user's movie in   *)
(* two formats.                                                            *)
(***************************************************************************)
EXTENDS FileStaging, TLC

CONSTANTS p1, p2, u1, movie

TwoPosts == {p1, p2}
OneUpload == {u1}
OneMovie == {movie}
TwoPlaced == {<<movie, "mp4">>, <<movie, "other">>}
TwoStamps == 1..2
TwoLogs == <<"old1", "old2">>

\* FairSpec with one of these: a crash, an upload, a request that is refused,
\* a second configuration. The second job has a plain file, an .mp4 or an .h264
\* that says what it is.
Trouble ==
    Cardinality(crashed) + Cardinality({h \in Uploads : hpc[h] # "none"})
    + Cardinality({p \in Posts : hpc[p] = "refused"})
    + (IF \A p \in Posts : stamp[p] # Absent THEN 1 ELSE 0)
Plain(p) == job[p] = Absent \/ job[p].type = job[p].name[2]
Budget == Trouble <= 1 /\ Plain(p2)
BudgetSpec == Init /\ [][Next /\ Budget']_vars /\ WF_vars(Local)
===============================================================================
