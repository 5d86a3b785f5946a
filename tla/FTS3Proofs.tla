----------------------------- MODULE FTS3Proofs -----------------------------
(***************************************************************************)
(* Proofs about FTS3, for any agents, files, jobs and faults.              *)
(***************************************************************************)
EXTENDS FTS3, FiniteSetTheorems, TLAPS

USE FTS3Assumption DEF FTS3Assumption

-----------------------------------------------------------------------------
(***************************************************************************)
(* The inductive invariant.                                                *)
(***************************************************************************)
\* The operation is treated by one agent, and is assigned meanwhile.
Alone ==
    /\ \A a \in Agent : Treats(a) => op.held
    /\ \A a, b \in Agent : Treats(a) /\ Treats(b) => a = b

\* A file that has no attempt left is not left to submit.
AttemptsLeft ==
    \A a \in Agent : pc[a] = "submitting" =>
        \A f \in copy[a].left :
            /\ copy[a].file[f].status \in {"New", "Failed"}
            /\ copy[a].file[f].attempt < MaxAttempts

Typed == TypeOK /\ Alone /\ AttemptsLeft

\* A request that was told is not Scheduled, and an agent that is about to tell
\* it is the first since it was put back.
Once ==
    /\ reports <= 1
    /\ reports # 0 => request # "Scheduled"
    /\ \A a \in Agent : pc[a] = "telling" => reports = 0

\* A job with a row is a job that the server took, and a treated copy has every
\* job that the database has.
Known ==
    /\ \A j \in Job : row[j] # "none" => server[j] # NoTransfer
    /\ \A a \in Agent : Treats(a) =>
        \A j \in Job :
            /\ copy[a].row[j] # "none" => server[j] # NoTransfer
            /\ row[j] # "none" => copy[a].row[j] # "none"

\* A job that the server lost transfers nothing.
Lost == \A j \in Job : forgotten[j] => server[j] # NoTransfer /\ \A f \in File : server[j][f] # "live"

\* What a thread has seen of a transfer that has ended stays true.
Seen ==
    \A a \in Agent, j \in Job :
        /\ thread[a][j].pc # "none" => row[j] # "none"
        /\ thread[a][j].pc = "cancel" => forgotten[j]
        /\ \A f \in DOMAIN thread[a][j].seen :
            thread[a][j].seen[f] # "live" => server[j][f] = thread[a][j].seen[f]

\* A file that a known job transfers has the ftsGUID of that job.
Owned(jobs, files, rows) ==
    \A j \in Job, f \in File :
        rows[j] # "none" /\ jobs[j][f] = "live" =>
            files[f].guid = j /\ files[f].status \in {"Submitted", "Defunct"}

Owns ==
    /\ Owned(server, file, row)
    /\ \A a \in Agent : Treats(a) => Owned(server, copy[a].file, copy[a].row)

\* A finished file has been transferred, and no job has it any more.
Transferred(jobs, files) ==
    \A f \in File : files[f].status = "Finished" =>
        files[f].guid = 0 /\ \E j \in Job : jobs[j][f] = "Finished"

\* A file that the request takes for Done is not touched again.
Kept(tells, jobs, files) ==
    \A f \in File : tells[f] = "Done" =>
        /\ files[f].guid = 0
        /\ files[f].status \in FinalFile
        /\ \E j \in Job : jobs[j][f] = "Finished"

\* What is finished in a copy that may be reported is finished in the database.
Reportable ==
    \A a \in Agent : pc[a] \in {"treating", "telling"} =>
        \A f \in File : copy[a].file[f].status = "Finished" => file[f].status = "Finished"

Tells ==
    /\ Transferred(server, file)
    /\ Kept(told, server, file)
    /\ \A a \in Agent : Treats(a) =>
        Transferred(server, copy[a].file) /\ Kept(told, server, copy[a].file)
    /\ Reportable

\* What OneTransfer rests on; with Tells, also what DoneIsTransferred rests on.
Follows == Typed /\ Known /\ Lost /\ Seen /\ Owns

-----------------------------------------------------------------------------
(***************************************************************************)
(* Type correctness.                                                       *)
(***************************************************************************)
Places == {"idle", "monitoring", "treating", "submitting", "telling", "persisting", "kicking"}
Treating == {"treating", "submitting", "telling", "persisting"}

DatabaseTyped ==
    /\ file \in FileRows
    /\ op \in [status : OperationStatus, held : BOOLEAN]
    /\ row \in JobRows
    /\ held \in [Job -> BOOLEAN]

OutsideTyped ==
    /\ server \in [Job -> [File -> {"none", "live", "Finished", "Failed"}]]
    /\ forgotten \in [Job -> BOOLEAN]
    /\ request \in {"Assigned", "Scheduled", "Told", "Closed", "Reset", "Canceled", "Gone"}
    /\ told \in [File -> {"none", "Done", "Failed"}]
    /\ reports \in Nat
    /\ upsets \in 0 .. MaxUpsets

AgentsTyped ==
    /\ pc \in [Agent -> Places]
    /\ thread \in [Agent -> [Job -> Threads]]
    /\ \A a \in Agent, j \in Job : thread[a][j].pc # "none" => pc[a] = "monitoring"
    /\ \A a \in Agent : IF pc[a] \in Treating THEN copy[a] \in Copies ELSE copy[a] = NoCopy
    /\ copy \in [Agent -> {NoCopy} \cup Copies]

LEMMA TypeParts == TypeOK <=> DatabaseTyped /\ OutsideTyped /\ AgentsTyped
BY DEF TypeOK, DatabaseTyped, OutsideTyped, AgentsTyped, Places, Treating, Treats

LEMMA TypePartsNext == TypeOK' <=> DatabaseTyped' /\ OutsideTyped' /\ AgentsTyped'
BY TypeParts, PTL

LEMMA InitTyped == Init => Typed
<1> SUFFICES ASSUME Init PROVE Typed
  OBVIOUS
<1>1. NoThread \in Threads /\ NoThread.pc = "none"
  BY DEF NoThread, Threads, NoAnswer, Answers
<1>2. DatabaseTyped
  BY DEF Init, DatabaseTyped, FileRows, JobRows, FileStatus, OperationStatus
<1>3. OutsideTyped
  BY DEF Init, OutsideTyped, NoTransfer
<1>4. AgentsTyped
  BY <1>1 DEF Init, AgentsTyped, Places, Treating
<1>5. Alone /\ AttemptsLeft
  BY DEF Init, Alone, AttemptsLeft, Treats
<1> QED  BY <1>2, <1>3, <1>4, <1>5, TypeParts DEF Typed

\* One thread of an agent takes a step.
LEMMA ThreadTyped ==
  ASSUME AgentsTyped, NEW a \in Agent, NEW j \in Job, thread[a][j].pc # "none",
         NEW t \in Threads, Thread(a, j, t), UNCHANGED <<pc, copy>>
  PROVE  AgentsTyped'
BY DEF AgentsTyped, Thread

\* An agent that monitors nothing any more moves on, with another copy or none.
LEMMA CopyTyped ==
  ASSUME AgentsTyped, NEW a \in Agent, NEW place \in Places, NEW c,
         \A j \in Job : thread[a][j].pc = "none",
         IF place \in Treating THEN c \in Copies ELSE c = NoCopy,
         pc' = [pc EXCEPT ![a] = place], copy' = [copy EXCEPT ![a] = c],
         UNCHANGED thread
  PROVE  AgentsTyped'
BY DEF AgentsTyped

FileRow == [status : FileStatus, attempt : 0 .. MaxAttempts, guid : {0} \cup Job]

LEMMA RowsOfFiles ==
  \A files : files \in FileRows <=> files \in [File -> FileRow]
BY DEF FileRows, FileRow

LEMMA ReportedTyped ==
  ASSUME NEW f, file[f] \in FileRow, NEW s \in {"live", "Finished", "Failed"}
  PROVE  Reported(f, s) \in FileRow
BY DEF FileRow, Reported, FileStatus, FinalFile

LEMMA AnswersTyped ==
  ASSUME NEW files \in SUBSET File, NEW seen \in [files -> {"live", "Finished", "Failed"}]
  PROVE  seen \in Answers
BY DEF Answers

LEMMA AnswersGive ==
  ASSUME NEW seen \in Answers
  PROVE  /\ DOMAIN seen \subseteq File
         /\ seen \in [DOMAIN seen -> {"live", "Finished", "Failed"}]
BY DEF Answers

LEMMA NoThreadTyped == NoThread \in Threads /\ NoThread.pc = "none"
<1>1. {} \in SUBSET File /\ NoAnswer \in [{} -> {"live", "Finished", "Failed"}]
  BY DEF NoAnswer
<1>2. NoAnswer \in Answers
  BY <1>1 DEF Answers
<1>3. QED
  BY <1>2 DEF NoThread, Threads

\* The steps of the threads keep the types.
LEMMA MonitorTyped ==
  ASSUME TypeOK, NEW a \in Agent, NEW j \in Job,
         \/ MonitorStep(a, j)
         \/ MonitorFails(a, j)
         \/ UpdateFails(a, j)
  PROVE  TypeOK'
<1> USE TypeParts, NoThreadTyped
<1>t. thread[a][j] \in Threads
  BY DEF AgentsTyped
<1>1. CASE monitor(a, j)
  <2> DEFINE transfers == {f \in File : server[j][f] # "none"}
             seen == [f \in transfers |-> server[j][f]]
             t == IF forgotten[j] THEN [NoThread EXCEPT !.pc = "cancel"]
                  ELSE [pc |-> "update", seen |-> seen, over |-> \A f \in transfers : seen[f] # "live"]
  <2>1. seen \in Answers
    <3>1. transfers \in SUBSET File /\ seen \in [transfers -> {"live", "Finished", "Failed"}]
      BY DEF OutsideTyped
    <3> HIDE DEF transfers, seen
    <3> QED  BY <3>1, AnswersTyped
  <2>2. t \in Threads
    BY <2>1 DEF Threads
  <2>3. thread[a][j].pc # "none" /\ Thread(a, j, t) /\ UNCHANGED <<pc, copy>>
    BY <1>1 DEF monitor, At
  <2>4. AgentsTyped'
    BY <2>2, <2>3, ThreadTyped
  <2>5. DatabaseTyped' /\ OutsideTyped'
    BY <1>1 DEF monitor, DatabaseTyped, OutsideTyped, db, outside, rms
  <2> QED  BY <2>4, <2>5, TypePartsNext
<1>2. CASE cancelNonExistingJob(a, j)
  <2>1. AgentsTyped'
    BY <1>2, ThreadTyped DEF cancelNonExistingJob, At
  <2>2. DatabaseTyped'
    <3>1. \A f \in File : [file[f] EXCEPT !.status = "Failed", !.guid = 0] \in FileRow
      BY DEF DatabaseTyped, FileRows, FileStatus, FileRow
    <3>2. file' \in FileRows
      BY <3>1, <1>2, RowsOfFiles DEF cancelNonExistingJob, DatabaseTyped
    <3>3. row' \in JobRows
      BY <1>2 DEF cancelNonExistingJob, DatabaseTyped, JobRows
    <3> QED  BY <1>2, <3>2, <3>3 DEF cancelNonExistingJob, DatabaseTyped
  <2>3. OutsideTyped'
    BY <1>2 DEF cancelNonExistingJob, OutsideTyped, outside, rms
  <2> QED  BY <2>1, <2>2, <2>3, TypePartsNext
<1>3. ASSUME NEW f \in File, updateFileStatus(a, j, f)
      PROVE  TypeOK'
  <2> DEFINE t == thread[a][j]
             rest == [g \in DOMAIN t.seen \ {f} |-> t.seen[g]]
  <2>1. t.seen \in Answers
    BY <1>t DEF Threads
  <2>2. rest \in Answers /\ t.seen[f] \in {"live", "Finished", "Failed"}
    BY <2>1, <1>3, AnswersGive, AnswersTyped DEF updateFileStatus
  <2>3. [t EXCEPT !.seen = rest] \in Threads
    BY <2>2, <1>t DEF Threads
  <2>4. AgentsTyped'
    BY <1>3, <2>3, ThreadTyped DEF updateFileStatus, At
  <2>5. DatabaseTyped'
    <3>1. Reported(f, t.seen[f]) \in FileRow
      BY <2>2, RowsOfFiles, ReportedTyped DEF DatabaseTyped
    <3> HIDE DEF t
    <3>2. file' \in FileRows
      BY <3>1, <1>3, RowsOfFiles DEF updateFileStatus, DatabaseTyped, t
    <3> QED  BY <1>3, <3>2 DEF updateFileStatus, DatabaseTyped
  <2>6. OutsideTyped'
    BY <1>3 DEF updateFileStatus, OutsideTyped, outside, rms
  <2> QED  BY <2>4, <2>5, <2>6, TypePartsNext
<1>4. CASE updateJobStatus(a, j)
  <2>1. AgentsTyped'
    BY <1>4, ThreadTyped DEF updateJobStatus, At
  <2>2. DatabaseTyped'
    BY <1>4 DEF updateJobStatus, DatabaseTyped, JobRows
  <2>3. OutsideTyped'
    BY <1>4 DEF updateJobStatus, OutsideTyped, outside, rms
  <2> QED  BY <2>1, <2>2, <2>3, TypePartsNext
<1>5. CASE MonitorFails(a, j)
  <2>1. AgentsTyped'
    BY <1>5, ThreadTyped DEF MonitorFails, At
  <2>2. DatabaseTyped' /\ OutsideTyped'
    BY <1>5 DEF MonitorFails, Upset, DatabaseTyped, OutsideTyped, db, outside, rms
  <2> QED  BY <2>1, <2>2, TypePartsNext
<1>6. CASE UpdateFails(a, j)
  <2>1. AgentsTyped'
    BY <1>6, ThreadTyped DEF UpdateFails, At
  <2>2. DatabaseTyped' /\ OutsideTyped'
    BY <1>6 DEF UpdateFails, Upset, DatabaseTyped, OutsideTyped, db, outside, rms
  <2> QED  BY <2>1, <2>2, TypePartsNext
<1> QED  BY <1>1, <1>2, <1>3, <1>4, <1>5, <1>6 DEF MonitorStep

LEMMA TreatedCopy ==
  ASSUME TypeOK, NEW a \in Agent, Treats(a)
  PROVE  /\ copy[a] \in Copies
         /\ \A j \in Job : thread[a][j].pc = "none"
BY DEF TypeOK, Treats

LEMMA GetTyped ==
  ASSUME TypeOK, NEW a \in Agent, getNonFinishedOperations(a) \/ NoneToTreat(a)
  PROVE  TypeOK'
<1> USE TypeParts
<1>1. \A j \in Job : thread[a][j].pc = "none"
  BY DEF getNonFinishedOperations, NoneToTreat, Monitored, At
<1>2. CASE getNonFinishedOperations(a)
  <2> DEFINE c == [status |-> op.status, file |-> file, row |-> row, held |-> held, left |-> {}]
  <2>1. c \in Copies
    BY DEF Copies, DatabaseTyped
  <2>2. AgentsTyped'
    <3> HIDE DEF c
    <3>1. copy' = [copy EXCEPT ![a] = c] /\ pc' = [pc EXCEPT ![a] = "treating"] /\ UNCHANGED thread
      BY <1>2 DEF getNonFinishedOperations, Goes, c
    <3> QED  BY <1>1, <2>1, <3>1, CopyTyped DEF Places, Treating
  <2>3. DatabaseTyped' /\ OutsideTyped'
    BY <1>2 DEF getNonFinishedOperations, DatabaseTyped, OutsideTyped, outside, rms
  <2> QED  BY <2>2, <2>3, TypePartsNext
<1>3. CASE NoneToTreat(a)
  <2>1. pc[a] = "monitoring" /\ copy[a] = NoCopy
    BY <1>3 DEF NoneToTreat, Monitored, AgentsTyped, Treating
  <2>2. AgentsTyped'
    BY <1>3, <1>1, <2>1 DEF NoneToTreat, AgentsTyped, Places, Treating, Goes
  <2>3. DatabaseTyped' /\ OutsideTyped'
    BY <1>3 DEF NoneToTreat, DatabaseTyped, OutsideTyped, db, outside, rms
  <2> QED  BY <2>2, <2>3, TypePartsNext
<1> QED  BY <1>2, <1>3

\* The status of a copy changes, and its place.
LEMMA StatusTyped ==
  ASSUME TypeOK, NEW a \in Agent, Treats(a), NEW s \in OperationStatus, NEW place \in Treating,
         copy' = [copy EXCEPT ![a].status = s], Goes(a, place), UNCHANGED thread
  PROVE  AgentsTyped'
<1> DEFINE c == [copy[a] EXCEPT !.status = s]
<1>1. c \in Copies
  BY TreatedCopy DEF Copies
<1>2. copy' = [copy EXCEPT ![a] = c]
  BY DEF TypeOK
<1> HIDE DEF c
<1> QED  BY <1>1, <1>2, TreatedCopy, CopyTyped, TypeParts DEF Goes, Places, Treating

LEMMA ReportTyped ==
  ASSUME TypeOK, NEW a \in Agent,
         callback(a) \/ _updateRmsOperationStatus(a) \/ PutFails(a)
  PROVE  TypeOK'
<1> USE TypeParts
<1>t. Treats(a)
  BY DEF callback, _updateRmsOperationStatus, PutFails, Treats
<1>1. CASE callback(a)
  <2>1. AgentsTyped'
    BY <1>1, <1>t, StatusTyped DEF callback, OperationStatus, FinalOperation, Treating
  <2>2. DatabaseTyped' /\ OutsideTyped'
    BY <1>1 DEF callback, DatabaseTyped, OutsideTyped, db, outside, rms
  <2> QED  BY <2>1, <2>2, TypePartsNext
<1>2. CASE _updateRmsOperationStatus(a)
  <2>1. AgentsTyped'
    <3>1. CASE request = "Gone"
      BY <1>2, <1>t, <3>1, TreatedCopy DEF _updateRmsOperationStatus, AgentsTyped, Places, Treating, Goes
    <3>2. CASE request # "Gone"
      BY <1>2, <1>t, <3>2, StatusTyped DEF _updateRmsOperationStatus, OperationStatus, FinalOperation, Treating
    <3> QED  BY <3>1, <3>2
  <2>2. Verdict(a) \in [File -> {"none", "Done", "Failed"}]
    BY DEF Verdict
  <2>3. DatabaseTyped' /\ OutsideTyped'
    BY <1>2, <2>2 DEF _updateRmsOperationStatus, DatabaseTyped, OutsideTyped, db, outside, rms
  <2> QED  BY <2>1, <2>3, TypePartsNext
<1>3. CASE PutFails(a)
  <2>1. AgentsTyped'
    BY <1>3, <1>t, TreatedCopy DEF PutFails, AgentsTyped, Places, Treating, Goes
  <2>2. DatabaseTyped' /\ OutsideTyped'
    BY <1>3 DEF PutFails, Upset, DatabaseTyped, OutsideTyped, db, outside
  <2> QED  BY <2>1, <2>2, TypePartsNext
<1> QED  BY <1>1, <1>2, <1>3

\* What remains of the attempts, and which files are left to submit.
LEMMA FilesToSubmit ==
  ASSUME NEW c \in Copies
  PROVE  LET d == _getFilesToSubmit(c) IN
         /\ d \in Copies
         /\ \A f \in d.left :
              /\ d.file[f].status \in {"New", "Failed"}
              /\ d.file[f].attempt < MaxAttempts
<1>1. c.file \in [File -> FileRow]
  BY RowsOfFiles DEF Copies
<1>2. \A f \in File : [c.file[f] EXCEPT !.status = "Defunct"] \in FileRow
  BY <1>1 DEF FileRow, FileStatus, FinalFile
<1> DEFINE files == [f \in File |-> IF Exhausted(c.file[f])
                                    THEN [c.file[f] EXCEPT !.status = "Defunct"] ELSE c.file[f]]
           left == {f \in File : ~Exhausted(c.file[f]) /\ c.file[f].status \in {"New", "Failed"}}
<1>3. files \in FileRows
  BY <1>1, <1>2, RowsOfFiles
<1>4. \A f \in left : c.file[f].attempt < MaxAttempts
  BY <1>1 DEF Exhausted, FileRow
<1>5. _getFilesToSubmit(c) = [c EXCEPT !.file = files, !.left = left]
  BY DEF _getFilesToSubmit
<1>7. \A f \in left : files[f] = c.file[f] /\ c.file[f].status \in {"New", "Failed"}
  OBVIOUS
<1>8. left \in SUBSET File
  OBVIOUS
<1> HIDE DEF files, left
<1> QED  BY <1>3, <1>4, <1>5, <1>7, <1>8 DEF Copies

LEMMA CheckTyped ==
  ASSUME TypeOK, NEW a \in Agent, CheckRequest(a)
  PROVE  TypeOK'
<1> USE TypeParts
<1>t. Treats(a)
  BY DEF CheckRequest, Treats
<1>1. AgentsTyped'
  <2>1. CASE request \in {"Canceled", "Gone"}
    BY <1>t, <2>1, StatusTyped DEF CheckRequest, OperationStatus, FinalOperation, Treating
  <2>2. CASE request \notin {"Canceled", "Gone"}
    <3>1. _getFilesToSubmit(copy[a]) \in Copies
      BY <1>t, TreatedCopy, FilesToSubmit
    <3>2. copy' = [copy EXCEPT ![a] = _getFilesToSubmit(copy[a])] /\ Goes(a, "submitting") /\ UNCHANGED thread
      BY <2>2 DEF CheckRequest
    <3> QED  BY <1>t, <3>1, <3>2, TreatedCopy, CopyTyped DEF Goes, Places, Treating
  <2> QED  BY <2>1, <2>2
<1>2. DatabaseTyped' /\ OutsideTyped'
  BY DEF CheckRequest, DatabaseTyped, OutsideTyped, db, outside, rms
<1> QED  BY <1>1, <1>2, TypePartsNext

\* What submit makes of the copy.
LEMMA WithJobTyped ==
  ASSUME NEW c \in Copies, NEW j \in Job, NEW files \in SUBSET c.left, NEW started \in SUBSET files, NEW same \in SUBSET (files \ started),
         \A f \in c.left : c.file[f].status \in {"New", "Failed"} /\ c.file[f].attempt < MaxAttempts
  PROVE  WithJob(c, j, files, started, same) \in Copies
<1>1. c.file \in [File -> FileRow] /\ files \subseteq File
  BY RowsOfFiles DEF Copies
<1> DEFINE row1 == [c.row EXCEPT ![j] = "Active"]
           held1 == [c.held EXCEPT ![j] = FALSE]
           left1 == c.left \ files
           r(f) == [status |-> IF f \in started THEN "Submitted"
                              ELSE IF f \in same THEN "Defunct" ELSE c.file[f].status,
                    attempt |-> c.file[f].attempt + 1,
                    guid |-> j]
           file1 == [f \in File |-> IF f \in files THEN r(f) ELSE c.file[f]]
<1>2. \A f \in files : r(f) \in FileRow
  BY <1>1 DEF FileRow, FileStatus, FinalFile
<1>3. file1 \in FileRows
  <2> HIDE DEF r
  <2> QED  BY <1>1, <1>2, RowsOfFiles
<1>4. row1 \in JobRows /\ held1 \in [Job -> BOOLEAN] /\ left1 \in SUBSET File
  BY DEF Copies, JobRows
<1>5. WithJob(c, j, files, started, same) =
        [status |-> c.status, row |-> row1, held |-> held1, left |-> left1, file |-> file1]
  BY DEF WithJob
<1>6. c.status \in OperationStatus
  BY DEF Copies
<1> HIDE DEF row1, held1, left1, file1
<1> QED  BY <1>3, <1>4, <1>5, <1>6 DEF Copies

LEMMA SubmitTyped ==
  ASSUME TypeOK, AttemptsLeft, NEW a \in Agent, NEW j \in Job, NEW files \in SUBSET copy[a].left,
         \/ \E started \in SUBSET files : \E same \in SUBSET (files \ started) : submit(a, j, files, started, same)
         \/ SubmitUnanswered(a, j, files)
  PROVE  TypeOK'
<1> USE TypeParts
<1>t. Treats(a) /\ pc[a] = "submitting"
  BY DEF submit, SubmitUnanswered, Treats
<1>1. ASSUME NEW started \in SUBSET files, NEW same \in SUBSET (files \ started), submit(a, j, files, started, same)
      PROVE  TypeOK'
  <2> DEFINE c == WithJob(copy[a], j, files, started, same)
  <2>1. c \in Copies
    BY <1>t, TreatedCopy, WithJobTyped DEF AttemptsLeft
  <2>2. copy' = [copy EXCEPT ![a] = c] /\ UNCHANGED <<pc, thread>>
    BY <1>1 DEF submit, Start
  <2> HIDE DEF c
  <2>3. AgentsTyped'
    BY <1>t, <2>1, <2>2 DEF AgentsTyped, Treating
  <2>4. DatabaseTyped' /\ OutsideTyped'
    BY <1>1 DEF submit, Start, DatabaseTyped, OutsideTyped, db, outside, rms
  <2> QED  BY <2>3, <2>4, TypePartsNext
<1>2. CASE SubmitUnanswered(a, j, files)
  <2>1. [copy[a] EXCEPT !.left = copy[a].left \ files] \in Copies
    BY <1>t, TreatedCopy DEF Copies
  <2>2. copy' = [copy EXCEPT ![a] = [copy[a] EXCEPT !.left = copy[a].left \ files]] /\ UNCHANGED <<pc, thread>>
    BY <1>2 DEF SubmitUnanswered, Start, AgentsTyped
  <2>3. AgentsTyped'
    BY <1>t, <2>1, <2>2 DEF AgentsTyped, Treating
  <2>4. DatabaseTyped' /\ OutsideTyped'
    BY <1>2 DEF SubmitUnanswered, Upset, Start, DatabaseTyped, OutsideTyped, db, outside, rms
  <2> QED  BY <2>3, <2>4, TypePartsNext
<1> QED  BY <1>1, <1>2

LEMMA LeftOutTyped ==
  ASSUME NEW was \in FileRow, was.attempt < MaxAttempts, NEW is \in LeftOut(was)
  PROVE  is \in FileRow /\ is.guid = was.guid /\ is.status \in {was.status, "Defunct"}
BY DEF LeftOut, FileRow, FileStatus, FinalFile

\* The copy without the file, which is as LeaveOut leaves it.
LEMMA WithoutTyped ==
  ASSUME NEW c \in Copies, NEW f \in File, NEW is \in FileRow
  PROVE  LET d == Without(c, f, is) IN
         /\ d \in Copies
         /\ d.left = c.left \ {f} /\ d.row = c.row
         /\ d.file[f] = is
         /\ \A g \in File \ {f} : d.file[g] = c.file[g]
<1>1. c.file \in [File -> FileRow]
  BY RowsOfFiles DEF Copies
<1> DEFINE files == [c.file EXCEPT ![f] = is]
           left == c.left \ {f}
<1>2. files \in FileRows /\ files[f] = is /\ \A g \in File \ {f} : files[g] = c.file[g]
  BY <1>1, RowsOfFiles
<1>3. left \in SUBSET File
  BY DEF Copies
<1>4. Without(c, f, is) = [c EXCEPT !.left = left, !.file = files]
  BY DEF Without
<1> HIDE DEF files
<1> QED  BY <1>2, <1>3, <1>4 DEF Copies

LEMMA LeaveTyped ==
  ASSUME TypeOK, AttemptsLeft, NEW a \in Agent, NEW f \in File, LeaveOut(a, f)
  PROVE  TypeOK'
<1> USE TypeParts
<1>t. Treats(a) /\ pc[a] = "submitting"
  BY DEF LeaveOut, Treats
<1>1. PICK is \in LeftOut(copy[a].file[f]) :
        copy' = [copy EXCEPT ![a] = Without(copy[a], f, is)]
  BY DEF LeaveOut
<1>2. copy[a].file[f] \in FileRow /\ copy[a].file[f].attempt < MaxAttempts
  BY <1>t, TreatedCopy, RowsOfFiles DEF Copies, AttemptsLeft, LeaveOut
<1>3. is \in FileRow
  BY <1>2, LeftOutTyped
<1> DEFINE c == Without(copy[a], f, is)
<1>4. c \in Copies
  BY <1>t, <1>3, TreatedCopy, WithoutTyped
<1>5. copy' = [copy EXCEPT ![a] = c]
  BY <1>1
<1> HIDE DEF c
<1>6. AgentsTyped'
  BY <1>t, <1>4, <1>5 DEF LeaveOut, AgentsTyped, Treating
<1>7. DatabaseTyped' /\ OutsideTyped'
  BY DEF LeaveOut, DatabaseTyped, OutsideTyped, db, outside, rms
<1> QED  BY <1>6, <1>7, TypePartsNext

LEMMA PersistTyped ==
  ASSUME TypeOK, NEW a \in Agent, persistOperation(a) \/ TreatFails(a)
  PROVE  TypeOK'
<1> USE TypeParts
<1>t. Treats(a)
  BY DEF persistOperation, TreatFails, Treats
<1>1. AgentsTyped'
  BY <1>t, TreatedCopy, CopyTyped DEF persistOperation, TreatFails, Goes, Places, Treating
<1>2. CASE persistOperation(a)
  <2>1. DatabaseTyped'
    BY <1>2, <1>t, TreatedCopy DEF persistOperation, DatabaseTyped, Copies
  <2>2. OutsideTyped'
    BY <1>2 DEF persistOperation, OutsideTyped, outside, rms
  <2> QED  BY <1>1, <2>1, <2>2, TypePartsNext
<1>3. CASE TreatFails(a)
  <2>1. DatabaseTyped' /\ OutsideTyped'
    BY <1>3 DEF TreatFails, Upset, DatabaseTyped, OutsideTyped, db, outside, rms
  <2> QED  BY <1>1, <2>1, TypePartsNext
<1> QED  BY <1>2, <1>3

LEMMA CycleTyped ==
  ASSUME TypeOK, NEW a \in Agent, getActiveJobs(a) \/ kickStuck(a) \/ Crash(a)
  PROVE  TypeOK'
<1> USE TypeParts
<1>1. CASE getActiveJobs(a)
  <2> DEFINE t(chosen) == [j \in Job |-> [NoThread EXCEPT !.pc = IF j \in chosen THEN "query" ELSE "none"]]
             chosen == {j \in Job : row[j] = "Active" /\ ~held[j] /\ ~op.held}
  <2>1. t(chosen) \in [Job -> Threads]
    <3>1. \A p \in {"query", "none"} : [NoThread EXCEPT !.pc = p] \in Threads
      BY NoThreadTyped DEF Threads, NoThread
    <3> HIDE DEF chosen
    <3> QED  BY <3>1
  <2>2. thread' = [thread EXCEPT ![a] = t(chosen)] /\ pc' = [pc EXCEPT ![a] = "monitoring"] /\ UNCHANGED copy
    BY <1>1 DEF getActiveJobs, Goes
  <2>3. pc[a] = "idle"
    BY <1>1 DEF getActiveJobs
  <2> HIDE DEF t
  <2>4. AgentsTyped'
    BY <2>1, <2>2, <2>3 DEF AgentsTyped, Places, Treating
  <2>5. DatabaseTyped' /\ OutsideTyped'
    BY <1>1 DEF getActiveJobs, DatabaseTyped, OutsideTyped, outside, rms
  <2> QED  BY <2>4, <2>5, TypePartsNext
<1>2. CASE kickStuck(a)
  <2>1. PICK jobs \in SUBSET StuckJobs, operation \in {FALSE, OperationStuck} : Kick(a, jobs, operation)
    BY <1>2 DEF kickStuck
  <2>2. AgentsTyped'
    BY <2>1 DEF Kick, AgentsTyped, Places, Treating, Goes
  <2>3. DatabaseTyped' /\ OutsideTyped'
    BY <2>1 DEF Kick, DatabaseTyped, OutsideTyped, outside, rms
  <2> QED  BY <2>2, <2>3, TypePartsNext
<1>3. CASE Crash(a)
  <2>1. AgentsTyped'
    BY <1>3, NoThreadTyped DEF Crash, AgentsTyped, Places, Treating, Goes
  <2>2. DatabaseTyped' /\ OutsideTyped'
    BY <1>3 DEF Crash, Upset, DatabaseTyped, OutsideTyped, db, outside, rms
  <2> QED  BY <2>1, <2>2, TypePartsNext
<1> QED  BY <1>1, <1>2, <1>3

LEMMA ElsewhereTyped ==
  ASSUME TypeOK, Elsewhere
  PROVE  TypeOK'
<1> USE TypeParts
<1>1. AgentsTyped' /\ DatabaseTyped'
  BY DEF Elsewhere, Forget, Transfer, PutRequest, Cancel, Close, Delete, ResetFailed,
              _checkExistingFTS3Operations, Unheard, RequestBecomes,
         agents, db, AgentsTyped, DatabaseTyped
<1>2. OutsideTyped'
  <2>1. ASSUME NEW j \in Job, Forget(j)
        PROVE  OutsideTyped'
    BY <2>1 DEF Forget, Upset, OutsideTyped, rms
  <2>2. ASSUME NEW j \in Job, NEW f \in File, Transfer(j, f)
        PROVE  OutsideTyped'
    BY <2>2 DEF Transfer, OutsideTyped, rms
  <2>3. CASE PutRequest \/ Cancel \/ Close \/ Delete \/ ResetFailed \/ _checkExistingFTS3Operations
    BY <2>3 DEF PutRequest, Cancel, Close, Delete, ResetFailed,
              _checkExistingFTS3Operations, Unheard, RequestBecomes, Upset, OutsideTyped, outside
  <2> QED  BY <2>1, <2>2, <2>3 DEF Elsewhere
<1> QED  BY <1>1, <1>2, TypePartsNext

\* Every step keeps the types.
LEMMA NextTyped ==
  ASSUME TypeOK, AttemptsLeft, [Next]_vars
  PROVE  TypeOK'
<1>1. ASSUME NEW a \in Agent, AgentNext(a)
      PROVE  TypeOK'
  BY <1>1, MonitorTyped, GetTyped, ReportTyped, CheckTyped, SubmitTyped, LeaveTyped, PersistTyped, CycleTyped
     DEF AgentNext, TreatStep, Submission, Leave, AgentUpset
<1>2. CASE Elsewhere
  BY <1>2, ElsewhereTyped
<1>3. CASE UNCHANGED vars
  BY <1>3 DEF vars, db, outside, rms, agents, TypeOK, Treats
<1> QED  BY <1>1, <1>2, <1>3 DEF Next

-----------------------------------------------------------------------------
(***************************************************************************)
(* What a step leaves alone, and who treats the operation.                 *)
(***************************************************************************)
\* An agent moves itself only.
LEMMA OthersStay ==
  ASSUME TypeOK, NEW a \in Agent, AgentNext(a), NEW b \in Agent, b # a
  PROVE  pc'[b] = pc[b] /\ copy'[b] = copy[b] /\ thread'[b] = thread[b]
<1> USE TypeParts DEF AgentsTyped
<1>1. CASE getActiveJobs(a)
  BY <1>1 DEF getActiveJobs, Goes
<1>2. ASSUME NEW j \in Job, MonitorStep(a, j) \/ MonitorFails(a, j) \/ UpdateFails(a, j)
      PROVE  UNCHANGED <<pc, copy>> /\ thread'[b] = thread[b]
  BY <1>2 DEF MonitorStep, monitor, cancelNonExistingJob, updateFileStatus, updateJobStatus,
              MonitorFails, UpdateFails, Thread
<1>3. CASE getNonFinishedOperations(a) \/ NoneToTreat(a)
  BY <1>3 DEF getNonFinishedOperations, NoneToTreat, Goes
<1>4. CASE TreatStep(a) \/ PutFails(a) \/ TreatFails(a)
  BY <1>4 DEF TreatStep, callback, _updateRmsOperationStatus, CheckRequest, persistOperation,
              PutFails, TreatFails, Goes
<1>5. ASSUME NEW j \in Job, NEW files \in SUBSET copy[a].left, NEW started \in SUBSET files, NEW same \in SUBSET (files \ started),
             submit(a, j, files, started, same)
      PROVE  UNCHANGED <<pc, thread>> /\ copy'[b] = copy[b]
  BY <1>5 DEF submit, Start
<1>6. ASSUME NEW j \in Job, NEW files \in SUBSET copy[a].left, SubmitUnanswered(a, j, files)
      PROVE  UNCHANGED <<pc, thread>> /\ copy'[b] = copy[b]
  BY <1>6 DEF SubmitUnanswered, Start
<1>7. ASSUME NEW f \in File, LeaveOut(a, f)
      PROVE  UNCHANGED <<pc, thread>> /\ copy'[b] = copy[b]
  BY <1>7 DEF LeaveOut
<1>8. CASE kickStuck(a)
  BY <1>8 DEF kickStuck, Kick, Goes
<1>9. CASE Crash(a)
  BY <1>9 DEF Crash, Goes
<1> QED
  BY <1>1, <1>2, <1>3, <1>4, <1>5, <1>6, <1>7, <1>8, <1>9 DEF AgentNext, Submission, Leave, AgentUpset

\* Only getNonFinishedOperations begins to treat the operation, and what holds
\* it is only let go when it is not treated.
LEMMA WhoTreats ==
  ASSUME Typed, NEW a \in Agent, AgentNext(a)
  PROVE  \/ getNonFinishedOperations(a)
         \/ op'.held = op.held /\ (Treats(a)' => Treats(a))
         \/ ~Treats(a)' /\ Treats(a)
         \/ ~Treats(a)' /\ \A b \in Agent : ~Treats(b)
<1> USE TypeParts DEF AgentsTyped, Treats, Typed
<1>1. CASE getActiveJobs(a)
  BY <1>1 DEF getActiveJobs, Goes
<1>2. ASSUME NEW j \in Job, MonitorStep(a, j) \/ MonitorFails(a, j) \/ UpdateFails(a, j)
      PROVE  UNCHANGED <<pc, op>>
  BY <1>2 DEF MonitorStep, monitor, cancelNonExistingJob, updateFileStatus, updateJobStatus,
              MonitorFails, UpdateFails, Thread, db
<1>3. CASE NoneToTreat(a)
  BY <1>3 DEF NoneToTreat, Goes, db
<1>4. CASE callback(a) \/ _updateRmsOperationStatus(a) \/ CheckRequest(a) \/ PutFails(a) \/ TreatFails(a)
  BY <1>4 DEF callback, _updateRmsOperationStatus, CheckRequest, PutFails, TreatFails, Goes, db
<1>5. CASE persistOperation(a)
  BY <1>5 DEF persistOperation, Goes
<1>6. ASSUME NEW j \in Job, NEW files \in SUBSET copy[a].left,
             \/ \E started \in SUBSET files : \E same \in SUBSET (files \ started) : submit(a, j, files, started, same)
             \/ SubmitUnanswered(a, j, files)
      PROVE  UNCHANGED <<pc, op>>
  BY <1>6 DEF submit, SubmitUnanswered, Start, db
<1>7. ASSUME NEW f \in File, LeaveOut(a, f)
      PROVE  UNCHANGED <<pc, op>>
  BY <1>7 DEF LeaveOut, db
<1>8. CASE kickStuck(a)
  BY <1>8 DEF kickStuck, Kick, Goes, OperationStuck, DatabaseTyped
<1>9. CASE Crash(a)
  BY <1>9 DEF Crash, Goes, db
<1> QED
  BY <1>1, <1>2, <1>3, <1>4, <1>5, <1>6, <1>7, <1>8, <1>9 DEF AgentNext, TreatStep, Submission, Leave, AgentUpset

LEMMA NextAlone ==
  ASSUME Typed, [Next]_vars
  PROVE  Alone'
<1> USE DEF Typed, Alone
<1>1. ASSUME NEW a \in Agent, AgentNext(a)
      PROVE  Alone'
  <2>1. \A b \in Agent : b # a => (Treats(b)' <=> Treats(b))
    BY <1>1, OthersStay DEF Treats
  <2>2. CASE getNonFinishedOperations(a)
    BY <2>1, <2>2 DEF getNonFinishedOperations, Pickable, TypeOK
  <2>3. CASE ~getNonFinishedOperations(a)
    BY <1>1, <2>1, <2>3, WhoTreats
  <2> QED  BY <2>2, <2>3
<1>2. CASE Elsewhere \/ UNCHANGED vars
  BY <1>2 DEF Elsewhere, Forget, Transfer, PutRequest, Cancel, Close, Delete, ResetFailed,
              _checkExistingFTS3Operations, Unheard, RequestBecomes,
              vars, agents, db, Treats
<1> QED  BY <1>1, <1>2 DEF Next

LEMMA NextAttemptsLeft ==
  ASSUME Typed, [Next]_vars
  PROVE  AttemptsLeft'
<1> USE DEF Typed
<1> DEFINE P(a) == pc[a] = "submitting" =>
                     \A f \in copy[a].left : /\ copy[a].file[f].status \in {"New", "Failed"}
                                             /\ copy[a].file[f].attempt < MaxAttempts
<1>1. ASSUME NEW a \in Agent, AgentNext(a)
      PROVE  AttemptsLeft'
  <2>1. \A b \in Agent \ {a} : P(b)'
    BY <1>1, OthersStay DEF AttemptsLeft
  <2>2. P(a)'
    <3> USE TypeParts
    <3>1. CASE pc'[a] # "submitting"
      BY <3>1
    <3>2. CASE pc'[a] = "submitting" /\ copy'[a] = copy[a] /\ pc[a] = "submitting"
      BY <3>2 DEF AttemptsLeft
    <3>3. CASE CheckRequest(a)
      <4>1. CASE request \in {"Canceled", "Gone"}
        BY <3>3, <4>1 DEF CheckRequest, Goes, AgentsTyped
      <4>2. CASE request \notin {"Canceled", "Gone"}
        <5>1. copy[a] \in Copies
          BY <3>3, TreatedCopy DEF CheckRequest, Treats
        <5>2. copy'[a] = _getFilesToSubmit(copy[a])
          BY <3>3, <4>2 DEF CheckRequest, AgentsTyped
        <5> QED  BY <5>1, <5>2, FilesToSubmit
      <4> QED  BY <4>1, <4>2
    <3>4. ASSUME NEW j \in Job, NEW files \in SUBSET copy[a].left,
                 NEW started \in SUBSET files, NEW same \in SUBSET (files \ started), submit(a, j, files, started, same)
          PROVE  P(a)'
      <4>1. copy[a] \in Copies /\ pc[a] = "submitting"
        BY <3>4, TreatedCopy DEF submit, Treats
      <4>2. copy'[a] = WithJob(copy[a], j, files, started, same)
        BY <3>4 DEF submit, AgentsTyped
      <4>3. \A f \in copy[a].left : copy[a].file[f].status \in {"New", "Failed"} /\ copy[a].file[f].attempt < MaxAttempts
        BY <4>1 DEF AttemptsLeft
      <4>4. copy'[a].left = copy[a].left \ files /\ \A f \in File \ files : copy'[a].file[f] = copy[a].file[f]
        <5>1. /\ WithJob(copy[a], j, files, started, same).left = copy[a].left \ files
              /\ \A f \in File \ files : WithJob(copy[a], j, files, started, same).file[f] = copy[a].file[f]
          BY DEF WithJob
        <5> QED  BY <4>2, <5>1
      <4>5. copy[a].left \subseteq File
        BY <4>1 DEF Copies
      <4> QED  BY <4>3, <4>4, <4>5
    <3>5. ASSUME NEW j \in Job, NEW files \in SUBSET copy[a].left, SubmitUnanswered(a, j, files)
          PROVE  P(a)'
      <4>1. copy'[a].left = copy[a].left \ files /\ copy'[a].file = copy[a].file /\ pc[a] = "submitting"
        <5>1. copy[a] \in Copies
          BY <3>5, TreatedCopy DEF SubmitUnanswered, Treats
        <5> QED  BY <3>5, <5>1 DEF SubmitUnanswered, AgentsTyped, Copies
      <4> QED  BY <4>1 DEF AttemptsLeft
    <3>6. ASSUME NEW f \in File, LeaveOut(a, f)
          PROVE  P(a)'
      <4>1. copy[a] \in Copies /\ pc[a] = "submitting"
        BY <3>6, TreatedCopy DEF LeaveOut, Treats
      <4>2. PICK is \in LeftOut(copy[a].file[f]) : copy'[a] = Without(copy[a], f, is)
        BY <3>6 DEF LeaveOut, AgentsTyped
      <4>3. copy[a].file[f] \in FileRow /\ copy[a].file[f].attempt < MaxAttempts
        BY <4>1, <3>6, RowsOfFiles DEF Copies, LeaveOut, AttemptsLeft
      <4>4. is \in FileRow
        BY <4>3, LeftOutTyped
      <4>5. copy'[a].left = copy[a].left \ {f} /\ \A g \in File \ {f} : copy'[a].file[g] = copy[a].file[g]
        BY <4>1, <4>2, <4>4, WithoutTyped
      <4>6. copy[a].left \subseteq File
        BY <4>1 DEF Copies
      <4> QED  BY <4>1, <4>5, <4>6 DEF AttemptsLeft
    <3>7. CASE ~CheckRequest(a) /\ ~Submission(a) /\ ~Leave(a)
               /\ ~\E j \in Job, files \in SUBSET copy[a].left : SubmitUnanswered(a, j, files)
      <4>1. pc'[a] # "submitting" \/ (copy'[a] = copy[a] /\ pc[a] = "submitting")
        BY <1>1, <3>7 DEF AgentNext, AgentUpset, TreatStep, MonitorStep,
             getActiveJobs, monitor, cancelNonExistingJob, updateFileStatus, updateJobStatus,
             getNonFinishedOperations, NoneToTreat, callback, _updateRmsOperationStatus,
             persistOperation, kickStuck, Kick, MonitorFails, UpdateFails, PutFails, TreatFails, Crash,
             Goes, AgentsTyped, At
      <4> QED  BY <4>1, <3>1, <3>2
    <3> QED  BY <3>3, <3>4, <3>5, <3>6, <3>7 DEF Submission, Leave
  <2> QED  BY <2>1, <2>2 DEF AttemptsLeft
<1>2. CASE Elsewhere \/ UNCHANGED vars
  BY <1>2 DEF Elsewhere, Forget, Transfer, PutRequest, Cancel, Close, Delete, ResetFailed,
              _checkExistingFTS3Operations, Unheard, RequestBecomes,
              vars, agents, AttemptsLeft
<1> QED  BY <1>1, <1>2 DEF Next

LEMMA NextTypedAll ==
  ASSUME Typed, [Next]_vars
  PROVE  Typed'
BY NextTyped, NextAlone, NextAttemptsLeft DEF Typed

\* The rows, the request and the agents keep their types, whatever fails.
THEOREM FTS3Typed == Spec => []TypeOK
<1>1. Init => Typed
  BY InitTyped
<1>2. Typed /\ [Next]_vars => Typed'
  BY NextTypedAll
<1>3. Typed => TypeOK
  BY DEF Typed
<1> QED  BY <1>1, <1>2, <1>3, PTL DEF Spec

-----------------------------------------------------------------------------
(***************************************************************************)
(* The request is told once.                                               *)
(***************************************************************************)
LEMMA NextOnce ==
  ASSUME Typed, Once, [Next]_vars
  PROVE  Once'
<1> USE TypeParts DEF Typed, Once
<1>1. ASSUME NEW a \in Agent, AgentNext(a)
      PROVE  Once'
  <2>1. CASE pc'[a] # "telling" /\ UNCHANGED <<reports, request>>
    BY <1>1, <2>1, OthersStay
  <2>2. CASE callback(a)
    BY <1>1, <2>2, OthersStay DEF callback, Goes, AgentsTyped, rms, OutsideTyped
  <2>3. CASE _updateRmsOperationStatus(a)
    <3>1. pc[a] = "telling" /\ pc'[a] = "persisting" /\ Treats(a)
      BY <2>3 DEF _updateRmsOperationStatus, Goes, AgentsTyped, Treats
    <3>2. \A b \in Agent : pc'[b] # "telling"
      BY <1>1, <3>1, OthersStay DEF Alone, Treats
    <3>3. reports = 0
      BY <3>1
    <3> QED  BY <2>3, <3>2, <3>3 DEF _updateRmsOperationStatus, rms
  <2>4. CASE PutFails(a)
    <3>1. pc[a] = "telling" /\ pc'[a] = "persisting" /\ Treats(a)
      BY <2>4 DEF PutFails, Goes, AgentsTyped, Treats
    <3>2. reports = 0
      BY <3>1
    <3> QED  BY <1>1, <2>4, <3>1, <3>2, OthersStay DEF PutFails
  <2>5. ASSUME NEW j \in Job, MonitorStep(a, j) \/ MonitorFails(a, j) \/ UpdateFails(a, j)
        PROVE  UNCHANGED <<pc, rms>>
    BY <2>5 DEF MonitorStep, monitor, cancelNonExistingJob, updateFileStatus, updateJobStatus,
                MonitorFails, UpdateFails
  <2>6. CASE \/ getActiveJobs(a) \/ getNonFinishedOperations(a) \/ NoneToTreat(a)
             \/ CheckRequest(a) \/ persistOperation(a) \/ TreatFails(a) \/ kickStuck(a) \/ Crash(a)
    <3>1. pc'[a] # "telling" /\ UNCHANGED rms
      BY <2>6 DEF getActiveJobs, getNonFinishedOperations, NoneToTreat, CheckRequest, persistOperation,
                  TreatFails, kickStuck, Kick, Crash, Goes, AgentsTyped
    <3> QED  BY <3>1, <2>1 DEF rms
  <2>7. ASSUME NEW j \in Job, NEW files \in SUBSET copy[a].left,
               \/ \E started \in SUBSET files : \E same \in SUBSET (files \ started) : submit(a, j, files, started, same)
               \/ SubmitUnanswered(a, j, files)
        PROVE  UNCHANGED <<pc, rms>>
    BY <2>7 DEF submit, SubmitUnanswered, Start
  <2>8. ASSUME NEW f \in File, LeaveOut(a, f)
        PROVE  UNCHANGED <<pc, rms>>
    BY <2>8 DEF LeaveOut
  <2>9. UNCHANGED <<pc, rms>> => Once'
    BY DEF rms
  <2> QED
    BY <1>1, <2>2, <2>3, <2>4, <2>5, <2>6, <2>7, <2>8, <2>9
       DEF AgentNext, TreatStep, Submission, Leave, AgentUpset
<1>2. CASE Elsewhere
  BY <1>2 DEF Elsewhere, Forget, Transfer, PutRequest, Cancel, Close, Delete, ResetFailed,
              _checkExistingFTS3Operations, Unheard, RequestBecomes,
              rms, agents, OutsideTyped
<1>3. CASE UNCHANGED vars
  BY <1>3 DEF vars, rms, agents
<1> QED  BY <1>1, <1>2, <1>3 DEF Next

\* A callback that is repeated, because what followed it was lost, leaves the
\* request alone until an execution puts it back Scheduled: each time it waits it
\* is told of its files once.
THEOREM FTS3ToldOnce == Spec => []ToldOnce
<1>1. Init => Typed /\ Once
  BY InitTyped DEF Init, Once
<1>2. Typed /\ Once /\ [Next]_vars => (Typed /\ Once)'
  BY NextTypedAll, NextOnce
<1>3. Typed /\ Once => ToldOnce
  BY DEF Once, ToldOnce
<1> QED  BY <1>1, <1>2, <1>3, PTL DEF Spec

-----------------------------------------------------------------------------
(***************************************************************************)
(* The FTS server, the jobs that are known, and what the threads have seen.*)
(***************************************************************************)
\* The server takes a job once; a transfer that has ended has ended.
ServerGoesOn ==
    /\ \A j \in Job : server[j] # NoTransfer => server'[j] # NoTransfer
    /\ \A j \in Job, f \in File :
        /\ server[j][f] \in {"Finished", "Failed"} => server'[j][f] = server[j][f]
        /\ server[j] # NoTransfer /\ server'[j][f] = "live" => server[j][f] = "live"

LEMMA ServerSteps ==
  ASSUME TypeOK, [Next]_vars
  PROVE  ServerGoesOn
<1> USE TypeParts DEF OutsideTyped, NoTransfer
<1>1. CASE UNCHANGED server
  BY <1>1 DEF ServerGoesOn
<1>2. ASSUME NEW j \in Job, NEW files, Start(j, files)
      PROVE  ServerGoesOn
  BY <1>2 DEF Start, IsNext, ServerGoesOn
<1>3. ASSUME NEW j \in Job, NEW f \in File, Transfer(j, f)
      PROVE  ServerGoesOn
  <2>1. PICK end \in {"Finished", "Failed"} : server' = [server EXCEPT ![j][f] = end]
    BY <1>3 DEF Transfer
  <2>2. server[j][f] = "live"
    BY <1>3 DEF Transfer
  <2>3. server'[j][f] = end
    BY <2>1
  <2>4. server'[j] # NoTransfer
    BY <2>3
  <2>5. \A i \in Job, g \in File : i # j \/ g # f => server'[i][g] = server[i][g]
    BY <2>1
  <2>6. \A i \in Job : i # j => server'[i] = server[i]
    BY <2>1
  <2> QED  BY <2>2, <2>3, <2>4, <2>5, <2>6 DEF ServerGoesOn
<1>4. ASSUME NEW j \in Job, Forget(j)
      PROVE  ServerGoesOn
  <2>1. \A i \in Job : i # j => server'[i] = server[i]
    BY <1>4 DEF Forget
  <2>2. server'[j] = [f \in File |-> IF server[j][f] = "live" THEN "Failed" ELSE server[j][f]]
    BY <1>4 DEF Forget
  <2>3. server[j] \in [File -> {"none", "live", "Finished", "Failed"}]
    OBVIOUS
  <2>4. server[j] # NoTransfer => server'[j] # NoTransfer
    <3> SUFFICES ASSUME server[j] # NoTransfer PROVE \E f \in File : server'[j][f] # "none"
      OBVIOUS
    <3>1. PICK f \in File : server[j][f] # "none"
      BY <2>3
    <3> QED  BY <2>2, <3>1
  <2>5. \A f \in File : /\ server[j][f] \in {"Finished", "Failed"} => server'[j][f] = server[j][f]
                        /\ server'[j][f] # "live"
    BY <2>2
  <2> QED  BY <2>1, <2>4, <2>5 DEF ServerGoesOn
<1>5. ASSUME NEW a \in Agent, AgentNext(a)
      PROVE  ServerGoesOn
  <2>1. ASSUME NEW j \in Job, NEW files, NEW started, NEW same, submit(a, j, files, started, same)
        PROVE  ServerGoesOn
    BY <2>1, <1>2 DEF submit
  <2>2. ASSUME NEW j \in Job, NEW files, SubmitUnanswered(a, j, files)
        PROVE  ServerGoesOn
    BY <2>2, <1>2 DEF SubmitUnanswered
  <2>3. CASE UNCHANGED outside
    BY <2>3, <1>1 DEF outside
  <2>4. \/ UNCHANGED outside
        \/ Submission(a)
        \/ \E j \in Job, files \in SUBSET copy[a].left : SubmitUnanswered(a, j, files)
    BY <1>5 DEF AgentNext, AgentUpset, TreatStep, MonitorStep, Leave,
             getActiveJobs, monitor, cancelNonExistingJob, updateFileStatus, updateJobStatus,
             getNonFinishedOperations, NoneToTreat, callback, _updateRmsOperationStatus, CheckRequest, LeaveOut,
             persistOperation, kickStuck, Kick, MonitorFails, UpdateFails, PutFails, TreatFails, Crash
  <2> QED  BY <2>1, <2>2, <2>3, <2>4 DEF Submission
<1>6. CASE Elsewhere
  BY <1>6, <1>1, <1>3, <1>4 DEF Elsewhere, PutRequest, Cancel, Close, Delete, ResetFailed,
              _checkExistingFTS3Operations, Unheard, RequestBecomes, outside
<1>7. CASE UNCHANGED vars
  BY <1>7, <1>1 DEF vars, outside
<1> QED  BY <1>5, <1>6, <1>7 DEF Next

LEMMA NextLost ==
  ASSUME TypeOK, Lost, [Next]_vars
  PROVE  Lost'
<1> USE TypeParts DEF OutsideTyped
<1>1. CASE UNCHANGED forgotten
  BY <1>1, ServerSteps DEF Lost, ServerGoesOn
<1>2. ASSUME NEW j \in Job, Forget(j)
      PROVE  Lost'
  <2>1. \A f \in File : server'[j][f] # "live"
    BY <1>2 DEF Forget
  <2>2. server'[j] # NoTransfer
    BY <1>2, ServerSteps DEF Forget, ServerGoesOn
  <2>3. \A i \in Job : i # j => forgotten'[i] = forgotten[i]
    BY <1>2 DEF Forget
  <2> QED  BY <2>1, <2>2, <2>3, ServerSteps DEF Lost, ServerGoesOn
<1>3. ASSUME NEW a \in Agent, AgentNext(a)
      PROVE  UNCHANGED forgotten
  BY <1>3 DEF AgentNext, AgentUpset, TreatStep, MonitorStep, Leave, Submission, submit, SubmitUnanswered, Start,
           getActiveJobs, monitor, cancelNonExistingJob, updateFileStatus, updateJobStatus,
           getNonFinishedOperations, NoneToTreat, callback, _updateRmsOperationStatus, CheckRequest, LeaveOut,
           persistOperation, kickStuck, Kick, MonitorFails, UpdateFails, PutFails, TreatFails, Crash, outside
<1> QED
  BY <1>1, <1>2, <1>3 DEF Next, Elsewhere, Transfer, PutRequest, Cancel, Close, Delete, ResetFailed,
              _checkExistingFTS3Operations, Unheard, RequestBecomes,
                          vars, outside

\* Who writes the rows of the files and of the jobs.
LEMMA WhoWrites ==
  ASSUME NEW a \in Agent, AgentNext(a)
  PROVE  \/ UNCHANGED <<file, row>>
         \/ \E j \in Job : \/ cancelNonExistingJob(a, j)
                           \/ \E f \in File : updateFileStatus(a, j, f)
                           \/ updateJobStatus(a, j)
         \/ persistOperation(a)
BY DEF AgentNext, AgentUpset, TreatStep, MonitorStep, Leave, Submission, submit, SubmitUnanswered, Start,
       getActiveJobs, monitor, getNonFinishedOperations, NoneToTreat, callback, _updateRmsOperationStatus,
       CheckRequest, LeaveOut, kickStuck, Kick, MonitorFails, UpdateFails, PutFails, TreatFails, Crash, db

LEMMA ElsewhereWritesNothing ==
  ASSUME Elsewhere \/ UNCHANGED vars
  PROVE  UNCHANGED <<db, agents>>
BY DEF Elsewhere, Forget, Transfer, PutRequest, Cancel, Close, Delete, ResetFailed,
              _checkExistingFTS3Operations, Unheard, RequestBecomes, vars, db, agents

\* What becomes of the copy of the agent that moves.
LEMMA CopySteps ==
  ASSUME Typed, NEW a \in Agent, AgentNext(a), Treats(a)'
  PROVE  \/ getNonFinishedOperations(a)
         \/ /\ Treats(a)
            /\ \/ copy'[a].row = copy[a].row /\ copy'[a].file = copy[a].file
               \/ CheckRequest(a)
               \/ \E j \in Job, files \in SUBSET copy[a].left : \E started \in SUBSET files : \E same \in SUBSET (files \ started) :
                    submit(a, j, files, started, same)
               \/ \E f \in File : LeaveOut(a, f)
<1> USE TypeParts DEF Typed, AgentsTyped
<1>1. CASE getActiveJobs(a)
  BY <1>1 DEF getActiveJobs, Goes, Treats
<1>2. ASSUME NEW j \in Job, MonitorStep(a, j) \/ MonitorFails(a, j) \/ UpdateFails(a, j)
      PROVE  UNCHANGED <<pc, copy>>
  BY <1>2 DEF MonitorStep, monitor, cancelNonExistingJob, updateFileStatus, updateJobStatus,
              MonitorFails, UpdateFails
<1>3. CASE callback(a) \/ _updateRmsOperationStatus(a) \/ PutFails(a)
  <2>1. Treats(a)
    BY <1>3 DEF callback, _updateRmsOperationStatus, PutFails, Treats
  <2>2. copy[a] \in Copies
    BY <2>1, TreatedCopy
  <2>3. copy'[a].row = copy[a].row /\ copy'[a].file = copy[a].file
    BY <1>3, <2>2 DEF callback, _updateRmsOperationStatus, PutFails, Copies
  <2> QED  BY <2>1, <2>3
<1>4. ASSUME NEW j \in Job, NEW files \in SUBSET copy[a].left, SubmitUnanswered(a, j, files)
      PROVE  Treats(a) /\ copy'[a].row = copy[a].row /\ copy'[a].file = copy[a].file
  <2>1. Treats(a)
    BY <1>4 DEF SubmitUnanswered, Treats
  <2>2. copy[a] \in Copies
    BY <2>1, TreatedCopy
  <2> QED  BY <1>4, <2>1, <2>2 DEF SubmitUnanswered, Copies
<1>5. ~(persistOperation(a) \/ TreatFails(a) \/ NoneToTreat(a) \/ kickStuck(a) \/ Crash(a))
  BY DEF persistOperation, TreatFails, NoneToTreat, kickStuck, Kick, Crash, Goes, Treats
<1>6. ASSUME NEW j \in Job, NEW files \in SUBSET copy[a].left, NEW started \in SUBSET files, NEW same \in SUBSET (files \ started),
             submit(a, j, files, started, same)
      PROVE  Treats(a)
  BY <1>6 DEF submit, Treats
<1>7. ASSUME NEW f \in File, LeaveOut(a, f)
      PROVE  Treats(a)
  BY <1>7 DEF LeaveOut, Treats
<1>8. CheckRequest(a) => Treats(a)
  BY DEF CheckRequest, Treats
<1> QED
  BY <1>1, <1>2, <1>3, <1>4, <1>5, <1>6, <1>7, <1>8
     DEF AgentNext, AgentUpset, TreatStep, Leave, Submission, Treats

\* CheckRequest gives up files, or the operation.
GivenUp(a) ==
    /\ Treats(a)
    /\ copy[a] \in Copies
    /\ copy'[a].row = copy[a].row
    /\ \A f \in File : \/ copy'[a].file[f] = copy[a].file[f]
                       \/ copy'[a].file[f] = [copy[a].file[f] EXCEPT !.status = "Defunct"]

LEMMA CheckedCopy ==
  ASSUME TypeOK, NEW a \in Agent, CheckRequest(a)
  PROVE  GivenUp(a)
<1>1. Treats(a) /\ copy[a] \in Copies
  BY TreatedCopy DEF CheckRequest, Treats
<1>2. CASE request \in {"Canceled", "Gone"}
  BY <1>1, <1>2, TypeParts DEF CheckRequest, AgentsTyped, Copies, GivenUp
<1>3. CASE request \notin {"Canceled", "Gone"}
  <2>1. copy'[a] = _getFilesToSubmit(copy[a])
    BY <1>3, TypeParts DEF CheckRequest, AgentsTyped
  <2>2. /\ _getFilesToSubmit(copy[a]).row = copy[a].row
        /\ \A f \in File :
             \/ _getFilesToSubmit(copy[a]).file[f] = copy[a].file[f]
             \/ _getFilesToSubmit(copy[a]).file[f] = [copy[a].file[f] EXCEPT !.status = "Defunct"]
    <3> DEFINE c == copy[a]
    <3>1. c \in Copies
      BY <1>1
    <3> HIDE DEF c
    <3>2. /\ _getFilesToSubmit(c).row = c.row
          /\ \A f \in File :
               \/ _getFilesToSubmit(c).file[f] = c.file[f]
               \/ _getFilesToSubmit(c).file[f] = [c.file[f] EXCEPT !.status = "Defunct"]
      BY <3>1 DEF _getFilesToSubmit, Copies
    <3> QED  BY <3>2 DEF c
  <2> QED  BY <1>1, <2>1, <2>2 DEF GivenUp
<1> QED  BY <1>2, <1>3

\* A job never loses its row.
LEMMA RowsStay ==
  ASSUME Typed, Known, [Next]_vars, NEW j \in Job, row[j] # "none"
  PROVE  row'[j] # "none"
<1> USE TypeParts DEF Typed, DatabaseTyped, JobRows
<1>1. ASSUME NEW a \in Agent, AgentNext(a)
      PROVE  row'[j] # "none"
  <2>1. ASSUME NEW i \in Job, cancelNonExistingJob(a, i) \/ updateJobStatus(a, i)
        PROVE  row'[j] # "none"
    BY <2>1 DEF cancelNonExistingJob, updateJobStatus
  <2>2. ASSUME NEW i \in Job, NEW f \in File, updateFileStatus(a, i, f)
        PROVE  row'[j] # "none"
    BY <2>2 DEF updateFileStatus
  <2>3. CASE persistOperation(a)
    BY <2>3 DEF persistOperation, Known, Treats
  <2> QED  BY <1>1, <2>1, <2>2, <2>3, WhoWrites
<1>2. CASE Elsewhere \/ UNCHANGED vars
  BY <1>2, ElsewhereWritesNothing DEF db
<1> QED  BY <1>1, <1>2 DEF Next

\* A job only gets a row when the operation is persisted.
LEMMA RowsCome ==
  ASSUME Typed, Seen, NEW a \in Agent, AgentNext(a), ~persistOperation(a),
         NEW j \in Job, row'[j] # "none"
  PROVE  row[j] # "none"
<1> USE TypeParts DEF Typed, DatabaseTyped, JobRows
<1>1. ASSUME NEW i \in Job, cancelNonExistingJob(a, i) \/ updateJobStatus(a, i)
      PROVE  row[j] # "none"
  <2>1. row[i] # "none"
    BY <1>1 DEF cancelNonExistingJob, updateJobStatus, At, Seen
  <2>2. i # j => row'[j] = row[j]
    BY <1>1 DEF cancelNonExistingJob, updateJobStatus
  <2> QED  BY <2>1, <2>2
<1>2. ASSUME NEW i \in Job, NEW f \in File, updateFileStatus(a, i, f)
      PROVE  row[j] # "none"
  BY <1>2 DEF updateFileStatus
<1> QED  BY <1>1, <1>2, WhoWrites

LEMMA NextKnown ==
  ASSUME Typed, Known, Seen, [Next]_vars
  PROVE  Known'
<1> USE DEF Typed
<1>s. \A j \in Job : server[j] # NoTransfer => server'[j] # NoTransfer
  BY ServerSteps DEF ServerGoesOn
<1>n. NoTransfer' = NoTransfer
  BY DEF NoTransfer
<1> DEFINE Copied(a) == Treats(a) =>
             \A j \in Job : /\ copy[a].row[j] # "none" => server[j] # NoTransfer
                            /\ row[j] # "none" => copy[a].row[j] # "none"
<1>1. ASSUME NEW a \in Agent, AgentNext(a)
      PROVE  Known'
  <2>1. \A j \in Job : row'[j] # "none" => server'[j] # NoTransfer'
    <3>1. CASE persistOperation(a)
      <4>1. row' = copy[a].row /\ Treats(a)
        BY <3>1 DEF persistOperation, Treats
      <4> QED  BY <4>1, <1>s, <1>n DEF Known
    <3>2. CASE ~persistOperation(a)
      BY <1>1, <3>2, <1>s, <1>n, RowsCome DEF Known
    <3> QED  BY <3>1, <3>2
  <2>2. ASSUME NEW b \in Agent, b # a
        PROVE  Copied(b)'
    <3>1. copy'[b] = copy[b] /\ (Treats(b)' <=> Treats(b))
      BY <1>1, <2>2, OthersStay DEF Treats
    <3>2. CASE persistOperation(a)
      BY <2>2, <3>1, <3>2 DEF Alone, persistOperation, Treats
    <3>3. CASE ~persistOperation(a)
      BY <1>1, <3>1, <3>3, <1>s, <1>n, RowsCome DEF Known
    <3> QED  BY <3>2, <3>3
  <2>3. Copied(a)'
    <3> SUFFICES ASSUME Treats(a)', NEW j \in Job
                 PROVE  /\ copy'[a].row[j] # "none" => server'[j] # NoTransfer'
                        /\ row'[j] # "none" => copy'[a].row[j] # "none"
      OBVIOUS
    <3>p. ~persistOperation(a)
      BY TypeParts DEF persistOperation, Goes, Treats, AgentsTyped
    <3>1. CASE getNonFinishedOperations(a)
      <4>1. copy'[a].row = row /\ row' = row
        BY <3>1, TypeParts DEF getNonFinishedOperations, AgentsTyped
      <4> QED  BY <4>1, <1>s, <1>n DEF Known
    <3>2. CASE copy'[a].row = copy[a].row /\ Treats(a)
      BY <1>1, <3>2, <3>p, <1>s, <1>n, RowsCome DEF Known
    <3>3. CASE CheckRequest(a)
      BY <3>2, <3>3, CheckedCopy DEF GivenUp
    <3>4. ASSUME NEW i \in Job, NEW files \in SUBSET copy[a].left, NEW started \in SUBSET files, NEW same \in SUBSET (files \ started),
                 submit(a, i, files, started, same)
          PROVE  /\ copy'[a].row[j] # "none" => server'[j] # NoTransfer'
                 /\ row'[j] # "none" => copy'[a].row[j] # "none"
      <4>1. Treats(a) /\ copy[a] \in Copies
        BY <3>4, TreatedCopy DEF submit, Treats
      <4>2. copy'[a].row = [copy[a].row EXCEPT ![i] = "Active"]
        BY <3>4, TypeParts DEF submit, WithJob, AgentsTyped
      <4>3. server'[i] # NoTransfer
        <5>1. PICK f \in File : f \in started
          BY <3>4, <4>1 DEF submit, Copies
        <5>2. server'[i][f] = "live"
          BY <3>4, <5>1, TypeParts DEF submit, Start, OutsideTyped
        <5> QED  BY <5>2 DEF NoTransfer
      <4>4. row' = row
        BY <3>4 DEF submit, Start, db
      <4>5. copy[a].row \in [Job -> {"none", "Active", "Final"}]
        BY <4>1 DEF Copies, JobRows
      <4> QED  BY <4>1, <4>2, <4>3, <4>4, <4>5, <1>s, <1>n DEF Known
    <3>5. ASSUME NEW f \in File, LeaveOut(a, f)
          PROVE  Treats(a) /\ copy'[a].row = copy[a].row
      <4>1. Treats(a) /\ copy[a] \in Copies
        BY <3>5, TreatedCopy DEF LeaveOut, Treats
      <4> QED  BY <3>5, <4>1, TypeParts DEF LeaveOut, Without, AgentsTyped, Copies
    <3> QED  BY <1>1, <3>1, <3>2, <3>3, <3>4, <3>5, CopySteps
  <2> QED  BY <2>1, <2>2, <2>3 DEF Known
<1>2. CASE Elsewhere \/ UNCHANGED vars
  BY <1>2, <1>s, <1>n, ElsewhereWritesNothing DEF Known, db, agents, Treats
<1> QED  BY <1>1, <1>2 DEF Next

\* What becomes of a thread of the agent that moves.
LEMMA ThreadSteps ==
  ASSUME Typed, NEW a \in Agent, AgentNext(a), NEW j \in Job
  PROVE  \/ thread'[a][j] = thread[a][j]
         \/ thread'[a][j] = NoThread
         \/ thread'[a][j] = [NoThread EXCEPT !.pc = "query"] /\ row[j] = "Active"
         \/ thread'[a][j] = [NoThread EXCEPT !.pc = "none"]
         \/ monitor(a, j)
         \/ \E f \in File : updateFileStatus(a, j, f)
<1> USE TypeParts DEF Typed, AgentsTyped
<1>1. CASE getActiveJobs(a)
  BY <1>1 DEF getActiveJobs
<1>2. ASSUME NEW i \in Job, MonitorStep(a, i) \/ MonitorFails(a, i) \/ UpdateFails(a, i)
      PROVE  \/ thread'[a][j] = thread[a][j]
             \/ thread'[a][j] = NoThread
             \/ monitor(a, j)
             \/ \E f \in File : updateFileStatus(a, j, f)
  <2>1. ASSUME NEW t, Thread(a, i, t)
        PROVE  thread'[a][i] = t /\ (i # j => thread'[a][j] = thread[a][j])
    BY <2>1 DEF Thread
  <2>2. \/ monitor(a, i)
        \/ \E f \in File : updateFileStatus(a, i, f)
        \/ Thread(a, i, NoThread)
    BY <1>2 DEF MonitorStep, cancelNonExistingJob, updateJobStatus, MonitorFails, UpdateFails
  <2>3. \E t : Thread(a, i, t)
    BY <2>2 DEF monitor, updateFileStatus
  <2>4. CASE i # j
    BY <2>1, <2>3, <2>4
  <2>5. CASE i = j
    BY <2>1, <2>2, <2>5
  <2> QED  BY <2>4, <2>5
<1>3. CASE Crash(a)
  BY <1>3 DEF Crash
<1>4. \/ UNCHANGED thread
      \/ getActiveJobs(a)
      \/ \E i \in Job : MonitorStep(a, i) \/ MonitorFails(a, i) \/ UpdateFails(a, i)
      \/ Crash(a)
  BY DEF AgentNext, AgentUpset, TreatStep, Leave, Submission, submit, SubmitUnanswered, Start,
         getNonFinishedOperations, NoneToTreat, callback, _updateRmsOperationStatus,
         CheckRequest, LeaveOut, persistOperation, kickStuck, Kick, PutFails, TreatFails
<1> QED  BY <1>1, <1>2, <1>3, <1>4

LEMMA NextSeen ==
  ASSUME Typed, Known, Seen, [Next]_vars
  PROVE  Seen'
<1> USE DEF Typed
<1>f. \A j \in Job : forgotten[j] => forgotten'[j]
  <2>1. ASSUME NEW a \in Agent, AgentNext(a)
        PROVE  UNCHANGED forgotten
    BY <2>1 DEF AgentNext, AgentUpset, TreatStep, MonitorStep, Leave, Submission, submit, SubmitUnanswered, Start,
         getActiveJobs, monitor, cancelNonExistingJob, updateFileStatus, updateJobStatus,
         getNonFinishedOperations, NoneToTreat, callback, _updateRmsOperationStatus, CheckRequest, LeaveOut,
         persistOperation, kickStuck, Kick, MonitorFails, UpdateFails, PutFails, TreatFails, Crash, outside
  <2> QED
    BY <2>1, TypeParts DEF Next, Elsewhere, Forget, Transfer, PutRequest, Cancel, Close, Delete, ResetFailed,
              _checkExistingFTS3Operations, Unheard, RequestBecomes,
                vars, outside, OutsideTyped
<1> DEFINE Sees(a, j) ==
             /\ thread[a][j].pc # "none" => row[j] # "none"
             /\ thread[a][j].pc = "cancel" => forgotten[j]
             /\ \A f \in DOMAIN thread[a][j].seen :
                  thread[a][j].seen[f] # "live" => server[j][f] = thread[a][j].seen[f]
<1>s. ASSUME NEW a \in Agent, NEW j \in Job, thread'[a][j] = thread[a][j]
      PROVE  Sees(a, j)'
  <2>1. DOMAIN thread[a][j].seen \subseteq File
        /\ \A f \in DOMAIN thread[a][j].seen : thread[a][j].seen[f] \in {"live", "Finished", "Failed"}
    BY TypeParts, AnswersGive DEF AgentsTyped, Threads
  <2>2. \A f \in DOMAIN thread[a][j].seen :
          thread[a][j].seen[f] # "live" => server'[j][f] = thread[a][j].seen[f]
    BY <2>1, ServerSteps DEF Seen, ServerGoesOn
  <2> QED  BY <1>s, <1>f, <2>2, RowsStay DEF Seen
<1>1. ASSUME NEW a \in Agent, AgentNext(a)
      PROVE  Seen'
  <2>1. ASSUME NEW b \in Agent, b # a, NEW j \in Job
        PROVE  Sees(b, j)'
    BY <1>1, <2>1, <1>s, OthersStay
  <2>2. ASSUME NEW j \in Job
        PROVE  Sees(a, j)'
    <3>1. CASE thread'[a][j] = NoThread \/ thread'[a][j] = [NoThread EXCEPT !.pc = "none"]
      BY <3>1 DEF NoThread, NoAnswer
    <3>2. CASE thread'[a][j] = [NoThread EXCEPT !.pc = "query"] /\ row[j] = "Active"
      BY <3>2, RowsStay DEF NoThread, NoAnswer
    <3>3. CASE monitor(a, j)
      <4>1. row'[j] # "none"
        BY <3>3, RowsStay DEF monitor, At, Seen
      <4>2. UNCHANGED server
        BY <3>3 DEF monitor, outside
      <4>3. CASE forgotten[j]
        <5>1. thread'[a][j] = [NoThread EXCEPT !.pc = "cancel"]
          BY <3>3, <4>3, TypeParts DEF monitor, Thread, AgentsTyped
        <5> QED  BY <4>1, <4>3, <5>1, <1>f DEF NoThread, NoAnswer
      <4>4. CASE ~forgotten[j]
        <5> DEFINE transfers == {f \in File : server[j][f] # "none"}
                   seen == [f \in transfers |-> server[j][f]]
        <5>1. thread'[a][j] = [pc |-> "update", seen |-> seen, over |-> \A f \in transfers : seen[f] # "live"]
          BY <3>3, <4>4, TypeParts DEF monitor, Thread, AgentsTyped
        <5> QED  BY <4>1, <4>2, <5>1
      <4> QED  BY <4>3, <4>4
    <3>4. ASSUME NEW f \in File, updateFileStatus(a, j, f)
          PROVE  Sees(a, j)'
      <4> DEFINE t == thread[a][j]
      <4>1. t \in Threads /\ t.pc = "update"
        BY <3>4, TypeParts DEF AgentsTyped, updateFileStatus, At
      <4>2. thread'[a][j] = [t EXCEPT !.seen = [g \in DOMAIN t.seen \ {f} |-> t.seen[g]]]
        BY <3>4, TypeParts DEF updateFileStatus, Thread, AgentsTyped
      <4>3. UNCHANGED <<server, row>>
        BY <3>4 DEF updateFileStatus, outside
      <4>4. row[j] # "none" /\ \A g \in DOMAIN t.seen : t.seen[g] # "live" => server[j][g] = t.seen[g]
        BY <4>1 DEF Seen
      <4> HIDE DEF t
      <4> QED  BY <4>1, <4>2, <4>3, <4>4 DEF Threads
    <3> QED  BY <1>1, <3>1, <3>2, <3>3, <3>4, <1>s, ThreadSteps
  <2> QED  BY <2>1, <2>2 DEF Seen
<1>2. CASE Elsewhere \/ UNCHANGED vars
  BY <1>2, <1>s, ElsewhereWritesNothing DEF Seen, agents
<1> QED  BY <1>1, <1>2 DEF Next

\* submit gives files to a job that the server has just taken.
GivenToJob(a, j, files, started, same) ==
    /\ Treats(a)
    /\ files \subseteq File
    /\ server[j] = NoTransfer
    /\ server' = [server EXCEPT ![j] = [f \in File |-> IF f \in started THEN "live" ELSE "none"]]
    /\ copy'[a].row = [copy[a].row EXCEPT ![j] = "Active"]
    /\ \A f \in File \ files : copy'[a].file[f] = copy[a].file[f]
    /\ \A f \in files :
        /\ copy[a].file[f].status \in {"New", "Failed"}
        /\ copy'[a].file[f].guid = j
        /\ copy'[a].file[f].status = IF f \in started THEN "Submitted"
                                       ELSE IF f \in same THEN "Defunct" ELSE copy[a].file[f].status

LEMMA SubmittedCopy ==
  ASSUME TypeOK, AttemptsLeft, NEW a \in Agent, NEW j \in Job, NEW files \in SUBSET copy[a].left,
         NEW started \in SUBSET files, NEW same \in SUBSET (files \ started), submit(a, j, files, started, same)
  PROVE  GivenToJob(a, j, files, started, same)
<1>1. Treats(a) /\ copy[a] \in Copies /\ pc[a] = "submitting"
  BY TreatedCopy DEF submit, Treats
<1>2. files \subseteq File
  BY <1>1 DEF Copies
<1>3. copy'[a] = WithJob(copy[a], j, files, started, same)
  BY TypeParts DEF submit, AgentsTyped
<1>4. /\ WithJob(copy[a], j, files, started, same).row = [copy[a].row EXCEPT ![j] = "Active"]
      /\ \A f \in File \ files : WithJob(copy[a], j, files, started, same).file[f] = copy[a].file[f]
      /\ \A f \in File : f \in files =>
           /\ WithJob(copy[a], j, files, started, same).file[f].guid = j
           /\ WithJob(copy[a], j, files, started, same).file[f].status =
                IF f \in started THEN "Submitted"
                ELSE IF f \in same THEN "Defunct" ELSE copy[a].file[f].status
  BY DEF WithJob
<1>5. server[j] = NoTransfer
      /\ server' = [server EXCEPT ![j] = [f \in File |-> IF f \in started THEN "live" ELSE "none"]]
  BY DEF submit, Start, IsNext
<1>6. \A f \in files : copy[a].file[f].status \in {"New", "Failed"}
  BY <1>1 DEF AttemptsLeft
<1> QED  BY <1>1, <1>2, <1>3, <1>4, <1>5, <1>6 DEF GivenToJob

\* LeaveOut gives up one file, or keeps it as it is in all but its attempts.
KeptFromJobs(a, f) ==
    /\ Treats(a)
    /\ copy'[a].row = copy[a].row
    /\ copy[a].file[f].status \in {"New", "Failed"}
    /\ copy'[a].file[f].guid = copy[a].file[f].guid
    /\ copy'[a].file[f].status \in {copy[a].file[f].status, "Defunct"}
    /\ \A g \in File \ {f} : copy'[a].file[g] = copy[a].file[g]

LEMMA LeftCopy ==
  ASSUME TypeOK, AttemptsLeft, NEW a \in Agent, NEW f \in File, LeaveOut(a, f)
  PROVE  KeptFromJobs(a, f)
<1>1. Treats(a) /\ copy[a] \in Copies /\ pc[a] = "submitting" /\ f \in copy[a].left
  BY TreatedCopy DEF LeaveOut, Treats
<1>2. PICK is \in LeftOut(copy[a].file[f]) : copy'[a] = Without(copy[a], f, is)
  BY TypeParts DEF LeaveOut, AgentsTyped
<1>3. copy[a].file[f] \in FileRow /\ copy[a].file[f].status \in {"New", "Failed"}
      /\ copy[a].file[f].attempt < MaxAttempts
  BY <1>1, RowsOfFiles DEF Copies, AttemptsLeft
<1>4. is.guid = copy[a].file[f].guid /\ is.status \in {copy[a].file[f].status, "Defunct"}
  BY <1>3, LeftOutTyped
<1>5. /\ Without(copy[a], f, is).row = copy[a].row
      /\ Without(copy[a], f, is).file[f] = is
      /\ \A g \in File \ {f} : Without(copy[a], f, is).file[g] = copy[a].file[g]
  BY <1>1 DEF Without, Copies, FileRows
<1> QED  BY <1>1, <1>2, <1>3, <1>4, <1>5 DEF KeptFromJobs

-----------------------------------------------------------------------------
(***************************************************************************)
(* A file has the ftsGUID of the job that transfers it.                    *)
(***************************************************************************)
\* The server goes on, and the rows stay.
LEMMA OwnedStays ==
  ASSUME NEW jobs, NEW jobs1, NEW files, NEW rows, Owned(jobs, files, rows),
         \A j \in Job : rows[j] # "none" => jobs[j] # NoTransfer,
         \A j \in Job, f \in File : jobs[j] # NoTransfer /\ jobs1[j][f] = "live" => jobs[j][f] = "live"
  PROVE  Owned(jobs1, files, rows)
BY DEF Owned

LEMMA NextOwns ==
  ASSUME Typed, Known, Lost, Seen, Owns, [Next]_vars
  PROVE  Owns'
<1> USE DEF Typed
<1>s. \A j \in Job, f \in File : server[j] # NoTransfer /\ server'[j][f] = "live" => server[j][f] = "live"
  BY ServerSteps DEF ServerGoesOn
<1>d. Owned(server', file, row)
  BY <1>s, OwnedStays DEF Owns, Known
<1>c. ASSUME NEW b \in Agent, Treats(b)
      PROVE  Owned(server', copy[b].file, copy[b].row)
  BY <1>c, <1>s, OwnedStays DEF Owns, Known
<1>1. ASSUME NEW a \in Agent, AgentNext(a)
      PROVE  Owns'
  <2>1. Owned(server', file', row')
    <3>1. CASE UNCHANGED <<file, row>>
      BY <3>1, <1>d
    <3>2. ASSUME NEW i \in Job, cancelNonExistingJob(a, i)
          PROVE  Owned(server', file', row')
      <4>1. UNCHANGED server /\ \A f \in File : server[i][f] # "live"
        BY <3>2 DEF cancelNonExistingJob, outside, At, Seen, Lost
      <4>2. \A j \in Job : row'[j] # "none" => row[j] # "none"
        BY <1>1, <3>2, RowsCome, TypeParts DEF cancelNonExistingJob, persistOperation, AgentsTyped, At
      <4>3. \A f \in File : file[f].guid # i => file'[f] = file[f]
        BY <3>2 DEF cancelNonExistingJob
      <4> QED  BY <4>1, <4>2, <4>3 DEF Owns, Owned
    <3>3. ASSUME NEW i \in Job, NEW f \in File, updateFileStatus(a, i, f)
          PROVE  Owned(server', file', row')
      <4>1. UNCHANGED <<server, row>>
        BY <3>3 DEF updateFileStatus, outside
      <4>2. \A g \in File : g # f \/ file[g].guid # i => file'[g] = file[g]
        BY <3>3 DEF updateFileStatus, Updatable
      <4>3. server[i][f] = "live" => \/ file'[f] = file[f]
                                     \/ file'[f].guid = i /\ file'[f].status = "Submitted"
        <5>1. server[i][f] = "live" => thread[a][i].seen[f] = "live"
          <6>1. thread[a][i].seen[f] \in {"live", "Finished", "Failed"} /\ f \in DOMAIN thread[a][i].seen
            BY <3>3, AnswersGive, TypeParts DEF updateFileStatus, AgentsTyped, Threads
          <6> QED  BY <6>1 DEF Seen
        <5>2. file[f] \in FileRow
          BY RowsOfFiles, TypeParts DEF DatabaseTyped
        <5> QED  BY <3>3, <5>1, <5>2 DEF updateFileStatus, Updatable, Reported, FileRow
      <4> QED  BY <4>1, <4>2, <4>3 DEF Owns, Owned
    <3>4. ASSUME NEW i \in Job, updateJobStatus(a, i)
          PROVE  Owned(server', file', row')
      <4>1. UNCHANGED file
        BY <3>4 DEF updateJobStatus
      <4>2. \A j \in Job : row'[j] # "none" => row[j] # "none"
        BY <1>1, <3>4, RowsCome, TypeParts DEF updateJobStatus, persistOperation, AgentsTyped, At
      <4> QED  BY <4>1, <4>2, <1>d DEF Owned
    <3>5. CASE persistOperation(a)
      <4>1. Treats(a) /\ file' = copy[a].file /\ row' = copy[a].row
        BY <3>5 DEF persistOperation, Treats
      <4> QED  BY <4>1, <1>c
    <3> QED  BY <1>1, <3>1, <3>2, <3>3, <3>4, <3>5, WhoWrites
  <2>2. ASSUME NEW b \in Agent, b # a, Treats(b)'
        PROVE  Owned(server', copy'[b].file, copy'[b].row)
    BY <1>1, <2>2, <1>c, OthersStay DEF Treats
  <2>3. ASSUME Treats(a)'
        PROVE  Owned(server', copy'[a].file, copy'[a].row)
    <3>1. CASE getNonFinishedOperations(a)
      <4>1. copy'[a].file = file /\ copy'[a].row = row
        BY <3>1, TypeParts DEF getNonFinishedOperations, AgentsTyped
      <4> QED  BY <4>1, <1>d
    <3>2. CASE Treats(a) /\ copy'[a].row = copy[a].row /\ copy'[a].file = copy[a].file
      BY <3>2, <1>c
    <3>3. CASE CheckRequest(a)
      <4>g. GivenUp(a)
        BY <3>3, CheckedCopy
      <4>1. Treats(a) /\ copy[a] \in Copies /\ copy'[a].row = copy[a].row
        BY <4>g DEF GivenUp
      <4>2. \A f \in File : copy[a].file[f] \in FileRow
        BY <4>1, RowsOfFiles DEF Copies
      <4>3. \A f \in File : /\ copy'[a].file[f].guid = copy[a].file[f].guid
                            /\ copy'[a].file[f].status \in {copy[a].file[f].status, "Defunct"}
        BY <4>g, <4>2 DEF FileRow, GivenUp
      <4> QED  BY <4>1, <4>3, <1>c DEF Owned
    <3>4. ASSUME NEW i \in Job, NEW files \in SUBSET copy[a].left, NEW started \in SUBSET files, NEW same \in SUBSET (files \ started),
                 submit(a, i, files, started, same)
          PROVE  Owned(server', copy'[a].file, copy'[a].row)
      <4>g. GivenToJob(a, i, files, started, same)
        BY <3>4, SubmittedCopy
      <4>1. Treats(a)
        BY <4>g DEF GivenToJob
      <4>2. \A f \in File : /\ server'[i][f] = "live" => f \in started
                            /\ \A j \in Job : j # i => server'[j][f] = server[j][f]
        BY <4>g, TypeParts DEF OutsideTyped, GivenToJob
      <4>3. \A j \in Job : j # i => copy'[a].row[j] = copy[a].row[j]
        <5>1. copy[a].row \in [Job -> {"none", "Active", "Final"}]
          BY <4>1, TreatedCopy DEF Copies, JobRows
        <5> QED  BY <4>g, <5>1 DEF GivenToJob
      <4>4. \A f \in started : copy'[a].file[f].guid = i /\ copy'[a].file[f].status = "Submitted"
        BY <4>g DEF GivenToJob
      <4>5. \A f \in File : \/ copy'[a].file[f] = copy[a].file[f]
                            \/ copy[a].file[f].status \in {"New", "Failed"}
        BY <4>g DEF GivenToJob
      <4>6. Owned(server, copy[a].file, copy[a].row)
        BY <4>1 DEF Owns
      <4> QED  BY <4>2, <4>3, <4>4, <4>5, <4>6 DEF Owned
    <3>5. ASSUME NEW f \in File, LeaveOut(a, f)
          PROVE  Owned(server', copy'[a].file, copy'[a].row)
      <4>g. KeptFromJobs(a, f)
        BY <3>5, LeftCopy
      <4>1. Owned(server', copy[a].file, copy[a].row)
        BY <4>g, <1>c DEF KeptFromJobs
      <4> QED  BY <4>g, <4>1 DEF Owned, KeptFromJobs
    <3> QED  BY <1>1, <2>3, <3>1, <3>2, <3>3, <3>4, <3>5, CopySteps
  <2> QED  BY <2>1, <2>2, <2>3 DEF Owns
<1>2. CASE Elsewhere \/ UNCHANGED vars
  BY <1>2, <1>d, <1>c, ElsewhereWritesNothing DEF Owns, db, agents, Treats
<1> QED  BY <1>1, <1>2 DEF Next

LEMMA InitFollows == Init => Follows
<1> SUFFICES ASSUME Init PROVE Follows
  OBVIOUS
<1>1. Typed
  BY InitTyped
<1>2. Known /\ Lost
  BY DEF Init, Known, Lost, Treats
<1>3. Seen
  BY DEF Init, Seen, NoThread, NoAnswer
<1>4. Owns
  BY DEF Init, Owns, Owned, Treats
<1> QED  BY <1>1, <1>2, <1>3, <1>4 DEF Follows

LEMMA NextFollows ==
  ASSUME Follows, [Next]_vars
  PROVE  Follows'
BY NextTypedAll, NextKnown, NextLost, NextSeen, NextOwns DEF Follows, Typed

\* A late answer about a job does not free a file that a newer job has taken:
\* two jobs that the database knows never transfer the same file.
THEOREM FTS3OneTransfer == Spec => []OneTransfer
<1>1. Follows => OneTransfer
  <2> SUFFICES ASSUME Follows, NEW f \in File
               PROVE  Cardinality(Running(f)) <= 1
    BY DEF OneTransfer
  <2>1. \A j \in Running(f) : j = file[f].guid
    BY DEF Running, Follows, Owns, Owned
  <2>2. CASE Running(f) = {}
    BY <2>2, FS_EmptySet
  <2>3. CASE Running(f) # {}
    <3>1. Running(f) = {file[f].guid}
      BY <2>1, <2>3
    <3>2. Cardinality({file[f].guid}) = 1
      BY FS_Singleton
    <3> QED  BY <3>1, <3>2
  <2> QED  BY <2>2, <2>3
<1> QED  BY <1>1, InitFollows, NextFollows, PTL DEF Spec

-----------------------------------------------------------------------------
(***************************************************************************)
(* What the request takes for Done.                                        *)
(***************************************************************************)
LEMMA WhoTells ==
  ASSUME NEW a \in Agent, AgentNext(a)
  PROVE  UNCHANGED told \/ _updateRmsOperationStatus(a)
BY DEF AgentNext, AgentUpset, TreatStep, MonitorStep, Leave, Submission, submit, SubmitUnanswered, Start,
       getActiveJobs, monitor, cancelNonExistingJob, updateFileStatus, updateJobStatus,
       getNonFinishedOperations, NoneToTreat, callback, CheckRequest, LeaveOut,
       persistOperation, kickStuck, Kick, MonitorFails, UpdateFails, PutFails, TreatFails, Crash, rms

\* A file of the database that is finished, or given up and in no job, stays so
\* until the operation is persisted.
LEMMA FinalStays ==
  ASSUME Typed, NEW a \in Agent, AgentNext(a), ~persistOperation(a),
         NEW f \in File, file[f].guid = 0, file[f].status \in FinalFile
  PROVE  file'[f] = file[f]
<1>1. ASSUME NEW j \in Job, cancelNonExistingJob(a, j)
      PROVE  file'[f] = file[f]
  <2>1. j # 0
    BY DEF Job
  <2>2. file[f].guid # j
    BY <2>1
  <2> QED  BY <1>1, <2>2 DEF cancelNonExistingJob
<1>2. ASSUME NEW j \in Job, NEW g \in File, updateFileStatus(a, j, g)
      PROVE  file'[f] = file[f]
  BY <1>2, TypeParts DEF updateFileStatus, Updatable, Typed, DatabaseTyped, FileRows
<1>3. ASSUME NEW j \in Job, updateJobStatus(a, j)
      PROVE  file'[f] = file[f]
  BY <1>3 DEF updateJobStatus
<1> QED  BY <1>1, <1>2, <1>3, WhoWrites

\* The file is as it was, has just been reported Finished, or is not final.
LEMMA FileSteps ==
  ASSUME Typed, Seen, NEW a \in Agent, AgentNext(a), ~persistOperation(a), NEW f \in File
  PROVE  \/ file'[f] = file[f]
         \/ file'[f].status # "Finished"
         \/ file'[f].guid = 0 /\ \E j \in Job : server[j][f] = "Finished"
<1> USE TypeParts DEF Typed, DatabaseTyped
<1>0. file[f] \in FileRow
  BY RowsOfFiles
<1>1. ASSUME NEW j \in Job, cancelNonExistingJob(a, j)
      PROVE  file'[f] = file[f] \/ file'[f].status # "Finished"
  BY <1>0, <1>1 DEF cancelNonExistingJob, FileRow
<1>2. ASSUME NEW j \in Job, NEW g \in File, updateFileStatus(a, j, g)
      PROVE  \/ file'[f] = file[f]
             \/ file'[f].status # "Finished"
             \/ file'[f].guid = 0 /\ \E i \in Job : server[i][f] = "Finished"
  <2>1. CASE g # f
    BY <1>2, <2>1 DEF updateFileStatus
  <2>2. CASE g = f
    <3> DEFINE s == thread[a][j].seen[f]
    <3>1. s # "live" => server[j][f] = s
      BY <1>2, <2>2 DEF updateFileStatus, Seen
    <3>2. file'[f] = file[f] \/ file'[f] = Reported(f, s)
      BY <1>2, <2>2 DEF updateFileStatus
    <3> HIDE DEF s
    <3> QED  BY <1>0, <3>1, <3>2 DEF Reported, FileRow
  <2> QED  BY <2>1, <2>2
<1>3. ASSUME NEW j \in Job, updateJobStatus(a, j)
      PROVE  file'[f] = file[f]
  BY <1>3 DEF updateJobStatus
<1> QED  BY <1>1, <1>2, <1>3, WhoWrites

\* The server goes on, and what was told stays.
LEMMA TransferredStays ==
  ASSUME NEW jobs, NEW jobs1, NEW files, Transferred(jobs, files),
         \A j \in Job, f \in File : jobs[j][f] = "Finished" => jobs1[j][f] = "Finished"
  PROVE  Transferred(jobs1, files)
BY DEF Transferred

LEMMA KeptStays ==
  ASSUME NEW tells, NEW jobs, NEW jobs1, NEW files, Kept(tells, jobs, files),
         \A j \in Job, f \in File : jobs[j][f] = "Finished" => jobs1[j][f] = "Finished"
  PROVE  Kept(tells, jobs1, files)
BY DEF Kept

LEMMA NextTells ==
  ASSUME Typed, Seen, Tells, [Next]_vars
  PROVE  Tells'
<1> USE DEF Typed
<1>s. \A j \in Job, f \in File : server[j][f] = "Finished" => server'[j][f] = "Finished"
  BY ServerSteps DEF ServerGoesOn
<1>d. Transferred(server', file) /\ Kept(told, server', file)
  BY <1>s, TransferredStays, KeptStays DEF Tells
<1>c. ASSUME NEW b \in Agent, Treats(b)
      PROVE  Transferred(server', copy[b].file) /\ Kept(told, server', copy[b].file)
  BY <1>c, <1>s, TransferredStays, KeptStays DEF Tells
<1>1. ASSUME NEW a \in Agent, _updateRmsOperationStatus(a), AgentNext(a)
      PROVE  Tells'
  <2>1. /\ Treats(a) /\ pc[a] = "telling" /\ copy[a] \in Copies
        /\ pc'[a] = "persisting"
    BY <1>1, TreatedCopy, TypeParts DEF _updateRmsOperationStatus, Treats, Goes, AgentsTyped
  <2>2. UNCHANGED <<file, server>> /\ copy'[a].file = copy[a].file
    BY <1>1, <2>1, TypeParts DEF _updateRmsOperationStatus, db, outside, Copies, AgentsTyped
  <2>3. told' = told \/ told' = Verdict(a)
    BY <1>1 DEF _updateRmsOperationStatus, rms
  <2>4. \A b \in Agent : Treats(b)' => b = a
    BY <1>1, <2>1, OthersStay DEF Alone, Treats
  <2>5. Kept(told', server', file') /\ Kept(told', server', copy'[a].file)
    <3>1. CASE told' = told
      BY <2>1, <2>2, <3>1, <1>c, <1>d
    <3>2. CASE told' = Verdict(a)
      <4>1. \A f \in File : told'[f] = "Done" => copy[a].file[f].status = "Finished" /\ file[f].status = "Finished"
        BY <2>1, <3>2 DEF Verdict, Tells, Reportable
      <4> QED  BY <2>1, <2>2, <4>1, <1>c, <1>d DEF Kept, Transferred, FinalFile
    <3> QED  BY <2>3, <3>1, <3>2
  <2>6. Transferred(server', file') /\ Transferred(server', copy'[a].file)
    BY <2>1, <2>2, <1>c, <1>d
  <2>7. Reportable'
    BY <2>1, <2>4 DEF Reportable, Treats
  <2> QED  BY <2>4, <2>5, <2>6, <2>7 DEF Tells
<1>2. ASSUME NEW a \in Agent, persistOperation(a), AgentNext(a)
      PROVE  Tells'
  <2>1. Treats(a) /\ file' = copy[a].file /\ told' = told
    BY <1>2 DEF persistOperation, Treats, rms
  <2>2. \A b \in Agent : ~Treats(b)'
    BY <1>2, <2>1, OthersStay, TypeParts DEF Alone, Treats, persistOperation, Goes, AgentsTyped
  <2>3. Reportable'
    BY <2>2 DEF Reportable, Treats
  <2> QED  BY <2>1, <2>2, <2>3, <1>c DEF Tells
<1>3. ASSUME NEW a \in Agent, AgentNext(a), ~_updateRmsOperationStatus(a), ~persistOperation(a)
      PROVE  Tells'
  <2>t. told' = told
    BY <1>3, WhoTells
  <2>1. Transferred(server', file')
    BY <1>3, <1>d, <1>s, FileSteps DEF Transferred
  <2>2. Kept(told', server', file')
    <3>1. \A f \in File : told[f] = "Done" => file'[f] = file[f]
      BY <1>3, FinalStays DEF Tells, Kept
    <3> QED  BY <2>t, <3>1, <1>d DEF Kept
  <2>3. ASSUME NEW b \in Agent, b # a, Treats(b)'
        PROVE  Transferred(server', copy'[b].file) /\ Kept(told', server', copy'[b].file)
    BY <1>3, <2>3, <2>t, <1>c, OthersStay DEF Treats
  <2>4. ASSUME Treats(a)'
        PROVE  Transferred(server', copy'[a].file) /\ Kept(told', server', copy'[a].file)
    <3>1. CASE getNonFinishedOperations(a)
      <4>1. copy'[a].file = file
        BY <3>1, TypeParts DEF getNonFinishedOperations, AgentsTyped
      <4> QED  BY <4>1, <2>t, <1>d
    <3>2. CASE Treats(a) /\ copy'[a].file = copy[a].file
      BY <3>2, <2>t, <1>c
    <3>3. CASE CheckRequest(a)
      <4>g. GivenUp(a)
        BY <3>3, CheckedCopy
      <4>1. \A f \in File : copy[a].file[f] \in FileRow
        BY <4>g, RowsOfFiles DEF Copies, GivenUp
      <4>2. \A f \in File : \/ copy'[a].file[f] = copy[a].file[f]
                            \/ /\ copy'[a].file[f].guid = copy[a].file[f].guid
                               /\ copy'[a].file[f].status = "Defunct"
        BY <4>g, <4>1 DEF FileRow, GivenUp
      <4>3. Treats(a)
        BY <4>g DEF GivenUp
      <4> QED  BY <4>2, <4>3, <2>t, <1>c DEF Transferred, Kept, FinalFile
    <3>4. ASSUME NEW i \in Job, NEW files \in SUBSET copy[a].left, NEW started \in SUBSET files, NEW same \in SUBSET (files \ started),
                 submit(a, i, files, started, same)
          PROVE  Transferred(server', copy'[a].file) /\ Kept(told', server', copy'[a].file)
      <4>g. GivenToJob(a, i, files, started, same)
        BY <3>4, SubmittedCopy
      <4>1. \A f \in File : \/ copy'[a].file[f] = copy[a].file[f]
                            \/ /\ copy[a].file[f].status \in {"New", "Failed"}
                               /\ copy'[a].file[f].status \in {"Submitted", "Defunct", "New", "Failed"}
        BY <4>g DEF GivenToJob
      <4>2. Treats(a)
        BY <4>g DEF GivenToJob
      <4> QED  BY <4>1, <4>2, <2>t, <1>c DEF Transferred, Kept, FinalFile
    <3>5. ASSUME NEW f \in File, LeaveOut(a, f)
          PROVE  Transferred(server', copy'[a].file) /\ Kept(told', server', copy'[a].file)
      <4>g. KeptFromJobs(a, f)
        BY <3>5, LeftCopy
      <4>1. \A g \in File : \/ copy'[a].file[g] = copy[a].file[g]
                            \/ /\ copy[a].file[g].status \in {"New", "Failed"}
                               /\ copy'[a].file[g].status \in {"Defunct", "New", "Failed"}
        BY <4>g DEF KeptFromJobs
      <4>2. Treats(a)
        BY <4>g DEF KeptFromJobs
      <4> QED  BY <4>1, <4>2, <2>t, <1>c DEF Transferred, Kept, FinalFile
    <3> QED  BY <1>3, <2>4, <3>1, <3>2, <3>3, <3>4, <3>5, CopySteps
  <2>5. Reportable'
    <3>0. \A b \in Agent, f \in File : Treats(b) /\ file[f].status = "Finished" => file'[f] = file[f]
      BY <1>3, FinalStays DEF Tells, Transferred, FinalFile
    <3>1. ASSUME NEW b \in Agent, b # a, pc'[b] \in {"treating", "telling"}, NEW f \in File,
                 copy'[b].file[f].status = "Finished"
          PROVE  file'[f].status = "Finished"
      BY <1>3, <3>0, <3>1, OthersStay DEF Tells, Reportable, Treats
    <3>2. ASSUME pc'[a] \in {"treating", "telling"}, NEW f \in File,
                 copy'[a].file[f].status = "Finished"
          PROVE  file'[f].status = "Finished"
      <4>1. CASE getNonFinishedOperations(a)
        BY <3>2, <4>1, TypeParts DEF getNonFinishedOperations, AgentsTyped
      <4>2. CASE callback(a)
        <5>1. pc[a] = "treating" /\ Treats(a)
          BY <4>2 DEF callback, Treats
        <5>2. copy'[a].file = copy[a].file /\ file' = file
          BY <4>2, <5>1, TreatedCopy, TypeParts DEF callback, AgentsTyped, Copies, db
        <5> QED  BY <3>2, <5>1, <5>2 DEF Tells, Reportable
      <4>3. CASE UNCHANGED <<pc, copy>>
        BY <3>0, <3>2, <4>3 DEF Tells, Reportable, Treats
      <4>4. \/ getNonFinishedOperations(a) \/ callback(a)
            \/ UNCHANGED <<pc, copy>>
            \/ pc'[a] \notin {"treating", "telling"}
        BY <1>3, TypeParts DEF AgentNext, AgentUpset, TreatStep, MonitorStep, Leave, Submission,
             submit, SubmitUnanswered, Start,
             getActiveJobs, monitor, cancelNonExistingJob, updateFileStatus, updateJobStatus,
             NoneToTreat, CheckRequest, LeaveOut, kickStuck, Kick,
             MonitorFails, UpdateFails, PutFails, TreatFails, Crash, Goes, AgentsTyped
      <4> QED  BY <3>2, <4>1, <4>2, <4>3, <4>4
    <3> QED  BY <3>1, <3>2 DEF Reportable
  <2> QED  BY <2>1, <2>2, <2>3, <2>4, <2>5 DEF Tells
<1>4. CASE Elsewhere \/ UNCHANGED vars
  <2>1. \A f \in File : told'[f] = "Done" => told[f] = "Done"
    BY <1>4 DEF Elsewhere, Forget, Transfer, PutRequest, Cancel, Close, Delete, ResetFailed,
              _checkExistingFTS3Operations, Unheard, RequestBecomes, vars, rms
  <2>2. UNCHANGED <<file, pc, copy>>
    BY <1>4, ElsewhereWritesNothing DEF db, agents
  <2>3. Transferred(server', file') /\ Kept(told', server', file')
    BY <2>1, <2>2, <1>d DEF Kept
  <2>4. \A b \in Agent : Treats(b)' => Transferred(server', copy'[b].file) /\ Kept(told', server', copy'[b].file)
    BY <2>1, <2>2, <1>c DEF Kept, Treats
  <2>5. Reportable'
    BY <2>2 DEF Tells, Reportable
  <2> QED  BY <2>3, <2>4, <2>5 DEF Tells
<1> QED  BY <1>1, <1>2, <1>3, <1>4 DEF Next

\* A file that the request takes for Done was transferred by a job, and no job
\* that the database knows writes it again.
THEOREM FTS3DoneIsTransferred == Spec => []DoneIsTransferred
<1>1. Init => Follows /\ Tells
  <2>1. Init => Tells
    BY DEF Init, Tells, Transferred, Kept, Reportable, Treats
  <2> QED  BY <2>1, InitFollows
<1>2. Follows /\ Tells /\ [Next]_vars => (Follows /\ Tells)'
  BY NextFollows, NextTells DEF Follows
<1>3. Follows /\ Tells => DoneIsTransferred
  <2> SUFFICES ASSUME Follows, Tells, NEW f \in File, told[f] = "Done"
               PROVE  Running(f) = {} /\ \E j \in Job : server[j][f] = "Finished"
    BY DEF DoneIsTransferred
  <2>1. file[f].guid = 0 /\ \E j \in Job : server[j][f] = "Finished"
    BY DEF Tells, Kept
  <2>2. \A j \in Job : j # 0
    BY DEF Job
  <2> QED  BY <2>1, <2>2 DEF Running, Follows, Owns, Owned
<1> QED  BY <1>1, <1>2, <1>3, PTL DEF Spec
=============================================================================
