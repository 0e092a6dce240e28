----------------------------- MODULE DocumentProofs -----------------------------
(***************************************************************************)
(* Proofs about the Document service: ReportExport for any operations,     *)
(* exports, readers and bounds, ReceiptProcessing for any receipts,        *)
(* handlers and bounds.                                                    *)
(***************************************************************************)
EXTENDS ReportExport, ReceiptProcessing, FiniteSetTheorems, SequenceTheorems,
        WellFoundedInduction, TLAPS

-----------------------------------------------------------------------------
(* Types *)

LEMMA AStep ==
  /\ "members" \in Steps /\ "expenses" \in Steps /\ "adjustments" \in Steps
  /\ "settlements" \in Steps /\ "insert" \in Steps /\ "process" \in Steps
  /\ "put" \in Steps /\ "ready" \in Steps /\ "drop" \in Steps /\ "fail" \in Steps
  /\ "created" \in Steps /\ "refused" \in Steps /\ "cut" \in Steps /\ "idle" \in Steps
BY DEF Steps, Assembling, Storing, Over

LEMMA TypesInit == ExportInit => ExportTypeOK
<1> SUFFICES ASSUME ExportInit PROVE ExportTypeOK
  OBVIOUS
<1>1. NewRequest \in Request
  BY AStep DEF NewRequest, Request, Pages
<1>2. NoRow \in ExportRow /\ NoPass \in [left : SUBSET Exports, deleted : BOOLEAN]
  BY DEF NoRow, ExportRow, NoPass
<1>3. NoReader \in Reader
  BY ExportAssumption DEF NoReader, Reader
<1> QED
  BY <1>1, <1>2, <1>3, ExportAssumption
     DEF ExportInit, ExportTypeOK

\* A failure is counted as long as there are any left.
LEMMA FateType ==
  ASSUME NEW fate, Fate(fate), faults \in 0 .. MaxFaults
  PROVE  faults' \in 0 .. MaxFaults /\ faults' >= faults
BY ExportAssumption DEF Fate

\* A request that only goes on to another step.
LEMMA StepType ==
  ASSUME ExportTypeOK, NEW x \in Exports, NEW s \in Steps,
         request' = [request EXCEPT ![x].step = s]
  PROVE  /\ request' \in [Exports -> Request]
         /\ request'[x].step = s
         /\ \A y \in Exports \ {x} : request'[y] = request[y]
BY DEF ExportTypeOK, Request

LEMMA GoOnType ==
  ASSUME ExportTypeOK, NEW x \in Exports, NEW fate \in Fates,
         NEW a \in Steps, NEW b \in Steps, GoOn(x, fate, a, b)
  PROVE  /\ request' \in [Exports -> Request]
         /\ request'[x].step = CASE fate.heard = "answer" -> a
                                 [] fate.heard = "error"  -> b
                                 [] OTHER                 -> "cut"
         /\ \A y \in Exports \ {x} : request'[y] = request[y]
<1> DEFINE s == CASE fate.heard = "answer" -> a [] fate.heard = "error" -> b [] OTHER -> "cut"
<1>1. s \in Steps
  BY AStep DEF Fates
<1>2. request' = [request EXCEPT ![x].step = s]
  BY DEF GoOn
<1> HIDE DEF s
<1> QED
  BY <1>1, <1>2, StepType DEF s

\* One page more.
LEMMA TurnType ==
  ASSUME ExportTypeOK, NEW x \in Exports, NEW type \in {"expense", "settlement"},
         NEW next \in Steps, Turn(x, type, next)
  PROVE  request' \in [Exports -> Request]
<1>1. Page(type, request[x].cursor) \in SUBSET Operations
  BY DEF Page, Listed, ExportTypeOK
<1> DEFINE page == Page(type, request[x].cursor)
<1>2. PICK cursor \in {0} \cup {op.id : op \in page} :
        request' = [request EXCEPT
                      ![x].pages[type] = Append(@, page),
                      ![x].cursor = cursor,
                      ![x].step = IF cursor = 0 THEN next
                                  ELSE IF cursor = request[x].cursor THEN "refused" ELSE @]
  BY DEF Turn
<1>3. cursor \in Nat
  BY <1>1, ExportAssumption
<1>4. request[x] \in Request /\ request \in [Exports -> Request]
  BY DEF ExportTypeOK
<1> HIDE DEF page
<1>5. [request[x].pages EXCEPT ![type] = Append(@, page)] \in Pages
  BY <1>1, <1>4 DEF page, Pages, Request
<1> DEFINE step == IF cursor = 0 THEN next
                   ELSE IF cursor = request[x].cursor THEN "refused" ELSE request[x].step
<1>6. step \in Steps
  BY <1>4, AStep DEF Request
<1>7. request' = [request EXCEPT ![x] =
                    [request[x] EXCEPT
                       !.pages = [request[x].pages EXCEPT ![type] = Append(@, page)],
                       !.cursor = cursor, !.step = step]]
  BY <1>2, <1>4
<1> HIDE DEF step
<1> QED
  BY <1>3, <1>4, <1>5, <1>6, <1>7 DEF Request

LEMMA AssemblyType ==
  ASSUME ExportTypeOK, NEW x \in Exports,
         \/ BeginExport(x) \/ ListGroupMembers(x) \/ ListExpenses(x)
         \/ ListGroupAdjustments(x) \/ ListSettlements(x) \/ RefuseExport(x)
  PROVE  ExportTypeOK'
<1>1. UNCHANGED <<coreVars, fileVars, pass, readVars, faults>>
  BY DEF BeginExport, ListGroupMembers, ListExpenses, ListGroupAdjustments, ListSettlements,
         RefuseExport, Stays
<1>2. request' \in [Exports -> Request]
  <2>1. CASE BeginExport(x)
    <3>1. request[x] \in Request /\ request \in [Exports -> Request] /\ committed \in SUBSET Operations
      BY DEF ExportTypeOK
    <3>2. request' = [request EXCEPT ![x] = [request[x] EXCEPT !.step = "members", !.began = committed]]
      BY <2>1, <3>1 DEF BeginExport
    <3>3. [request[x] EXCEPT !.step = "members", !.began = committed] \in Request
      BY <3>1, AStep DEF Request
    <3> QED
      BY <3>1, <3>2, <3>3
  <2>2. CASE ListGroupMembers(x)
    <3>1. request[x] \in Request /\ request \in [Exports -> Request] /\ members \in SUBSET Users
      BY DEF ExportTypeOK
    <3>2. request' = [request EXCEPT ![x] = [request[x] EXCEPT !.names = members, !.step = "expenses"]]
      BY <2>2, <3>1 DEF ListGroupMembers
    <3>3. [request[x] EXCEPT !.names = members, !.step = "expenses"] \in Request
      BY <3>1, AStep DEF Request
    <3> QED
      BY <3>1, <3>2, <3>3
  <2>3. CASE ListExpenses(x)
    <3>1. Turn(x, "expense", "adjustments")
      BY <2>3 DEF ListExpenses
    <3> QED
      BY <3>1, AStep, TurnType
  <2>4. CASE ListGroupAdjustments(x)
    <3> DEFINE listed == {op \in committed : op.type = "adjustment"}
    <3>1. request[x] \in Request /\ request \in [Exports -> Request] /\ listed \in SUBSET Operations
      BY DEF ExportTypeOK
    <3>2. request' = [request EXCEPT ![x] =
                        [request[x] EXCEPT !.adjustments = listed, !.step = "settlements"]]
      BY <2>4, <3>1 DEF ListGroupAdjustments
    <3> HIDE DEF listed
    <3>3. [request[x] EXCEPT !.adjustments = listed, !.step = "settlements"] \in Request
      BY <3>1, AStep DEF Request
    <3> QED
      BY <3>1, <3>2, <3>3
  <2>5. CASE ListSettlements(x)
    <3>1. Turn(x, "settlement", "insert")
      BY <2>5 DEF ListSettlements
    <3> QED
      BY <3>1, AStep, TurnType
  <2>6. CASE RefuseExport(x)
    <3>1. request' = [request EXCEPT ![x].step = "refused"]
      BY <2>6 DEF RefuseExport
    <3> QED
      BY <3>1, AStep, StepType
  <2> QED
    BY <2>1, <2>2, <2>3, <2>4, <2>5, <2>6
<1> QED
  BY <1>1, <1>2
     DEF ExportTypeOK, coreVars, fileVars, readVars

LEMMA StoringType ==
  ASSUME ExportTypeOK, NEW x \in Exports, NEW fate \in Fates,
         \/ Insert(x, fate) \/ MarkProcessing(x, fate) \/ PutExport(x, fate)
         \/ MarkReady(x, fate) \/ DropExport(x, fate) \/ MarkFailed(x, fate)
  PROVE  ExportTypeOK'
<1>1. UNCHANGED <<coreVars, pass, readVars>> /\ Fate(fate)
  BY DEF Insert, MarkProcessing, PutExport, MarkReady, DropExport, MarkFailed
<1>2. faults' \in 0 .. MaxFaults
  BY <1>1, FateType DEF ExportTypeOK
<1>3. request' \in [Exports -> Request]
  <2>1. CASE Insert(x, fate)
    BY <2>1, AStep, GoOnType DEF Insert
  <2>2. CASE MarkProcessing(x, fate)
    BY <2>2, AStep, GoOnType DEF MarkProcessing
  <2>3. CASE PutExport(x, fate)
    BY <2>3, AStep, GoOnType DEF PutExport
  <2>4. CASE MarkReady(x, fate)
    BY <2>4, AStep, GoOnType DEF MarkReady
  <2>5. CASE DropExport(x, fate)
    BY <2>5, AStep, GoOnType DEF DropExport
  <2>6. CASE MarkFailed(x, fate)
    BY <2>6, AStep, GoOnType DEF MarkFailed
  <2> QED
    BY <2>1, <2>2, <2>3, <2>4, <2>5, <2>6
<1>4. row' \in [Exports -> ExportRow] /\ stored' \subseteq Exports
  <2>1. row \in [Exports -> ExportRow] /\ row[x] \in ExportRow /\ stored \subseteq Exports
    BY DEF ExportTypeOK
  <2>2. CASE Insert(x, fate)
    BY <2>1, <2>2 DEF Insert, ExportRow
  <2>3. CASE MarkProcessing(x, fate)
    BY <2>1, <2>3 DEF MarkProcessing, ExportRow
  <2>4. CASE PutExport(x, fate)
    BY <2>1, <2>4 DEF PutExport
  <2>5. CASE MarkReady(x, fate)
    <3>1. [row EXCEPT ![x].status = "ready", ![x].keyed = TRUE]
            = [row EXCEPT ![x] = [row[x] EXCEPT !.status = "ready", !.keyed = TRUE]]
      BY <2>1
    <3>2. [row[x] EXCEPT !.status = "ready", !.keyed = TRUE] \in ExportRow
      BY <2>1 DEF ExportRow
    <3> QED
      BY <2>1, <2>5, <3>1, <3>2 DEF MarkReady
  <2>6. CASE DropExport(x, fate)
    BY <2>1, <2>6 DEF DropExport
  <2>7. CASE MarkFailed(x, fate)
    BY <2>1, <2>7 DEF MarkFailed, ExportRow
  <2> QED
    BY <2>2, <2>3, <2>4, <2>5, <2>6, <2>7
<1> QED
  BY <1>1, <1>2, <1>3, <1>4 DEF ExportTypeOK, coreVars, readVars

LEMMA RetentionType ==
  ASSUME ExportTypeOK, Retention \/ \E x \in Exports : Expire(x)
  PROVE  ExportTypeOK'
<1> DEFINE Pass == [left : SUBSET Exports, deleted : BOOLEAN]
<1>1. CASE StartPass
  <2>1. pass' = [left |-> {x \in DueExports : Cardinality({y \in DueExports : y < x}) < BatchSize},
                 deleted |-> FALSE]
    BY <1>1 DEF StartPass, NoPass
  <2>2. pass' \in Pass
    BY <2>1 DEF DueExports
  <2> QED
    BY <1>1, <2>2 DEF StartPass, ExportTypeOK, coreVars, fileVars, readVars
<1>2. ASSUME NEW x \in Exports, NEW fate \in Fates, DeleteExport(x, fate) \/ MarkExportPurged(x, fate)
      PROVE  ExportTypeOK'
  <2>1. UNCHANGED <<coreVars, request, readVars>> /\ Fate(fate)
    BY <1>2 DEF DeleteExport, MarkExportPurged, PassGoesOn
  <2>2. faults' \in 0 .. MaxFaults
    BY <2>1, FateType DEF ExportTypeOK
  <2>3. pass' \in Pass
    <3>1. pass \in Pass /\ NoPass \in Pass
      BY DEF ExportTypeOK, NoPass
    <3>2. [pass EXCEPT !.deleted = TRUE] \in Pass /\ [NoPass EXCEPT !.left = pass.left \ {x}] \in Pass
      BY <3>1 DEF NoPass
    <3> HIDE DEF Pass
    <3> QED
      BY <1>2, <3>1, <3>2 DEF DeleteExport, MarkExportPurged, PassGoesOn
  <2>4. row' \in [Exports -> ExportRow] /\ stored' \subseteq Exports
    <3>1. row \in [Exports -> ExportRow] /\ row[x] \in ExportRow /\ stored \subseteq Exports
      BY DEF ExportTypeOK
    <3>2. CASE DeleteExport(x, fate)
      BY <3>1, <3>2 DEF DeleteExport
    <3>3. CASE MarkExportPurged(x, fate)
      BY <3>1, <3>3 DEF MarkExportPurged, ExportRow
    <3> QED
      BY <1>2, <3>2, <3>3
  <2> QED
    BY <2>1, <2>2, <2>3, <2>4 DEF ExportTypeOK, coreVars, readVars
<1>3. ASSUME NEW x \in Exports, Expire(x)
      PROVE  ExportTypeOK'
  <2>1. row' \in [Exports -> ExportRow]
    <3>1. row \in [Exports -> ExportRow] /\ row[x] \in ExportRow
      BY DEF ExportTypeOK
    <3> QED
      BY <1>3, <3>1 DEF Expire, ExportRow
  <2> QED
    BY <1>3, <2>1 DEF Expire, ExportTypeOK, coreVars, readVars
<1> QED
  BY <1>1, <1>2, <1>3 DEF Retention

LEMMA ReadType ==
  ASSUME ExportTypeOK, NEW s \in Readers, Read(s)
  PROVE  ExportTypeOK'
<1>1. reader \in [Readers -> Reader] /\ reader[s] \in Reader
  BY DEF ExportTypeOK
<1>2. UNCHANGED <<coreVars, request, fileVars, pass>>
  BY DEF Read, BeginRead, OpenStream, Receive, Break, UploadFile, SendMessage, GiveUp, ReaderStays
<1>3. faults' \in 0 .. MaxFaults
  <2>1. UNCHANGED faults \/ (faults < MaxFaults /\ faults' = faults + 1)
    BY DEF Read, BeginRead, OpenStream, Receive, Break, UploadFile, SendMessage, GiveUp
  <2> QED
    BY <2>1, ExportAssumption DEF ExportTypeOK
<1>4. delivered' \in [Readers -> Seq(0 .. Chunks)]
  <2>1. delivered \in [Readers -> Seq(0 .. Chunks)] /\ reader[s].got \in 0 .. Chunks
    BY <1>1 DEF ExportTypeOK, Reader
  <2>2. CASE UNCHANGED delivered
    BY <2>1, <2>2
  <2>3. CASE delivered' = [delivered EXCEPT ![s] = Append(@, reader[s].got)]
    BY <2>1, <2>3
  <2> QED
    BY <2>2, <2>3 DEF Read, BeginRead, OpenStream, Receive, Break, UploadFile, SendMessage, GiveUp
<1>5. reader' \in [Readers -> Reader]
  <2>1. ASSUME NEW step \in {"idle", "open", "stream", "upload", "message", "done", "refused"},
               reader' = [reader EXCEPT ![s].step = step]
        PROVE  reader' \in [Readers -> Reader]
    BY <1>1, <2>1 DEF Reader
  <2>2. ASSUME NEW x \in Exports, NEW kind \in {"download", "send"}, BeginRead(s, x, kind)
        PROVE  reader' \in [Readers -> Reader]
    <3>1. [NoReader EXCEPT !.step = "open", !.kind = kind, !.export = x] \in Reader
      <4>1. NoReader \in Reader
        BY ExportAssumption DEF NoReader, Reader
      <4>2. x \in Exports \cup {0} /\ kind \in {"none", "download", "send"}
        OBVIOUS
      <4> QED
        BY <4>1, <4>2 DEF Reader
    <3> QED
      BY <1>1, <2>2, <3>1 DEF BeginRead
  <2>3. CASE OpenStream(s)
    BY <2>1, <2>3 DEF OpenStream
  <2>4. CASE Receive(s)
    <3>1. CASE reader[s].got < Chunks
      BY <1>1, <2>4, <3>1, ExportAssumption DEF Receive, Reader
    <3>2. CASE ~ (reader[s].got < Chunks)
      BY <2>1, <2>4, <3>2 DEF Receive, AtEnd
    <3> QED
      BY <3>1, <3>2
  <2>5. CASE Break(s)
    BY <2>1, <2>5 DEF Break, Broken
  <2>6. CASE UploadFile(s)
    BY <2>1, <2>6 DEF UploadFile
  <2>7. CASE GiveUp(s)
    BY <2>1, <2>7 DEF GiveUp
  <2>8. ASSUME NEW answer \in Answers, SendMessage(s, answer)
        PROVE  reader' \in [Readers -> Reader]
    <3>1. CASE TriesAgain(answer, reader[s].tries)
      <4>1. reader' = [reader EXCEPT ![s].tries = @ + 1] /\ reader[s].tries < 2
        BY <2>8, <3>1 DEF SendMessage, TriesAgain
      <4> QED
        BY <1>1, <4>1 DEF Reader
    <3>2. CASE ~ TriesAgain(answer, reader[s].tries)
      BY <2>1, <2>8, <3>2 DEF SendMessage
    <3> QED
      BY <3>1, <3>2
  <2> QED
    BY <2>2, <2>3, <2>4, <2>5, <2>6, <2>7, <2>8 DEF Read
<1> QED
  BY <1>1, <1>2, <1>3, <1>4, <1>5 DEF ExportTypeOK, coreVars, fileVars

LEMMA TypesStep == ExportTypeOK /\ [ExportNext]_exportVars => ExportTypeOK'
<1> SUFFICES ASSUME ExportTypeOK, [ExportNext]_exportVars
             PROVE  ExportTypeOK'
  OBVIOUS
<1>1. CASE (\E u \in Users : Join(u)) \/ (\E op \in Operations : Commit(op))
  BY <1>1 DEF Join, Commit, ExportTypeOK, fileVars, readVars
<1>2. ASSUME NEW x \in Exports, CreateExport(x) \/ Expire(x)
      PROVE  ExportTypeOK'
  BY <1>2, AssemblyType, StoringType, RetentionType DEF CreateExport
<1>3. CASE Retention
  BY <1>3, RetentionType
<1>4. CASE \E s \in Readers : Read(s)
  BY <1>4, ReadType
<1>5. CASE UNCHANGED exportVars
  BY <1>5 DEF exportVars, ExportTypeOK
<1> QED
  BY <1>1, <1>2, <1>3, <1>4, <1>5 DEF ExportNext

\* Requests read and store only what there is, a file is stored for an export
\* only, and a reader counts no more chunks than the file has and no more than
\* three tries (exports.go 196-265).
THEOREM ExportTypeCorrect == ExportSpec => []ExportTypeOK
BY TypesInit, TypesStep, PTL DEF ExportSpec

-----------------------------------------------------------------------------
(* What the rows say of the storage *)

\* What is in the storage and in the row at each step of a request.  A request
\* reaches its compensation after a failure, and leaves the object there only
\* after a second one; a row grows old only when its request is over.
ExportTrue(x) ==
  /\ row[x].old => request[x].step \in Over
  /\ row[x].purged => row[x].old /\ x \notin stored
  /\ request[x].step \in {"idle", "insert"} \cup Assembling =>
       row[x].status = "absent" /\ x \notin stored
  /\ request[x].step = "process" => row[x].status = "pending" /\ x \notin stored
  /\ request[x].step = "put" => row[x].status = "processing" /\ x \notin stored
  /\ request[x].step = "ready" => row[x].status = "processing" /\ x \in stored
  /\ request[x].step = "drop" => faults >= 1
  /\ request[x].step = "fail" => faults >= 1 /\ (x \in stored => faults >= 2)
  /\ request[x].step = "created" => row[x].status = "ready" /\ (~row[x].old => x \in stored)
  /\ request[x].step = "refused" /\ faults < 2 => row[x].status # "ready" /\ x \notin stored

\* The pass holds only what has expired, and marks only what it has deleted.
PassTrue ==
  /\ \A x \in pass.left : row[x].old
  /\ \A x \in Exports : pass.deleted /\ First(x) => x \notin stored

TruthInv == ExportTypeOK /\ (\A x \in Exports : ExportTrue(x)) /\ PassTrue

LEMMA TruthInit == ExportInit => TruthInv
<1> SUFFICES ASSUME ExportInit PROVE TruthInv
  OBVIOUS
<1>1. ExportTypeOK
  BY TypesInit
<1>2. ASSUME NEW x \in Exports PROVE ExportTrue(x)
  BY DEF ExportInit, NewRequest, NoRow, ExportTrue, Over
<1>3. PassTrue
  BY DEF ExportInit, NoPass, PassTrue
<1> QED
  BY <1>1, <1>2, <1>3 DEF TruthInv

\* An export that nobody touches stays true.
LEMMA TruthFrame ==
  ASSUME TruthInv, NEW y \in Exports, request'[y].step = request[y].step, row'[y] = row[y],
         y \in stored' <=> y \in stored, faults' \in Nat, faults' >= faults
  PROVE  ExportTrue(y)'
<1>1. ExportTrue(y) /\ faults \in Nat
  BY ExportAssumption DEF TruthInv, ExportTypeOK
<1> QED
  BY <1>1 DEF ExportTrue

\* The assembly touches neither the row nor the storage.
LEMMA AssemblyTruth ==
  ASSUME TruthInv, NEW x \in Exports,
         \/ BeginExport(x) \/ ListGroupMembers(x) \/ ListExpenses(x)
         \/ ListGroupAdjustments(x) \/ ListSettlements(x) \/ RefuseExport(x)
  PROVE  TruthInv'
<1>1. UNCHANGED <<row, stored, pass, faults>>
  BY DEF BeginExport, ListGroupMembers, ListExpenses, ListGroupAdjustments, ListSettlements,
         RefuseExport, Stays, fileVars
<1>2. ExportTypeOK' /\ ExportTypeOK
  BY AssemblyType DEF TruthInv
<1>3. request[x].step \in {"idle"} \cup Assembling
  BY DEF BeginExport, ListGroupMembers, ListExpenses, ListGroupAdjustments, ListSettlements,
         RefuseExport, Assembling
<1>4. /\ request'[x].step \in {"insert", "refused"} \cup Assembling
      /\ \A y \in Exports \ {x} : request'[y].step = request[y].step
  <2>1. request \in [Exports -> Request] /\ request[x] \in Request
    BY <1>2 DEF ExportTypeOK
  <2>2. CASE ListExpenses(x) \/ ListSettlements(x)
    <3>1. PICK type \in {"expense", "settlement"}, next \in {"adjustments", "insert"} :
            Turn(x, type, next)
      BY <2>2 DEF ListExpenses, ListSettlements
    <3>2. PICK cursor \in {0} \cup {op.id : op \in Page(type, request[x].cursor)} :
            request' = [request EXCEPT
                          ![x].pages[type] = Append(@, Page(type, request[x].cursor)),
                          ![x].cursor = cursor,
                          ![x].step = IF cursor = 0 THEN next
                                      ELSE IF cursor = request[x].cursor THEN "refused" ELSE @]
      BY <3>1 DEF Turn
    <3>3. /\ request'[x].step \in {next, "refused", request[x].step}
          /\ \A y \in Exports \ {x} : request'[y] = request[y]
      BY <2>1, <3>2 DEF Request
    <3> QED
      BY <2>2, <3>3 DEF Assembling, ListExpenses, ListSettlements
  <2>3. CASE BeginExport(x) \/ ListGroupMembers(x) \/ ListGroupAdjustments(x) \/ RefuseExport(x)
    BY <2>1, <2>3
       DEF BeginExport, ListGroupMembers, ListGroupAdjustments, RefuseExport, Assembling, Request
  <2> QED
    BY <2>2, <2>3
<1>5. ASSUME NEW y \in Exports PROVE ExportTrue(y)'
  <2>1. CASE y = x
    <3>1. ExportTrue(x)
      BY DEF TruthInv
    <3> QED
      BY <1>1, <1>3, <1>4, <2>1, <3>1 DEF ExportTrue, Assembling, Over
  <2>2. CASE y # x
    <3>1. faults \in Nat
      BY <1>2, ExportAssumption DEF ExportTypeOK
    <3> QED
      BY <1>1, <1>4, <2>2, <3>1, TruthFrame
  <2> QED
    BY <2>1, <2>2
<1>6. PassTrue'
  BY <1>1 DEF TruthInv, PassTrue, First
<1> QED
  BY <1>2, <1>5, <1>6 DEF TruthInv

\* create_export and its compensation.
LEMMA StoringTruth ==
  ASSUME TruthInv, NEW x \in Exports, NEW fate \in Fates,
         \/ Insert(x, fate) \/ MarkProcessing(x, fate) \/ PutExport(x, fate)
         \/ MarkReady(x, fate) \/ DropExport(x, fate) \/ MarkFailed(x, fate)
  PROVE  TruthInv'
<1>1. ExportTypeOK' /\ ExportTypeOK
  BY StoringType DEF TruthInv
<1>2. /\ UNCHANGED pass
      /\ faults \in Nat /\ faults' \in Nat
      /\ faults' = IF fate.heard = "answer" THEN faults ELSE faults + 1
  <2>1. Fate(fate) /\ UNCHANGED pass
    BY DEF Insert, MarkProcessing, PutExport, MarkReady, DropExport, MarkFailed
  <2> QED
    BY <1>1, <2>1, ExportAssumption DEF Fate, ExportTypeOK
<1>3. fate.done \in BOOLEAN /\ (fate.heard = "answer" => fate.done)
  BY DEF Fates
<1>4. row[x] \in ExportRow /\ row \in [Exports -> ExportRow]
  BY <1>1 DEF ExportTypeOK
<1>5. ExportTrue(x)
  BY DEF TruthInv
<1>6. /\ ~row[x].old /\ ~row[x].purged
      /\ ExportTrue(x)' /\ row'[x].old = row[x].old
      /\ \A y \in Exports \ {x} : request'[y].step = request[y].step
  <2>1. CASE Insert(x, fate)
    <3>1. GoOn(x, fate, "process", "refused") /\ request[x].step = "insert"
      BY <2>1 DEF Insert
    <3>2. /\ request'[x].step = CASE fate.heard = "answer" -> "process"
                                  [] fate.heard = "error"  -> "refused"
                                  [] OTHER                 -> "cut"
          /\ \A y \in Exports \ {x} : request'[y] = request[y]
      BY <1>1, <3>1, AStep, GoOnType
    <3> QED
      BY <1>2, <1>3, <1>4, <1>5, <2>1, <3>1, <3>2 DEF Insert, ExportTrue, ExportRow, Over, Assembling
  <2>2. CASE MarkProcessing(x, fate)
    <3>1. GoOn(x, fate, "put", "refused") /\ request[x].step = "process"
      BY <1>5, <2>2 DEF MarkProcessing, ExportTrue
    <3>2. /\ request'[x].step = CASE fate.heard = "answer" -> "put"
                                  [] fate.heard = "error"  -> "refused"
                                  [] OTHER                 -> "cut"
          /\ \A y \in Exports \ {x} : request'[y] = request[y]
      BY <1>1, <3>1, AStep, GoOnType
    <3> QED
      BY <1>2, <1>3, <1>4, <1>5, <2>2, <3>1, <3>2
         DEF MarkProcessing, ExportTrue, ExportRow, Over, Assembling
  <2>3. CASE PutExport(x, fate)
    <3>1. GoOn(x, fate, "ready", "drop") /\ request[x].step = "put"
      BY <2>3 DEF PutExport
    <3>2. /\ request'[x].step = CASE fate.heard = "answer" -> "ready"
                                  [] fate.heard = "error"  -> "drop"
                                  [] OTHER                 -> "cut"
          /\ \A y \in Exports \ {x} : request'[y] = request[y]
      BY <1>1, <3>1, AStep, GoOnType
    <3> QED
      BY <1>2, <1>3, <1>4, <1>5, <2>3, <3>1, <3>2 DEF PutExport, ExportTrue, ExportRow, Over, Assembling
  <2>4. CASE MarkReady(x, fate)
    <3>1. GoOn(x, fate, "created", "drop") /\ request[x].step = "ready"
      BY <1>5, <2>4 DEF MarkReady, ExportTrue
    <3>2. /\ request'[x].step = CASE fate.heard = "answer" -> "created"
                                  [] fate.heard = "error"  -> "drop"
                                  [] OTHER                 -> "cut"
          /\ \A y \in Exports \ {x} : request'[y] = request[y]
      BY <1>1, <3>1, AStep, GoOnType
    <3> QED
      BY <1>2, <1>3, <1>4, <1>5, <2>4, <3>1, <3>2 DEF MarkReady, ExportTrue, ExportRow, Over, Assembling
  <2>5. CASE DropExport(x, fate)
    <3>1. GoOn(x, fate, "fail", "fail") /\ request[x].step = "drop"
      BY <2>5 DEF DropExport
    <3>2. /\ request'[x].step = CASE fate.heard = "answer" -> "fail"
                                  [] fate.heard = "error"  -> "fail"
                                  [] OTHER                 -> "cut"
          /\ \A y \in Exports \ {x} : request'[y] = request[y]
      BY <1>1, <3>1, AStep, GoOnType
    <3> QED
      BY <1>2, <1>3, <1>4, <1>5, <2>5, <3>1, <3>2 DEF DropExport, ExportTrue, ExportRow, Over, Assembling
  <2>6. CASE MarkFailed(x, fate)
    <3>1. GoOn(x, fate, "refused", "refused") /\ request[x].step = "fail"
      BY <2>6 DEF MarkFailed
    <3>2. /\ request'[x].step = CASE fate.heard = "answer" -> "refused"
                                  [] fate.heard = "error"  -> "refused"
                                  [] OTHER                 -> "cut"
          /\ \A y \in Exports \ {x} : request'[y] = request[y]
      BY <1>1, <3>1, AStep, GoOnType
    <3> QED
      BY <1>2, <1>3, <1>4, <1>5, <2>6, <3>1, <3>2 DEF MarkFailed, ExportTrue, ExportRow, Over, Assembling
  <2> QED
    BY <2>1, <2>2, <2>3, <2>4, <2>5, <2>6
<1>7. \A y \in Exports \ {x} : row'[y] = row[y] /\ (y \in stored' <=> y \in stored)
  BY <1>4 DEF Insert, MarkProcessing, PutExport, MarkReady, DropExport, MarkFailed
<1>8. ASSUME NEW y \in Exports PROVE ExportTrue(y)'
  <2>1. CASE y = x
    BY <1>6, <2>1
  <2>2. CASE y # x
    BY <1>2, <1>6, <1>7, <2>2, TruthFrame
  <2> QED
    BY <2>1, <2>2
<1>9. PassTrue'
  <2>1. x \notin pass.left /\ PassTrue /\ pass.left \subseteq Exports
    BY <1>1, <1>6 DEF TruthInv, PassTrue, ExportTypeOK
  <2> QED
    BY <1>2, <1>7, <2>1 DEF PassTrue, First
<1> QED
  BY <1>1, <1>8, <1>9 DEF TruthInv

\* Retention.
LEMMA RetentionTruth ==
  ASSUME TruthInv, Retention \/ \E x \in Exports : Expire(x)
  PROVE  TruthInv'
<1>1. ExportTypeOK' /\ ExportTypeOK /\ PassTrue /\ \A x \in Exports : ExportTrue(x)
  BY RetentionType DEF TruthInv
<1>2. faults \in Nat /\ faults' \in Nat
  BY <1>1, ExportAssumption DEF ExportTypeOK
<1>3. row \in [Exports -> ExportRow] /\ pass.left \subseteq Exports
  BY <1>1 DEF ExportTypeOK
<1>4. CASE StartPass
  <2>1. UNCHANGED <<request, row, stored, faults>>
    BY <1>4 DEF StartPass, fileVars
  <2>2. ASSUME NEW x \in Exports PROVE ExportTrue(x)'
    BY <1>2, <2>1, TruthFrame
  <2>3. pass'.left \subseteq DueExports /\ pass'.deleted = FALSE
    BY <1>4 DEF StartPass, NoPass
  <2>4. PassTrue'
    BY <2>1, <2>3 DEF PassTrue, DueExports
  <2> QED
    BY <1>1, <2>2, <2>4 DEF TruthInv
<1>5. ASSUME NEW x \in Exports, NEW fate \in Fates, DeleteExport(x, fate)
      PROVE  TruthInv'
  <2>1. UNCHANGED <<request, row>> /\ First(x) /\ Fate(fate) /\ (fate.heard = "answer" => fate.done)
    BY <1>5 DEF DeleteExport, PassGoesOn, Fates
  <2>2. row[x].old /\ ExportTrue(x)
    BY <1>1, <2>1 DEF PassTrue, First
  <2>3. stored' = IF fate.done THEN stored \ {x} ELSE stored
    BY <1>5 DEF DeleteExport
  <2>4. faults' >= faults
    BY <1>1, <2>1, FateType DEF ExportTypeOK
  <2>5. ASSUME NEW y \in Exports PROVE ExportTrue(y)'
    <3>1. CASE y = x
      BY <1>2, <2>1, <2>2, <2>3, <2>4, <3>1 DEF ExportTrue, Over, Assembling
    <3>2. CASE y # x
      BY <1>2, <2>1, <2>3, <2>4, <3>2, TruthFrame
    <3> QED
      BY <3>1, <3>2
  <2>6. PassTrue'
    <3>1. CASE fate.heard = "answer"
      <4>1. pass'.left = pass.left /\ x \notin stored'
        BY <1>1, <1>5, <2>1, <2>3, <3>1 DEF DeleteExport, PassGoesOn, ExportTypeOK
      <4>2. ASSUME NEW y \in Exports, First(y)' PROVE y = x
        BY <1>3, <2>1, <4>1, <4>2, ExportAssumption DEF First
      <4> QED
        BY <1>1, <2>1, <4>1, <4>2 DEF PassTrue
    <3>2. CASE fate.heard # "answer"
      BY <1>5, <3>2 DEF DeleteExport, PassGoesOn, PassTrue, NoPass
    <3> QED
      BY <3>1, <3>2
  <2> QED
    BY <1>1, <2>5, <2>6 DEF TruthInv
<1>6. ASSUME NEW x \in Exports, NEW fate \in Fates, MarkExportPurged(x, fate)
      PROVE  TruthInv'
  <2>1. UNCHANGED <<request, stored>> /\ First(x) /\ pass.deleted /\ Fate(fate)
    BY <1>6 DEF MarkExportPurged, PassGoesOn
  <2>2. row[x].old /\ ExportTrue(x) /\ x \notin stored
    BY <1>1, <2>1 DEF PassTrue, First
  <2>3. row' = IF fate.done THEN [row EXCEPT ![x].purged = TRUE] ELSE row
    BY <1>6 DEF MarkExportPurged
  <2>4. faults' >= faults
    BY <1>1, <2>1, FateType DEF ExportTypeOK
  <2>5. /\ row'[x].old /\ row'[x].status = row[x].status
        /\ \A y \in Exports \ {x} : row'[y] = row[y]
    BY <1>3, <2>2, <2>3 DEF ExportRow
  <2>6. ASSUME NEW y \in Exports PROVE ExportTrue(y)'
    <3>1. CASE y = x
      BY <1>2, <2>1, <2>2, <2>4, <2>5, <3>1 DEF ExportTrue, Over, Assembling
    <3>2. CASE y # x
      BY <1>2, <2>1, <2>4, <2>5, <3>2, TruthFrame
    <3> QED
      BY <3>1, <3>2
  <2>7. PassTrue'
    <3>1. pass'.left \subseteq pass.left /\ pass'.deleted = FALSE
      BY <1>6 DEF MarkExportPurged, PassGoesOn, NoPass
    <3>2. ASSUME NEW y \in pass'.left PROVE row'[y].old
      BY <1>1, <1>3, <2>2, <2>5, <3>1 DEF PassTrue
    <3> QED
      BY <3>1, <3>2 DEF PassTrue
  <2> QED
    BY <1>1, <2>6, <2>7 DEF TruthInv
<1>7. ASSUME NEW x \in Exports, Expire(x)
      PROVE  TruthInv'
  <2>1. UNCHANGED <<request, stored, pass, faults>> /\ request[x].step \in Over
    BY <1>7 DEF Expire
  <2>2. /\ row'[x].old /\ row'[x].status = row[x].status /\ row'[x].purged = row[x].purged
        /\ \A y \in Exports \ {x} : row'[y] = row[y]
    BY <1>3, <1>7 DEF Expire, ExportRow
  <2>3. ASSUME NEW y \in Exports PROVE ExportTrue(y)'
    <3>1. CASE y = x
      BY <1>1, <1>2, <2>1, <2>2, <3>1 DEF ExportTrue, Over, Assembling
    <3>2. CASE y # x
      BY <1>2, <2>1, <2>2, <3>2, TruthFrame
    <3> QED
      BY <3>1, <3>2
  <2>4. PassTrue'
    BY <1>1, <1>3, <2>1, <2>2 DEF PassTrue, First
  <2> QED
    BY <1>1, <2>3, <2>4 DEF TruthInv
<1> QED
  BY <1>4, <1>5, <1>6, <1>7 DEF Retention

LEMMA TruthStep == TruthInv /\ [ExportNext]_exportVars => TruthInv'
<1> SUFFICES ASSUME TruthInv, [ExportNext]_exportVars
             PROVE  TruthInv'
  OBVIOUS
<1>1. ExportTypeOK' /\ ExportTypeOK
  BY TypesStep DEF TruthInv
<1>2. ASSUME UNCHANGED <<request, row, stored, pass>>, faults' >= faults
      PROVE  TruthInv'
  <2>1. faults' \in Nat
    BY <1>1, ExportAssumption DEF ExportTypeOK
  <2>2. ASSUME NEW x \in Exports PROVE ExportTrue(x)'
    BY <1>2, <2>1, TruthFrame
  <2>3. PassTrue'
    BY <1>2 DEF TruthInv, PassTrue, First
  <2> QED
    BY <1>1, <2>2, <2>3 DEF TruthInv
<1>3. faults \in Nat
  BY <1>1, ExportAssumption DEF ExportTypeOK
<1>4. CASE (\E u \in Users : Join(u)) \/ (\E op \in Operations : Commit(op))
  BY <1>2, <1>3, <1>4 DEF Join, Commit, fileVars
<1>5. ASSUME NEW x \in Exports, CreateExport(x) \/ Expire(x)
      PROVE  TruthInv'
  BY <1>5, AssemblyTruth, StoringTruth, RetentionTruth DEF CreateExport
<1>6. CASE Retention
  BY <1>6, RetentionTruth
<1>7. ASSUME NEW s \in Readers, Read(s)
      PROVE  TruthInv'
  <2>1. UNCHANGED <<request, row, stored, pass>>
    BY <1>7 DEF Read, BeginRead, OpenStream, Receive, Break, UploadFile, SendMessage, GiveUp,
                ReaderStays, fileVars
  <2>2. UNCHANGED faults \/ faults' = faults + 1
    BY <1>7 DEF Read, BeginRead, OpenStream, Receive, Break, UploadFile, SendMessage, GiveUp
  <2> QED
    BY <1>2, <1>3, <2>1, <2>2
<1>8. CASE UNCHANGED exportVars
  BY <1>2, <1>3, <1>8 DEF exportVars
<1> QED
  BY <1>4, <1>5, <1>6, <1>7, <1>8 DEF ExportNext

\* A created file is there until it expires, one failure leaves no object and no
\* ready row behind, and what is purged is gone (service/document.py 228-252,
\* worker/retention.py 68-72).
THEOREM ExportsTellTruthAlways == ExportSpec => []ExportsTellTruth
<1>1. TruthInv => ExportsTellTruth
  BY DEF TruthInv, ExportTrue, ExportsTellTruth
<1> QED
  BY <1>1, TruthInit, TruthStep, PTL DEF ExportSpec

-----------------------------------------------------------------------------
(* The message with the file *)

\* A reader uploads the whole file only, and has sent nothing before its message.
ReaderTrue(s) ==
  /\ reader[s].step \in {"idle", "open", "stream", "upload", "message"} => delivered[s] = <<>>
  /\ reader[s].step \in {"upload", "message"} => reader[s].got = Chunks
  /\ reader[s].kind = "send" /\ reader[s].step = "done" => delivered[s] = <<Chunks>>
  /\ delivered[s] \in {<<>>, <<Chunks>>}

SentInv == ExportTypeOK /\ \A s \in Readers : ReaderTrue(s)

LEMMA SentInit == ExportInit => SentInv
BY TypesInit DEF ExportInit, SentInv, ReaderTrue, NoReader

LEMMA ReadSent ==
  ASSUME SentInv, NEW s \in Readers, Read(s)
  PROVE  SentInv'
<1>1. ExportTypeOK' /\ ExportTypeOK /\ \A r \in Readers : ReaderTrue(r)
  BY ReadType DEF SentInv
<1>2. /\ reader \in [Readers -> Reader] /\ reader[s] \in Reader /\ ReaderTrue(s)
      /\ delivered \in [Readers -> Seq(0 .. Chunks)]
      /\ reader[s].got \in Nat /\ Chunks \in Nat /\ reader[s].got =< Chunks
  BY <1>1, ExportAssumption DEF ExportTypeOK, Reader
<1>3. \A r \in Readers \ {s} : reader'[r] = reader[r] /\ delivered'[r] = delivered[r]
  BY <1>2 DEF Read, BeginRead, OpenStream, Receive, Break, UploadFile, SendMessage, GiveUp
<1>4. ReaderTrue(s)'
  <2>1. ASSUME NEW x \in Exports, NEW kind \in {"download", "send"}, BeginRead(s, x, kind)
        PROVE  ReaderTrue(s)'
    <3>1. UNCHANGED delivered /\ reader[s].step = "idle" /\ reader'[s].step = "open"
      BY <1>2, <2>1 DEF BeginRead, NoReader
    <3> QED
      BY <1>2, <3>1 DEF ReaderTrue
  <2>2. CASE OpenStream(s)
    BY <1>2, <2>2 DEF OpenStream, ReaderTrue, Reader
  <2>3. CASE Receive(s)
    <3>1. UNCHANGED delivered /\ reader[s].step = "stream" /\ delivered[s] = <<>>
      BY <1>2, <2>3 DEF Receive, ReaderTrue
    <3>2. CASE reader[s].got < Chunks
      <4>1. reader'[s].step = "stream"
        BY <1>2, <2>3, <3>1, <3>2 DEF Receive, Reader
      <4> QED
        BY <3>1, <4>1 DEF ReaderTrue
    <3>3. CASE ~ (reader[s].got < Chunks)
      <4>1. /\ reader'[s].step = AtEnd(s) /\ reader'[s].kind = reader[s].kind
            /\ reader'[s].got = reader[s].got /\ reader[s].got = Chunks
        BY <1>2, <2>3, <3>3 DEF Receive, Reader
      <4> QED
        BY <3>1, <4>1 DEF ReaderTrue, AtEnd
    <3> QED
      BY <3>2, <3>3
  <2>4. CASE Break(s)
    <3>1. /\ UNCHANGED delivered /\ delivered[s] = <<>>
          /\ reader'[s].step = Broken(s) /\ reader'[s].kind = reader[s].kind
      BY <1>2, <2>4 DEF Break, ReaderTrue, Reader
    <3> QED
      BY <3>1 DEF ReaderTrue, Broken
  <2>5. CASE UploadFile(s)
    BY <1>2, <2>5 DEF UploadFile, ReaderTrue, Reader
  <2>6. CASE GiveUp(s)
    BY <1>2, <2>6 DEF GiveUp, ReaderTrue, Reader
  <2>7. ASSUME NEW answer \in Answers, SendMessage(s, answer)
        PROVE  ReaderTrue(s)'
    <3>1. delivered[s] = <<>> /\ reader[s].got = Chunks
      BY <1>2, <2>7 DEF SendMessage, ReaderTrue
    <3>2. CASE TriesAgain(answer, reader[s].tries)
      <4>1. answer = "not ready" /\ reader' = [reader EXCEPT ![s].tries = @ + 1]
        BY <2>7, <3>2 DEF SendMessage, TriesAgain
      <4>2. /\ UNCHANGED delivered /\ reader'[s].got = reader[s].got
            /\ reader'[s].step = reader[s].step /\ reader'[s].kind = reader[s].kind
        <5>1. UNCHANGED delivered
          BY <2>7, <4>1 DEF SendMessage
        <5> QED
          BY <1>2, <4>1, <5>1 DEF Reader
      <4> QED
        BY <1>2, <4>2 DEF ReaderTrue
    <3>3. CASE ~ TriesAgain(answer, reader[s].tries)
      <4>1. reader'[s].step = IF answer = "sent" THEN "done" ELSE "refused"
        BY <1>2, <2>7, <3>3 DEF SendMessage, Reader
      <4>2. delivered'[s] = IF answer \in {"sent", "lost"} THEN <<Chunks>> ELSE <<>>
        BY <1>2, <2>7, <3>1 DEF SendMessage
      <4> QED
        BY <4>1, <4>2 DEF ReaderTrue
    <3> QED
      BY <3>2, <3>3
  <2> QED
    BY <2>1, <2>2, <2>3, <2>4, <2>5, <2>6, <2>7 DEF Read
<1>5. ASSUME NEW r \in Readers \ {s} PROVE ReaderTrue(r)'
  BY <1>1, <1>3 DEF ReaderTrue
<1> QED
  BY <1>1, <1>4, <1>5 DEF SentInv

LEMMA SentStep == SentInv /\ [ExportNext]_exportVars => SentInv'
<1> SUFFICES ASSUME SentInv, [ExportNext]_exportVars
             PROVE  SentInv'
  OBVIOUS
<1>1. ExportTypeOK'
  BY TypesStep DEF SentInv
<1>2. CASE UNCHANGED readVars
  BY <1>1, <1>2 DEF readVars, SentInv, ReaderTrue
<1>3. ASSUME NEW x \in Exports, CreateExport(x) \/ Expire(x)
      PROVE  UNCHANGED readVars
  BY <1>3 DEF CreateExport, BeginExport, ListGroupMembers, ListExpenses, ListGroupAdjustments,
              ListSettlements, RefuseExport, Stays, Insert, MarkProcessing, PutExport, MarkReady,
              DropExport, MarkFailed, Expire
<1>4. CASE Retention
  BY <1>2, <1>4 DEF Retention, StartPass, DeleteExport, MarkExportPurged, PassGoesOn
<1>5. CASE (\E u \in Users : Join(u)) \/ (\E op \in Operations : Commit(op))
  BY <1>2, <1>5 DEF Join, Commit
<1>6. CASE \E s \in Readers : Read(s)
  BY <1>6, ReadSent
<1>7. CASE UNCHANGED exportVars
  BY <1>2, <1>7 DEF exportVars, readVars
<1> QED
  BY <1>2, <1>3, <1>4, <1>5, <1>6, <1>7 DEF ExportNext

\* However often the message is tried again and wherever the stream breaks, a
\* request delivers one message at most, with the whole file (exports.go 196-265).
THEOREM SentOnceAlways == ExportSpec => []SentOnce
<1>1. ASSUME SentInv PROVE SentOnce
  <2>1. ASSUME NEW s \in Readers
        PROVE  /\ Len(delivered[s]) =< 1
               /\ \A i \in DOMAIN delivered[s] : delivered[s][i] = Chunks
               /\ reader[s].kind = "send" /\ reader[s].step = "done" => Len(delivered[s]) = 1
    <3>1. ReaderTrue(s)
      BY <1>1 DEF SentInv
    <3>2. CASE delivered[s] = <<>>
      BY <3>1, <3>2 DEF ReaderTrue
    <3>3. CASE delivered[s] = <<Chunks>>
      BY <3>3
    <3> QED
      BY <3>1, <3>2, <3>3 DEF ReaderTrue
  <2> QED
    BY <2>1 DEF SentOnce
<1> QED
  BY <1>1, SentInit, SentStep, PTL DEF ExportSpec

-----------------------------------------------------------------------------
(* Reports *)

\* The least number of a set: what a listing cannot skip.
LEMMA LeastNatural ==
  ASSUME NEW T \in SUBSET Nat, T # {}
  PROVE  \E n \in T : \A m \in T : n =< m
<1> DEFINE Less == {pair \in Nat \X Nat : pair[1] < pair[2]}
<1>1. IsWellFoundedOn(Less, Nat)
  BY NatLessThanWellFounded DEF OpToRel
<1>2. \A m, n \in T : m < n => <<m, n>> \in Less
  OBVIOUS
<1> HIDE DEF Less
<1>3. \E n \in T : \A m \in T : <<m, n>> \notin Less
  BY <1>1, WFMin
<1>4. \A m, n \in T : n =< m \/ m < n
  OBVIOUS
<1>5. QED
  BY <1>2, <1>3, <1>4
-----------------------------------------------------------------------------
(* The rows of a report: the invariant *)

\* A request past its listing of the expenses, and past that of the settlements.
ExpensesListed    == {"adjustments", "settlements"} \cup Storing \cup {"created"}
SettlementsListed == Storing \cup {"created"}

\* A listing has every operation down to its cursor that was committed when the
\* request began, and nothing below it; when it is over, it has them all.
ListingTrue(x, type, before, running, over) ==
  /\ \A i \in DOMAIN request[x].pages[type] :
       request[x].pages[type][i] \subseteq {op \in committed : op.type = type}
  /\ ListedOnce(request[x].pages[type])
  /\ request[x].step \in before => request[x].pages[type] = <<>>
  /\ request[x].step = running =>
       /\ request[x].cursor = 0 => request[x].pages[type] = <<>>
       /\ request[x].cursor # 0 =>
            /\ \A op \in Of(x, type) : op.id >= request[x].cursor
            /\ \A op \in request[x].began :
                 op.type = type /\ op.id >= request[x].cursor => op \in Of(x, type)
  /\ request[x].step \in over =>
       \A op \in request[x].began : op.type = type => op \in Of(x, type)

ListingsTrue(x) ==
  /\ request[x].step \in {"idle", "members", "adjustments"} => request[x].cursor = 0
  /\ ListingTrue(x, "expense", {"idle", "members"}, "expenses", ExpensesListed)
  /\ ListingTrue(x, "settlement", {"idle", "members", "expenses", "adjustments"}, "settlements",
                 SettlementsListed)

\* What a request has read besides.
ReadTrue(x) ==
  /\ request[x].began \subseteq committed
  /\ \A op \in request[x].began :
       /\ op.author \in members
       /\ op.type = "adjustment" =>
            \E e \in request[x].began : e.type = "expense" /\ e.id = op.expense
  /\ request[x].adjustments \subseteq {op \in committed : op.type = "adjustment"}
  /\ request[x].step \in {"expenses"} \cup ExpensesListed =>
       \A op \in request[x].began : op.author \in request[x].names
  /\ request[x].step \in {"settlements"} \cup SettlementsListed =>
       \A op \in request[x].began : op.type = "adjustment" => op \in request[x].adjustments

\* What has been committed: its author was a member, its expense had been committed.
CommittedTrue ==
  /\ IsFiniteSet(committed)
  /\ \A op \in committed :
       /\ op.author \in members
       /\ op.type = "adjustment" => \E e \in committed : e.type = "expense" /\ e.id = op.expense

ReportInv ==
  ExportTypeOK /\ CommittedTrue /\ (\A x \in Exports : ListingsTrue(x) /\ ReadTrue(x))

-----------------------------------------------------------------------------
(* Pages *)

\* A listing answers an empty page only when nothing is left below the cursor,
LEMMA EmptyPage ==
  ASSUME IsFiniteSet(committed), committed \subseteq Operations, NEW type, NEW cursor,
         Page(type, cursor) = {}
  PROVE  Listed(type, cursor) = {}
<1> DEFINE L == Listed(type, cursor)
           Higher(op) == {o \in L : o.id > op.id}
           Counts == {Cardinality(Higher(op)) : op \in L}
<1>0. \A op \in L : op.id \in Nat
  BY ExportAssumption DEF Listed
<1>1. IsFiniteSet(L)
  BY FS_Subset DEF Listed
<1>2. \A op \in L : IsFiniteSet(Higher(op)) /\ Cardinality(Higher(op)) \in Nat
  BY <1>1, FS_Subset, FS_CardinalityType
<1>3. SUFFICES ASSUME L # {} PROVE FALSE
  OBVIOUS
<1>4. PICK op \in L : \A o \in L : Cardinality(Higher(op)) =< Cardinality(Higher(o))
  <2>1. Counts \in SUBSET Nat /\ Counts # {}
    BY <1>2, <1>3
  <2>2. PICK n \in Counts : \A m \in Counts : n =< m
    BY <2>1, LeastNatural
  <2>3. PICK op \in L : n = Cardinality(Higher(op))
    OBVIOUS
  <2>4. \A o \in L : Cardinality(Higher(o)) \in Counts
    OBVIOUS
  <2>5. QED
    BY <2>2, <2>3, <2>4
<1>5. CASE Higher(op) = {}
  <2>1. Cardinality(Higher(op)) < PageLimit
    BY <1>5, FS_EmptySet, ExportAssumption
  <2>2. QED
    BY <2>1 DEF Page
<1>6. CASE Higher(op) # {}
  <2>1. PICK o \in Higher(op) : TRUE
    BY <1>6
  <2>2. o \in L /\ o.id > op.id /\ o.id \in Nat /\ op.id \in Nat
    BY <1>0, <2>1
  <2>3. Higher(o) \in SUBSET Higher(op) /\ o \notin Higher(o)
    BY <1>0, <2>2
  <2>4. /\ Cardinality(Higher(o)) =< Cardinality(Higher(op))
        /\ Cardinality(Higher(o)) = Cardinality(Higher(op)) => Higher(o) = Higher(op)
    BY <1>2, <2>3, FS_Subset
  <2>5. Cardinality(Higher(op)) =< Cardinality(Higher(o))
    BY <1>4, <2>2
  <2>6. Cardinality(Higher(op)) \in Nat /\ Cardinality(Higher(o)) \in Nat
    BY <1>2, <2>2
  <2>7. QED
    BY <2>1, <2>3, <2>4, <2>5, <2>6
<1>7. QED
  BY <1>5, <1>6

\* and otherwise leaves nothing out above its last row.
LEMMA PageIsDense ==
  ASSUME IsFiniteSet(committed), committed \subseteq Operations, NEW type, NEW cursor,
         NEW last \in Page(type, cursor), NEW op \in Listed(type, cursor), last.id =< op.id
  PROVE  op \in Page(type, cursor)
<1> DEFINE L == Listed(type, cursor)
           Higher(o) == {other \in L : other.id > o.id}
<1>1. IsFiniteSet(Higher(last)) /\ IsFiniteSet(Higher(op))
  BY FS_Subset DEF Listed
<1>2. \A o \in L : o.id \in Nat
  BY ExportAssumption DEF Listed
<1>3. Higher(op) \in SUBSET Higher(last)
  BY <1>2 DEF Page
<1>4. Cardinality(Higher(op)) =< Cardinality(Higher(last))
  BY <1>1, <1>3, FS_Subset
<1>5. Cardinality(Higher(last)) < PageLimit
  BY DEF Page
<1>6. Cardinality(Higher(op)) \in Nat /\ Cardinality(Higher(last)) \in Nat
  BY <1>1, FS_CardinalityType
<1>7. Cardinality(Higher(op)) < PageLimit
  BY <1>4, <1>5, <1>6, ExportAssumption
<1>8. QED
  BY <1>7 DEF Page

\* The rows of all pages together.
Spread(pages) == UNION {pages[i] : i \in DOMAIN pages}

LEMMA AppendUnion ==
  ASSUME NEW S, NEW seq \in Seq(S), NEW page \in S
  PROVE  /\ Append(seq, page) \in Seq(S)
         /\ DOMAIN Append(seq, page) = DOMAIN seq \cup {Len(seq) + 1}
         /\ Len(seq) + 1 \notin DOMAIN seq
         /\ \A i \in DOMAIN seq : Append(seq, page)[i] = seq[i]
         /\ Append(seq, page)[Len(seq) + 1] = page
         /\ Spread(Append(seq, page)) = Spread(seq) \cup page
<1>1. Len(seq) \in Nat /\ DOMAIN seq = 1 .. Len(seq)
  BY LenProperties
<1>2. /\ Append(seq, page) \in Seq(S) /\ Len(Append(seq, page)) = Len(seq) + 1
      /\ \A i \in 1 .. Len(seq) : Append(seq, page)[i] = seq[i]
      /\ Append(seq, page)[Len(seq) + 1] = page
  BY <1>1
<1>3. DOMAIN Append(seq, page) = DOMAIN seq \cup {Len(seq) + 1} /\ Len(seq) + 1 \notin DOMAIN seq
  <2>1. DOMAIN Append(seq, page) = 1 .. Len(seq) + 1
    BY <1>2, LenProperties
  <2>2. \A n \in Nat : 1 .. n + 1 = 1 .. n \cup {n + 1} /\ n + 1 \notin 1 .. n
    OBVIOUS
  <2>3. QED
    BY <1>1, <2>1, <2>2
<1> DEFINE longer == Append(seq, page)
<1> HIDE DEF longer
<1>4. Spread(longer) = Spread(seq) \cup page
  <2>1. /\ DOMAIN longer = DOMAIN seq \cup {Len(seq) + 1}
        /\ \A i \in DOMAIN seq : longer[i] = seq[i]
        /\ longer[Len(seq) + 1] = page
    BY <1>1, <1>2, <1>3 DEF longer
  <2>2. \A op : op \in Spread(longer) <=> op \in page \/ \E i \in DOMAIN seq : op \in seq[i]
    BY <2>1 DEF Spread
  <2>3. \A op : op \in Spread(seq) <=> \E i \in DOMAIN seq : op \in seq[i]
    BY DEF Spread
  <2>4. QED
    BY <2>2, <2>3
<1>5. QED
  BY <1>1, <1>2, <1>3, <1>4 DEF longer

\* What a turn makes of a request.
TurnMade(x, type, next, cursor) ==
  LET page == Page(type, request[x].cursor) IN
  /\ IsNextCursor(page, cursor)
  /\ request'[x].cursor = cursor
  /\ request'[x].pages[type] = Append(request[x].pages[type], page)
  /\ \A other \in {"expense", "settlement"} \ {type} :
       request'[x].pages[other] = request[x].pages[other]
  /\ request'[x].step = IF cursor = 0 THEN next
                        ELSE IF cursor = request[x].cursor THEN "refused"
                        ELSE request[x].step
  /\ request'[x].began = request[x].began
  /\ request'[x].names = request[x].names
  /\ request'[x].adjustments = request[x].adjustments
  /\ \A y \in Exports \ {x} : request'[y] = request[y]

LEMMA TurnStep ==
  ASSUME ExportTypeOK, NEW x \in Exports, NEW type \in {"expense", "settlement"}, NEW next,
         Turn(x, type, next)
  PROVE  \E cursor \in Nat : TurnMade(x, type, next, cursor)
<1> DEFINE page == Page(type, request[x].cursor)
<1>1. PICK cursor \in {0} \cup {op.id : op \in page} :
        /\ IsNextCursor(page, cursor)
        /\ request' = [request EXCEPT
                      ![x].pages[type] = Append(@, page),
                      ![x].cursor = cursor,
                      ![x].step = IF cursor = 0 THEN next
                                  ELSE IF cursor = request[x].cursor THEN "refused" ELSE @]
  BY DEF Turn
<1>2. cursor \in Nat
  <2>1. page \subseteq Operations
    BY DEF Page, Listed, ExportTypeOK
  <2>2. QED
    BY <2>1, ExportAssumption
<1> HIDE DEF page
<1>3. /\ request \in [Exports -> Request] /\ request[x] \in Request
      /\ request[x].pages \in [{"expense", "settlement"} -> Seq(SUBSET Operations)]
  BY DEF ExportTypeOK, Request, Pages
<1>4. request' = [request EXCEPT ![x] =
                    [request[x] EXCEPT
                       !.pages = [request[x].pages EXCEPT
                                    ![type] = Append(request[x].pages[type], page)],
                       !.cursor = cursor,
                       !.step = IF cursor = 0 THEN next
                                ELSE IF cursor = request[x].cursor THEN "refused"
                                ELSE request[x].step]]
  BY <1>1, <1>3
<1>5. /\ \A y \in Exports \ {x} : request'[y] = request[y]
      /\ request'[x].pages = [request[x].pages EXCEPT ![type] = Append(request[x].pages[type], page)]
      /\ request'[x].cursor = cursor
      /\ request'[x].step = IF cursor = 0 THEN next
                                ELSE IF cursor = request[x].cursor THEN "refused"
                                ELSE request[x].step
      /\ request'[x].began = request[x].began
      /\ request'[x].names = request[x].names
      /\ request'[x].adjustments = request[x].adjustments
  BY <1>3, <1>4 DEF Request
<1>6. /\ request'[x].pages[type] = Append(request[x].pages[type], page)
      /\ \A other \in {"expense", "settlement"} \ {type} :
           request'[x].pages[other] = request[x].pages[other]
  BY <1>3, <1>5
<1>7. QED
  BY <1>1, <1>2, <1>5, <1>6 DEF page, TurnMade

\* A listing that is not the one at work stays what it is.
LEMMA ListingKept ==
  ASSUME NEW x \in Exports, NEW type \in {"expense", "settlement"}, NEW before, NEW running,
         NEW over, ListingTrue(x, type, before, running, over), committed \subseteq committed',
         request'[x].pages[type] = request[x].pages[type],
         request'[x].step \in over \cup {running} => request'[x].began = request[x].began,
         request'[x].step \in before => request[x].step \in before,
         request'[x].step = running =>
           \/ request[x].step = running /\ request'[x].cursor = request[x].cursor
           \/ request[x].step \in before /\ request'[x].cursor = 0,
         request'[x].step \in over => request[x].step \in over
  PROVE  ListingTrue(x, type, before, running, over)'
<1>1. Of(x, type)' = Of(x, type)
  BY DEF Of
<1>2. QED
  BY <1>1 DEF ListingTrue

\* One page more, down to the new cursor or to the end.
LEMMA TurnListing ==
  ASSUME ReportInv, NEW x \in Exports, NEW type \in {"expense", "settlement"}, NEW next,
         NEW before, NEW running, NEW over,
         ListingTrue(x, type, before, running, over), Turn(x, type, next),
         committed' = committed, request[x].step = running,
         running \notin before \cup over, next \notin before \cup {running},
         "refused" \notin before \cup {running} \cup over
  PROVE  ListingTrue(x, type, before, running, over)'
<1> DEFINE old == request[x].cursor
           page == Page(type, old)
           seq == request[x].pages[type]
<1>0. PICK cursor \in Nat : TurnMade(x, type, next, cursor)
  BY TurnStep DEF ReportInv
<1>1. /\ IsNextCursor(page, cursor)
      /\ request'[x].cursor = cursor
      /\ request'[x].pages[type] = Append(seq, page)
      /\ request'[x].step = IF cursor = 0 THEN next
                            ELSE IF cursor = old THEN "refused" ELSE request[x].step
      /\ request'[x].began = request[x].began
  BY <1>0 DEF TurnMade
<1>2. /\ committed \subseteq Operations /\ IsFiniteSet(committed) /\ old \in Nat
      /\ seq \in Seq(SUBSET Operations)
  BY DEF ReportInv, ExportTypeOK, CommittedTrue, Request, Pages
<1>3. /\ page \in SUBSET Operations /\ page \subseteq {op \in committed : op.type = type}
      /\ \A op \in page : op.id \in Nat /\ op.id # 0 /\ (old # 0 => op.id < old)
  BY <1>2, ExportAssumption DEF Page, Listed
<1> HIDE DEF old, page, seq
<1>4. /\ request'[x].pages[type] = Append(seq, page)
      /\ DOMAIN Append(seq, page) = DOMAIN seq \cup {Len(seq) + 1}
      /\ Len(seq) + 1 \notin DOMAIN seq
      /\ \A i \in DOMAIN seq : Append(seq, page)[i] = seq[i]
      /\ Append(seq, page)[Len(seq) + 1] = page
      /\ Of(x, type)' = Of(x, type) \cup page
  <2>1. /\ DOMAIN Append(seq, page) = DOMAIN seq \cup {Len(seq) + 1}
        /\ Len(seq) + 1 \notin DOMAIN seq
        /\ \A i \in DOMAIN seq : Append(seq, page)[i] = seq[i]
        /\ Append(seq, page)[Len(seq) + 1] = page
        /\ Spread(Append(seq, page)) = Spread(seq) \cup page
    <3> DEFINE S == SUBSET Operations
    <3>1. seq \in Seq(S) /\ page \in S
      BY <1>2, <1>3
    <3> HIDE DEF S
    <3>2. QED
      BY <3>1, AppendUnion
  <2>2. request'[x].pages[type] = Append(seq, page)
    BY <1>1
  <2>3. Of(x, type) = Spread(seq) /\ Of(x, type)' = Spread(request'[x].pages[type])
    BY DEF Of, Spread, seq
  <2>4. QED
    BY <2>1, <2>2, <2>3
<1>5. /\ old = 0 => seq = <<>>
      /\ old # 0 => /\ \A op \in Of(x, type) : op.id >= old
                    /\ \A op \in request[x].began :
                         op.type = type /\ op.id >= old => op \in Of(x, type)
  BY DEF ListingTrue, old, seq
<1>6. /\ \A i \in DOMAIN seq : seq[i] \subseteq {op \in committed : op.type = type}
      /\ ListedOnce(seq)
  BY DEF ListingTrue, seq
<1>7. \A i \in DOMAIN seq : seq[i] \subseteq Of(x, type)
  BY DEF Of, seq
<1>8. Of(x, type) \subseteq Operations
  BY <1>2, <1>6 DEF Of, seq
<1>9. /\ \A op \in Operations : op.id \in Nat \ {0}
      /\ request[x].began \subseteq committed
  BY ExportAssumption DEF ReportInv, ReadTrue
<1>10. old = 0 => DOMAIN seq = {} /\ Of(x, type) = {}
  BY <1>5 DEF Of, seq
<1>11. ASSUME NEW i \in DOMAIN seq, NEW op \in seq[i], op \in page PROVE FALSE
  <2>1. old # 0 /\ op \in Of(x, type) /\ op \in Operations
    BY <1>7, <1>8, <1>10, <1>11
  <2>2. op.id \in Nat /\ op.id >= old /\ op.id < old
    BY <1>3, <1>5, <1>9, <1>11, <2>1
  <2>3. QED
    BY <1>2, <2>2
<1>12. ListedOnce(request'[x].pages[type])
  BY <1>4, <1>6, <1>11 DEF ListedOnce
<1>13. \A i \in DOMAIN request'[x].pages[type] :
         request'[x].pages[type][i] \subseteq {op \in committed : op.type = type}
  BY <1>3, <1>4, <1>6
<1>14. CASE page = {}
  <2>1. cursor = 0 /\ request'[x].step = next
    BY <1>1, <1>14 DEF IsNextCursor, page, old
  <2>2. Listed(type, old) = {}
    BY <1>2, <1>14, EmptyPage DEF page
  <2>3. \A op \in request[x].began : op.type = type => op \in Of(x, type)
    BY <1>2, <1>5, <1>9, <2>2 DEF Listed
  <2>4. QED
    BY <1>1, <1>4, <1>12, <1>13, <2>1, <2>3 DEF ListingTrue
<1>15. CASE page # {}
  <2>1. PICK last \in page : cursor = last.id /\ \A op \in page : last.id =< op.id
    BY <1>1, <1>15 DEF IsNextCursor, page, old
  <2>2. cursor \in Nat \ {0} /\ cursor # old /\ (old # 0 => cursor < old)
    BY <1>2, <1>3, <2>1
  <2>3. request'[x].step = running
    BY <1>1, <2>2 DEF old
  <2>4. \A op \in Of(x, type) \cup page : op.id >= cursor
    BY <1>2, <1>3, <1>5, <1>8, <1>9, <1>10, <2>1, <2>2
  <2>5. ASSUME NEW op \in request[x].began, op.type = type, op.id >= cursor
        PROVE  op \in Of(x, type) \cup page
    <3>1. op \in committed /\ op.id \in Nat /\ last.id =< op.id
      BY <1>2, <1>9, <2>1, <2>2, <2>5
    <3>2. CASE old # 0 /\ op.id >= old
      BY <1>5, <2>5, <3>2
    <3>3. CASE ~(old # 0 /\ op.id >= old)
      <4>1. op \in Listed(type, old)
        BY <1>2, <2>5, <3>1, <3>3 DEF Listed
      <4>2. QED
        BY <1>2, <2>1, <3>1, <4>1, PageIsDense DEF page
    <3>4. QED
      BY <3>2, <3>3
  <2>6. QED
    BY <1>1, <1>4, <1>12, <1>13, <2>2, <2>3, <2>4, <2>5 DEF ListingTrue
<1>16. QED
  BY <1>14, <1>15

-----------------------------------------------------------------------------
(* Steps *)

\* Nothing of an export's rows is lost when it only goes on to store them, stops,
\* or somebody else moves.
LEMMA ReportKept ==
  ASSUME ReportInv, NEW y \in Exports, committed \subseteq committed', members \subseteq members',
         request'[y].pages = request[y].pages, request'[y].began = request[y].began,
         request'[y].names = request[y].names, request'[y].cursor = request[y].cursor,
         request'[y].adjustments = request[y].adjustments,
         \/ request'[y].step = request[y].step
         \/ request[y].step \in Storing /\ request'[y].step \in Storing \cup {"created"}
         \/ request'[y].step \in {"refused", "cut"}
  PROVE  ListingsTrue(y)' /\ ReadTrue(y)'
<1> USE DEF ExpensesListed, SettlementsListed, Storing
<1>1. ListingsTrue(y) /\ ReadTrue(y)
  BY DEF ReportInv
<1>2. ListingTrue(y, "expense", {"idle", "members"}, "expenses", ExpensesListed)'
  BY <1>1, ListingKept DEF ListingsTrue
<1>3. ListingTrue(y, "settlement", {"idle", "members", "expenses", "adjustments"}, "settlements",
                  SettlementsListed)'
  BY <1>1, ListingKept DEF ListingsTrue
<1>4. ListingsTrue(y)'
  BY <1>1, <1>2, <1>3 DEF ListingsTrue
<1>5. ReadTrue(y)'
  BY <1>1 DEF ReadTrue
<1>6. QED
  BY <1>4, <1>5

LEMMA AssemblyReport ==
  ASSUME ReportInv, NEW x \in Exports,
         \/ BeginExport(x) \/ ListGroupMembers(x) \/ ListExpenses(x)
         \/ ListGroupAdjustments(x) \/ ListSettlements(x) \/ RefuseExport(x)
  PROVE  ReportInv'
<1>1. ExportTypeOK /\ ExportTypeOK' /\ ListingsTrue(x) /\ ReadTrue(x) /\ CommittedTrue
  BY AssemblyType DEF ReportInv
<1>2. UNCHANGED <<members, committed>>
  BY DEF BeginExport, ListGroupMembers, ListExpenses, ListGroupAdjustments, ListSettlements,
         RefuseExport, Stays, coreVars
<1>3. CommittedTrue'
  BY <1>1, <1>2 DEF CommittedTrue
<1>4. request \in [Exports -> Request] /\ request[x] \in Request
  BY <1>1 DEF ExportTypeOK
<1>5. \A y \in Exports \ {x} : request'[y] = request[y]
  <2>1. ASSUME NEW type \in {"expense", "settlement"}, NEW next, Turn(x, type, next)
        PROVE  \A y \in Exports \ {x} : request'[y] = request[y]
    BY <1>1, <2>1, TurnStep DEF TurnMade
  <2>2. QED
    BY <1>4, <2>1 DEF BeginExport, ListGroupMembers, ListExpenses, ListGroupAdjustments,
           ListSettlements, RefuseExport
<1>6. ASSUME NEW y \in Exports, y # x PROVE ListingsTrue(y)' /\ ReadTrue(y)'
  BY <1>2, <1>5, <1>6, ReportKept
<1>7. ListingsTrue(x)' /\ ReadTrue(x)'
  <2>1. CASE BeginExport(x)
    <3>1. /\ request[x].step = "idle" /\ request'[x].step = "members"
          /\ request'[x].began = committed /\ request'[x].pages = request[x].pages
          /\ request'[x].cursor = request[x].cursor
          /\ request'[x].adjustments = request[x].adjustments
      BY <1>4, <2>1 DEF BeginExport, Request
    <3>2. ListingTrue(x, "expense", {"idle", "members"}, "expenses", ExpensesListed)'
      BY <1>1, <1>2, <3>1, ListingKept DEF ListingsTrue, ExpensesListed, Storing
    <3>3. ListingTrue(x, "settlement", {"idle", "members", "expenses", "adjustments"},
                      "settlements", SettlementsListed)'
      BY <1>1, <1>2, <3>1, ListingKept DEF ListingsTrue, SettlementsListed, Storing
    <3>4. ListingsTrue(x)'
      BY <1>1, <3>1, <3>2, <3>3 DEF ListingsTrue
    <3>5. ReadTrue(x)'
      BY <1>1, <1>2, <3>1
         DEF ReadTrue, CommittedTrue, ExpensesListed, SettlementsListed, Storing
    <3>6. QED
      BY <3>4, <3>5
  <2>2. CASE ListGroupMembers(x)
    <3>1. /\ request[x].step = "members" /\ request'[x].step = "expenses"
          /\ request'[x].names = members /\ request'[x].pages = request[x].pages
          /\ request'[x].cursor = request[x].cursor /\ request'[x].began = request[x].began
          /\ request'[x].adjustments = request[x].adjustments
      BY <1>4, <2>2 DEF ListGroupMembers, Request
    <3>2. request[x].cursor = 0
      BY <1>1, <3>1 DEF ListingsTrue
    <3>3. ListingTrue(x, "expense", {"idle", "members"}, "expenses", ExpensesListed)'
      BY <1>1, <1>2, <3>1, <3>2, ListingKept DEF ListingsTrue, ExpensesListed, Storing
    <3>4. ListingTrue(x, "settlement", {"idle", "members", "expenses", "adjustments"},
                      "settlements", SettlementsListed)'
      BY <1>1, <1>2, <3>1, ListingKept DEF ListingsTrue, SettlementsListed, Storing
    <3>5. ListingsTrue(x)'
      BY <1>1, <3>1, <3>3, <3>4 DEF ListingsTrue
    <3>6. ReadTrue(x)'
      BY <1>1, <1>2, <3>1 DEF ReadTrue, ExpensesListed, SettlementsListed, Storing
    <3>7. QED
      BY <3>5, <3>6
  <2>3. CASE ListExpenses(x)
    <3>1. Turn(x, "expense", "adjustments") /\ request[x].step = "expenses"
      BY <2>3 DEF ListExpenses
    <3>2. PICK cursor \in Nat : TurnMade(x, "expense", "adjustments", cursor)
      BY <1>1, <3>1, TurnStep
    <3>3. /\ request'[x].step \in {"expenses", "refused", "adjustments"}
          /\ request'[x].step = "adjustments" => cursor = 0
          /\ request'[x].cursor = cursor /\ request'[x].began = request[x].began
          /\ request'[x].names = request[x].names
          /\ request'[x].adjustments = request[x].adjustments
          /\ request'[x].pages["settlement"] = request[x].pages["settlement"]
      BY <3>1, <3>2 DEF TurnMade
    <3>4. ListingTrue(x, "expense", {"idle", "members"}, "expenses", ExpensesListed)'
      BY <1>1, <1>2, <3>1, TurnListing DEF ListingsTrue, ExpensesListed, Storing
    <3>5. ListingTrue(x, "settlement", {"idle", "members", "expenses", "adjustments"},
                      "settlements", SettlementsListed)'
      BY <1>1, <1>2, <3>1, <3>3, ListingKept DEF ListingsTrue, SettlementsListed, Storing
    <3>6. ListingsTrue(x)'
      BY <3>3, <3>4, <3>5 DEF ListingsTrue
    <3>7. ReadTrue(x)'
      BY <1>1, <1>2, <3>1, <3>3 DEF ReadTrue, ExpensesListed, SettlementsListed, Storing
    <3>8. QED
      BY <3>6, <3>7
  <2>4. CASE ListGroupAdjustments(x)
    <3>1. /\ request[x].step = "adjustments" /\ request'[x].step = "settlements"
          /\ request'[x].names = request[x].names /\ request'[x].pages = request[x].pages
          /\ request'[x].cursor = request[x].cursor /\ request'[x].began = request[x].began
          /\ request'[x].adjustments = {op \in committed : op.type = "adjustment"}
      BY <1>4, <2>4 DEF ListGroupAdjustments, Request
    <3>2. request[x].cursor = 0
      BY <1>1, <3>1 DEF ListingsTrue
    <3>3. ListingTrue(x, "expense", {"idle", "members"}, "expenses", ExpensesListed)'
      BY <1>1, <1>2, <3>1, ListingKept DEF ListingsTrue, ExpensesListed, Storing
    <3>4. ListingTrue(x, "settlement", {"idle", "members", "expenses", "adjustments"},
                      "settlements", SettlementsListed)'
      BY <1>1, <1>2, <3>1, <3>2, ListingKept DEF ListingsTrue, SettlementsListed, Storing
    <3>5. ListingsTrue(x)'
      BY <3>1, <3>3, <3>4 DEF ListingsTrue
    <3>6. ReadTrue(x)'
      BY <1>1, <1>2, <3>1 DEF ReadTrue, ExpensesListed, SettlementsListed, Storing
    <3>7. QED
      BY <3>5, <3>6
  <2>5. CASE ListSettlements(x)
    <3>1. Turn(x, "settlement", "insert") /\ request[x].step = "settlements"
      BY <2>5 DEF ListSettlements
    <3>2. PICK cursor \in Nat : TurnMade(x, "settlement", "insert", cursor)
      BY <1>1, <3>1, TurnStep
    <3>3. /\ request'[x].step \in {"settlements", "refused", "insert"}
          /\ request'[x].began = request[x].began
          /\ request'[x].names = request[x].names
          /\ request'[x].adjustments = request[x].adjustments
          /\ request'[x].pages["expense"] = request[x].pages["expense"]
      BY <3>1, <3>2 DEF TurnMade
    <3>4. ListingTrue(x, "expense", {"idle", "members"}, "expenses", ExpensesListed)'
      BY <1>1, <1>2, <3>1, <3>3, ListingKept DEF ListingsTrue, ExpensesListed, Storing
    <3>5. ListingTrue(x, "settlement", {"idle", "members", "expenses", "adjustments"},
                      "settlements", SettlementsListed)'
      BY <1>1, <1>2, <3>1, TurnListing DEF ListingsTrue, SettlementsListed, Storing
    <3>6. ListingsTrue(x)'
      BY <3>3, <3>4, <3>5 DEF ListingsTrue
    <3>7. ReadTrue(x)'
      BY <1>1, <1>2, <3>1, <3>3 DEF ReadTrue, ExpensesListed, SettlementsListed, Storing
    <3>8. QED
      BY <3>6, <3>7
  <2>6. CASE RefuseExport(x)
    <3>1. /\ request'[x].step = "refused"
          /\ request'[x].names = request[x].names /\ request'[x].pages = request[x].pages
          /\ request'[x].cursor = request[x].cursor /\ request'[x].began = request[x].began
          /\ request'[x].adjustments = request[x].adjustments
      BY <1>4, <2>6 DEF RefuseExport, Request
    <3>2. QED
      BY <1>2, <3>1, ReportKept
  <2>7. QED
    BY <2>1, <2>2, <2>3, <2>4, <2>5, <2>6
<1>8. QED
  BY <1>1, <1>3, <1>6, <1>7 DEF ReportInv

LEMMA CommitReport ==
  ASSUME ReportInv, (\E u \in Users : Join(u)) \/ (\E op \in Operations : Commit(op))
  PROVE  CommittedTrue'
<1>1. CASE \E u \in Users : Join(u)
  BY <1>1 DEF Join, ReportInv, CommittedTrue
<1>2. ASSUME NEW op \in Operations, Commit(op) PROVE CommittedTrue'
  <2>1. committed' = committed \cup {op} /\ members' = members /\ op.author \in members
    BY <1>2 DEF Commit
  <2>2. IsFiniteSet(committed')
    BY <2>1, FS_AddElement DEF ReportInv, CommittedTrue
  <2>3. op.type = "adjustment" => \E e \in committed : e.type = "expense" /\ e.id = op.expense
    BY <1>2 DEF Commit
  <2>4. QED
    BY <2>1, <2>2, <2>3 DEF ReportInv, CommittedTrue
<1>3. QED
  BY <1>1, <1>2

LEMMA ReportStep == ReportInv /\ [ExportNext]_exportVars => ReportInv'
<1> SUFFICES ASSUME ReportInv, [ExportNext]_exportVars PROVE ReportInv'
  OBVIOUS
<1>1. ExportTypeOK /\ ExportTypeOK' /\ request \in [Exports -> Request]
  BY TypesStep DEF ReportInv, ExportTypeOK
<1>2. ASSUME NEW x \in Exports, NEW fate \in Fates,
             \/ Insert(x, fate) \/ MarkProcessing(x, fate) \/ PutExport(x, fate)
             \/ MarkReady(x, fate) \/ DropExport(x, fate) \/ MarkFailed(x, fate)
      PROVE  ReportInv'
  <2>1. UNCHANGED <<members, committed>> /\ request[x].step \in Storing
    BY <1>2 DEF Insert, MarkProcessing, PutExport, MarkReady, DropExport, MarkFailed, coreVars,
                Storing
  <2>2. PICK step \in Storing \cup {"created", "refused", "cut"} :
          request' = [request EXCEPT ![x].step = step]
    BY <1>2 DEF Insert, MarkProcessing, PutExport, MarkReady, DropExport, MarkFailed, GoOn,
                Storing
  <2>3. CommittedTrue'
    BY <2>1 DEF ReportInv, CommittedTrue
  <2>4. \A y \in Exports :
          /\ request'[y].pages = request[y].pages /\ request'[y].began = request[y].began
          /\ request'[y].names = request[y].names /\ request'[y].cursor = request[y].cursor
          /\ request'[y].adjustments = request[y].adjustments
          /\ request'[y].step = IF y = x THEN step ELSE request[y].step
    BY <1>1, <2>2 DEF Request
  <2>5. QED
    BY <1>1, <2>1, <2>3, <2>4, ReportKept DEF ReportInv
<1>3. ASSUME NEW x \in Exports,
             \/ BeginExport(x) \/ ListGroupMembers(x) \/ ListExpenses(x)
             \/ ListGroupAdjustments(x) \/ ListSettlements(x) \/ RefuseExport(x)
      PROVE  ReportInv'
  BY <1>3, AssemblyReport
<1>4. CASE (\E u \in Users : Join(u)) \/ (\E op \in Operations : Commit(op))
  <2>1. request' = request /\ committed \subseteq committed' /\ members \subseteq members'
    BY <1>4 DEF Join, Commit
  <2>2. QED
    BY <1>1, <1>4, <2>1, CommitReport, ReportKept DEF ReportInv
<1>5. CASE \/ \E x \in Exports : Expire(x)
           \/ Retention
           \/ \E s \in Readers : Read(s)
           \/ UNCHANGED exportVars
  <2>1. UNCHANGED <<members, committed, request>>
    BY <1>5 DEF Expire, Retention, StartPass, DeleteExport, MarkExportPurged, PassGoesOn, Read,
         BeginRead, OpenStream, Receive, Break, UploadFile, GiveUp, SendMessage, ReaderStays,
         exportVars, coreVars
  <2>2. CommittedTrue'
    BY <2>1 DEF ReportInv, CommittedTrue
  <2>3. QED
    BY <1>1, <2>1, <2>2, ReportKept DEF ReportInv
<1>6. QED
  BY <1>2, <1>3, <1>4, <1>5 DEF ExportNext, CreateExport

LEMMA ReportInit == ExportInit => ReportInv
<1> SUFFICES ASSUME ExportInit PROVE ReportInv
  OBVIOUS
<1>1. ExportTypeOK
  BY TypesInit
<1>2. CommittedTrue
  BY FS_EmptySet DEF ExportInit, CommittedTrue
<1>3. ASSUME NEW x \in Exports PROVE ListingsTrue(x) /\ ReadTrue(x)
  <2>1. /\ request[x].step = "idle" /\ request[x].cursor = 0 /\ request[x].began = {}
        /\ request[x].adjustments = {}
        /\ \A type \in {"expense", "settlement"} : request[x].pages[type] = <<>>
    BY DEF ExportInit, NewRequest
  <2>2. ListingsTrue(x)
    BY <2>1 DEF ListingsTrue, ListingTrue, ListedOnce, ExpensesListed, SettlementsListed, Storing
  <2>3. QED
    BY <2>1, <2>2 DEF ReadTrue
<1>4. QED
  BY <1>1, <1>2, <1>3 DEF ReportInv

\* However the group goes on living between the calls and the pages, an assembled
\* report has everything that was committed before it was asked for, once, with its
\* author's name, and nothing that was not committed (exports.go 331-424).
THEOREM ReportAlwaysWhole == ExportSpec => []ReportWhole
<1>1. ASSUME ReportInv PROVE ReportWhole
  <2> SUFFICES ASSUME NEW x \in Exports, request[x].step \in Storing \cup {"created"}
               PROVE  /\ \A type \in {"expense", "settlement"} : ListedOnce(request[x].pages[type])
                      /\ request[x].began \subseteq Rows(x) /\ Rows(x) \subseteq committed
                      /\ \A op \in request[x].began : Named(x, op)
    BY DEF ReportWhole
  <2>1. /\ ListingsTrue(x) /\ ReadTrue(x)
        /\ request \in [Exports -> Request] /\ committed \subseteq Operations
    BY <1>1 DEF ReportInv, ExportTypeOK
  <2>2. \A type \in {"expense", "settlement"} : ListedOnce(request[x].pages[type])
    BY <2>1 DEF ListingsTrue, ListingTrue
  <2>3. /\ \A op \in request[x].began : op.type = "expense" => op \in Of(x, "expense")
        /\ \A op \in request[x].began : op.type = "settlement" => op \in Of(x, "settlement")
    BY <2>1 DEF ListingsTrue, ListingTrue, ExpensesListed, SettlementsListed
  <2>4. Of(x, "expense") \subseteq committed /\ Of(x, "settlement") \subseteq committed
    BY <2>1 DEF ListingsTrue, ListingTrue, Of
  <2>5. /\ request[x].adjustments \subseteq committed /\ request[x].began \subseteq committed
        /\ \A op \in request[x].began :
             /\ op.author \in request[x].names
             /\ op.type = "adjustment" =>
                  /\ op \in request[x].adjustments
                  /\ \E e \in request[x].began : e.type = "expense" /\ e.id = op.expense
    BY <2>1 DEF ReadTrue, ExpensesListed, SettlementsListed
  <2>6. \A op \in Operations : op.type \in {"expense", "adjustment", "settlement"}
    BY ExportAssumption
  <2>7. request[x].began \subseteq Rows(x)
    BY <2>1, <2>3, <2>5, <2>6 DEF Rows
  <2>8. Rows(x) \subseteq committed
    BY <2>4, <2>5 DEF Rows
  <2>9. QED
    BY <2>2, <2>5, <2>7, <2>8 DEF Named
<1>2. QED
  BY <1>1, ReportInit, ReportStep, PTL DEF ExportSpec

-----------------------------------------------------------------------------
(* Receipts: the invariant *)

IsActive(j) == jobs[j].status \in {"pending", "processing"}

\* What the rows, the storage and the calls at work say of each other.
RowsTrue ==
  /\ \A r \in Receipts :
       /\ upload[r] \in {"put", "insert"} => status[r] = "absent"
       /\ upload[r] = "job" => status[r] \in {"uploaded", "deleted"}
       /\ status[r] = "ready" => r \in result
       /\ r \in purged => status[r] # "absent" /\ r \notin originals
       /\ r \in sweep => status[r] # "absent"
       /\ r \in swept => r \notin originals
  /\ \A h \in Handlers : handling[h] # Quiet =>
       /\ status[handling[h].receipt] # "absent"
       /\ handling[h].at = "purge" => handling[h].receipt \notin originals

\* A job belongs to a receipt whose upload has come to it, and is the only active
\* one, for which the receipt is not shown as failed.
JobsTrue ==
  /\ \A j \in JobIds :
       /\ status[jobs[j].receipt] # "absent"
       /\ upload[jobs[j].receipt] \notin {"put", "insert", "job"}
       /\ IsActive(j) => status[jobs[j].receipt] # "failed"
  /\ \A i, j \in JobIds :
       jobs[i].receipt = jobs[j].receipt /\ IsActive(i) /\ IsActive(j) => i = j

\* While the worker is busy with a receipt, also when its job is over, nobody can
\* have asked for another one.
WorkerTrue ==
  worker.job # NoJob =>
    /\ status[Mine] # "failed"
    /\ \A j \in JobIds : jobs[j].receipt = Mine /\ IsActive(j) => j = worker.job
    /\ worker.at = "ready" => Mine \in result
    /\ worker.at = "fail_receipt" => jobs[worker.job].status = "failed"

ReceiptInv == ReceiptTypeOK /\ RowsTrue /\ JobsTrue /\ WorkerTrue

LEMMA ReceiptsBegin == ReceiptInit => ReceiptInv
BY ReceiptAssumption
   DEF ReceiptInit, ReceiptInv, ReceiptTypeOK, RowsTrue, JobsTrue, WorkerTrue, JobIds, Idle,
       NoJob, Handling, Quiet

-----------------------------------------------------------------------------
(* What the statements make of the table of jobs *)

LEMMA AnyJob ==
  ASSUME ReceiptTypeOK, NEW j \in JobIds
  PROVE  /\ jobs[j] \in Job /\ jobs[j].receipt \in Receipts /\ j \in Nat \ {0}
         /\ jobs[j].attempts \in 0 .. MaxAttempts
<1>1. jobs \in Seq(Job)
  BY DEF ReceiptTypeOK
<1>2. jobs[j] \in Job
  BY <1>1, ElementOfSeq DEF JobIds
<1>3. QED
  BY <1>1, <1>2 DEF Job, JobIds

\* One job's status is set,
LEMMA SetJobShape ==
  ASSUME ReceiptTypeOK, NEW j \in JobIds, NEW new \in {"pending", "completed", "failed"},
         SetJob(j, new)
  PROVE  /\ jobs' \in Seq(Job) /\ Len(jobs') = Len(jobs)
         /\ \A i \in JobIds : /\ jobs'[i].receipt = jobs[i].receipt
                              /\ jobs'[i].status = IF i = j THEN new ELSE jobs[i].status
         /\ due' \subseteq JobIds
<1> DEFINE job == [receipt |-> jobs[j].receipt, attempts |-> jobs[j].attempts, status |-> new]
<1>1. jobs[j] \in Job
  BY AnyJob
<1>2. job \in Job /\ job.status = new /\ job.receipt = jobs[j].receipt
  BY <1>1 DEF Job
<1>3. [jobs[j] EXCEPT !.status = new] = job
  BY <1>1 DEF Job
<1>4. jobs' = [jobs EXCEPT ![j] = job]
  BY <1>3 DEF SetJob
<1>5. jobs \in Seq(Job) /\ j \in 1 .. Len(jobs) /\ due \subseteq JobIds
  BY DEF ReceiptTypeOK, JobIds
<1> HIDE DEF job
<1>6. /\ jobs' \in Seq(Job) /\ Len(jobs') = Len(jobs)
      /\ \A i \in JobIds : jobs'[i] = IF i = j THEN job ELSE jobs[i]
  BY <1>2, <1>4, <1>5, ExceptSeq DEF JobIds
<1>7. QED
  BY <1>2, <1>5, <1>6 DEF SetJob

\* a job is added,
LEMMA InsertJobShape ==
  ASSUME ReceiptTypeOK, NEW r \in Receipts, InsertJob(r)
  PROVE  /\ jobs' \in Seq(Job) /\ Len(jobs') = Len(jobs) + 1 /\ Len(jobs') =< MaxJobs
         /\ \A i \in JobIds : jobs'[i] = jobs[i]
         /\ jobs'[Len(jobs) + 1].receipt = r /\ jobs'[Len(jobs) + 1].status = "pending"
         /\ due' \subseteq 1 .. Len(jobs) + 1
<1> DEFINE job == [receipt |-> r, status |-> "pending", attempts |-> 0]
<1>1. job \in Job /\ job.receipt = r /\ job.status = "pending"
  BY ReceiptAssumption DEF Job
<1>2. jobs \in Seq(Job) /\ Len(jobs) \in Nat /\ due \subseteq 1 .. Len(jobs)
  BY DEF ReceiptTypeOK, JobIds
<1>3. jobs' = Append(jobs, job) /\ Len(jobs) < MaxJobs /\ due' = due \cup {Len(jobs) + 1}
  BY DEF InsertJob
<1> HIDE DEF job
<1>4. /\ jobs' \in Seq(Job) /\ Len(jobs') = Len(jobs) + 1
      /\ \A i \in 1 .. Len(jobs) : jobs'[i] = jobs[i]
      /\ jobs'[Len(jobs) + 1] = job
  BY <1>1, <1>2, <1>3
<1>5. QED
  <2>1. Len(jobs') =< MaxJobs
    BY <1>2, <1>3, <1>4, ReceiptAssumption
  <2>2. due' \subseteq 1 .. Len(jobs) + 1
    <3>1. \A n \in Nat : 1 .. n \subseteq 1 .. n + 1 /\ n + 1 \in 1 .. n + 1
      OBVIOUS
    <3>2. QED
      BY <1>2, <1>3, <3>1
  <2>3. QED
    BY <1>1, <1>4, <2>1, <2>2 DEF JobIds

\* interrupted jobs are put back,
LEMMA StartShape ==
  ASSUME ReceiptTypeOK, NEW old \in SUBSET JobIds, Start(old)
  PROVE  /\ jobs' \in Seq(Job) /\ Len(jobs') = Len(jobs)
         /\ \A i \in JobIds : /\ jobs'[i].receipt = jobs[i].receipt
                              /\ jobs'[i].status = IF i \in old THEN "pending" ELSE jobs[i].status
<1>1. jobs \in Seq(Job) /\ Len(jobs) \in Nat
  BY DEF ReceiptTypeOK
<1>2. \A i \in JobIds : [jobs[i] EXCEPT !.status = "pending"] =
        [receipt |-> jobs[i].receipt, attempts |-> jobs[i].attempts, status |-> "pending"]
  BY AnyJob DEF Job
<1>3. jobs' = [i \in 1 .. Len(jobs) |->
                 IF i \in old
                 THEN [receipt |-> jobs[i].receipt, attempts |-> jobs[i].attempts,
                       status |-> "pending"]
                 ELSE jobs[i]]
  BY <1>2 DEF Start, JobIds
<1>4. jobs' \in [1 .. Len(jobs) -> Job]
  BY <1>3, AnyJob DEF Job, JobIds
<1>5. jobs' \in Seq(Job) /\ Len(jobs') = Len(jobs)
  BY <1>1, <1>4
<1>6. QED
  BY <1>3, <1>5 DEF JobIds

\* a job is claimed.
LEMMA ClaimShape ==
  ASSUME ReceiptTypeOK, NEW j \in JobIds, ClaimPending(j)
  PROVE  /\ jobs' \in Seq(Job) /\ Len(jobs') = Len(jobs)
         /\ \A i \in JobIds : /\ jobs'[i].receipt = jobs[i].receipt
                              /\ jobs'[i].status = IF i = j THEN "processing" ELSE jobs[i].status
<1> DEFINE job == [receipt |-> jobs[j].receipt, attempts |-> jobs[j].attempts + 1,
                   status |-> "processing"]
<1>1. jobs[j] \in Job /\ jobs[j].attempts \in 0 .. MaxAttempts /\ jobs[j].attempts < MaxAttempts
  BY AnyJob DEF ClaimPending, Claimable
<1>2. job \in Job /\ job.status = "processing" /\ job.receipt = jobs[j].receipt
  BY <1>1, ReceiptAssumption DEF Job
<1>3. jobs' = [jobs EXCEPT ![j] = job]
  <2>1. jobs \in Seq(Job) /\ j \in DOMAIN jobs
    BY LenProperties DEF ReceiptTypeOK, JobIds
  <2>2. jobs' = [[jobs EXCEPT ![j] = [jobs[j] EXCEPT !.status = "processing"]]
                 EXCEPT ![j].attempts = jobs[j].attempts + 1]
    BY <1>1, <2>1 DEF ClaimPending, Job
  <2>3. [[jobs[j] EXCEPT !.status = "processing"] EXCEPT !.attempts = jobs[j].attempts + 1] = job
    <3>1. [jobs[j] EXCEPT !.status = "processing"] =
            [receipt |-> jobs[j].receipt, attempts |-> jobs[j].attempts, status |-> "processing"]
      BY <1>1 DEF Job
    <3>2. PICK rec : rec = [jobs[j] EXCEPT !.status = "processing"]
      OBVIOUS
    <3>3. rec \in Job /\ rec.receipt = jobs[j].receipt /\ rec.status = "processing"
      BY <1>1, <3>1, <3>2 DEF Job
    <3>4. [rec EXCEPT !.attempts = jobs[j].attempts + 1] =
            [receipt |-> rec.receipt, attempts |-> jobs[j].attempts + 1, status |-> rec.status]
      BY <3>3 DEF Job
    <3>5. QED
      BY <3>2, <3>3, <3>4
  <2>4. QED
    BY <2>1, <2>2, <2>3
<1>5. jobs \in Seq(Job) /\ j \in 1 .. Len(jobs)
  BY DEF ReceiptTypeOK, JobIds
<1> HIDE DEF job
<1>6. /\ jobs' \in Seq(Job) /\ Len(jobs') = Len(jobs)
      /\ \A i \in JobIds : jobs'[i] = IF i = j THEN job ELSE jobs[i]
  BY <1>2, <1>3, <1>5, ExceptSeq DEF JobIds
<1>7. QED
  BY <1>2, <1>5, <1>6

-----------------------------------------------------------------------------
(* What a step leaves true when it does not touch the jobs, or adds one *)

\* Jobs of another receipt do not care what becomes of this one.
LEMMA JobsKept ==
  ASSUME ReceiptTypeOK, JobsTrue, jobs' = jobs,
         \A r \in Receipts :
           /\ status[r] # "absent" => status'[r] # "absent"
           /\ upload'[r] \in {"put", "insert", "job"} => upload[r] \in {"put", "insert", "job"}
           /\ status'[r] = "failed" =>
                status[r] = "failed" \/ \A j \in JobIds : jobs[j].receipt = r => ~IsActive(j)
  PROVE  JobsTrue'
BY AnyJob DEF JobsTrue, JobIds, IsActive

LEMMA JobInserted ==
  ASSUME ReceiptTypeOK, JobsTrue, NEW r \in Receipts, InsertJob(r),
         \A j \in JobIds : jobs[j].receipt = r => ~IsActive(j),
         status'[r] \notin {"absent", "failed"}, upload'[r] \notin {"put", "insert", "job"},
         \A other \in Receipts \ {r} :
           status'[other] = status[other] /\ upload'[other] = upload[other]
  PROVE  JobsTrue'
<1>1. \A j \in JobIds' : j # Len(jobs) + 1 => j \in JobIds
  BY InsertJobShape DEF JobIds, ReceiptTypeOK
<1>2. /\ \A j \in JobIds : jobs'[j] = jobs[j] /\ jobs[j].receipt \in Receipts
      /\ jobs'[Len(jobs) + 1].receipt = r
  BY InsertJobShape, AnyJob
<1>3. ASSUME NEW j \in JobIds'
      PROVE  /\ status'[jobs'[j].receipt] # "absent"
             /\ upload'[jobs'[j].receipt] \notin {"put", "insert", "job"}
             /\ IsActive(j)' => status'[jobs'[j].receipt] # "failed"
  BY <1>1, <1>2, <1>3 DEF JobsTrue, IsActive
<1>4. ASSUME NEW i \in JobIds', NEW j \in JobIds', jobs'[i].receipt = jobs'[j].receipt,
             IsActive(i)', IsActive(j)'
      PROVE  i = j
  BY <1>1, <1>2, <1>4 DEF JobsTrue, IsActive
<1>5. QED
  BY <1>3, <1>4 DEF JobsTrue

LEMMA WorkerKept ==
  ASSUME ReceiptTypeOK, WorkerTrue, jobs' = jobs, worker' = worker,
         worker.job # NoJob => /\ status'[Mine] # "failed"
                               /\ Mine \in result => Mine \in result'
  PROVE  WorkerTrue'
BY DEF WorkerTrue, Mine, JobIds, IsActive, NoJob

-----------------------------------------------------------------------------
(* create_receipt *)

LEMMA UploadType ==
  ASSUME ReceiptTypeOK, NEW r \in Receipts, UploadStep(r) PROVE ReceiptTypeOK'
<1>1. CASE Put(r)
  BY <1>1, ReceiptAssumption DEF Put, ReceiptTypeOK, UploadGoes, AsPlanned, Fault, sweeper, JobIds
<1>2. CASE InsertReceipt(r)
  BY <1>2, ReceiptAssumption
     DEF InsertReceipt, ReceiptTypeOK, UploadGoes, AsPlanned, Fault, sweeper, JobIds
<1>3. CASE CreateJob(r)
  <2>1. ASSUME InsertJob(r)
        PROVE  jobs' \in Seq(Job) /\ Len(jobs') =< MaxJobs /\ due' \subseteq JobIds'
    BY <2>1, InsertJobShape DEF JobIds
  <2>2. /\ jobs' \in Seq(Job) /\ Len(jobs') =< MaxJobs /\ due' \subseteq JobIds'
        /\ JobIds \subseteq JobIds'
    <3>1. CASE InsertJob(r)
      <4>1. Len(jobs') = Len(jobs) + 1 /\ Len(jobs) \in Nat
        BY <3>1, InsertJobShape DEF ReceiptTypeOK
      <4>2. QED
        BY <2>1, <3>1, <4>1 DEF JobIds
    <3>2. CASE UNCHANGED <<jobs, due>>
      BY <3>2 DEF ReceiptTypeOK, JobIds
    <3>3. QED
      BY <1>3, <3>1, <3>2 DEF CreateJob
  <2>3. QED
    BY <1>3, <2>2, ReceiptAssumption
       DEF CreateJob, ReceiptTypeOK, UploadGoes, AsPlanned, Fault, sweeper
<1>4. CASE MarkQueued(r)
  BY <1>4, ReceiptAssumption
     DEF MarkQueued, MarkStatus, ReceiptTypeOK, UploadGoes, AsPlanned, Fault, sweeper, JobIds
<1>5. CASE UndoReceipt(r)
  BY <1>5, ReceiptAssumption
     DEF UndoReceipt, ReceiptTypeOK, UploadGoes, AsPlanned, Fault, sweeper, JobIds
<1>6. CASE DropObject(r)
  BY <1>6, ReceiptAssumption
     DEF DropObject, ReceiptTypeOK, UploadGoes, AsPlanned, Fault, sweeper, JobIds
<1>7. QED
  BY <1>1, <1>2, <1>3, <1>4, <1>5, <1>6 DEF UploadStep

\* The rows stay true of each other while a receipt only moves on.
LEMMA RowsKept ==
  ASSUME RowsTrue, UNCHANGED <<purged, originals, handling, sweep, swept>>, ReceiptTypeOK,
         \A r \in Receipts :
           /\ status[r] # "absent" => status'[r] # "absent"
           /\ upload'[r] \in {"put", "insert"} => status'[r] = "absent"
           /\ upload'[r] = "job" => status'[r] \in {"uploaded", "deleted"}
           /\ status'[r] = "ready" => r \in result'
  PROVE  RowsTrue'
<1>1. \A h \in Handlers : handling[h] # Quiet => handling[h].receipt \in Receipts
  BY DEF ReceiptTypeOK, Handling
<1>2. QED
  BY <1>1 DEF RowsTrue

LEMMA UploadRows ==
  ASSUME ReceiptInv, NEW r \in Receipts, UploadStep(r) PROVE RowsTrue'
<1> USE DEF ReceiptInv, UploadGoes, sweeper
<1>1. CASE Put(r)
  BY <1>1 DEF Put, ReceiptTypeOK, RowsTrue, Quiet
<1>2. CASE InsertReceipt(r)
  BY <1>2, RowsKept DEF InsertReceipt, ReceiptTypeOK, RowsTrue
<1>3. CASE CreateJob(r)
  BY <1>3 DEF CreateJob, ReceiptTypeOK, RowsTrue, Quiet
<1>4. CASE MarkQueued(r)
  BY <1>4, RowsKept DEF MarkQueued, MarkStatus, ReceiptTypeOK, RowsTrue
<1>5. CASE UndoReceipt(r)
  BY <1>5, RowsKept DEF UndoReceipt, ReceiptTypeOK, RowsTrue
<1>6. CASE DropObject(r)
  BY <1>6 DEF DropObject, ReceiptTypeOK, RowsTrue, Quiet
<1>7. QED
  BY <1>1, <1>2, <1>3, <1>4, <1>5, <1>6 DEF UploadStep

LEMMA UploadJobs ==
  ASSUME ReceiptInv, NEW r \in Receipts, UploadStep(r) PROVE JobsTrue'
<1> USE DEF ReceiptInv, UploadGoes
<1>1. CASE Put(r)
  BY <1>1, JobsKept DEF Put, ReceiptTypeOK
<1>2. CASE InsertReceipt(r)
  BY <1>2, JobsKept DEF InsertReceipt, ReceiptTypeOK
<1>3. CASE CreateJob(r)
  <2>1. CASE InsertJob(r)
    <3>1. status[r] \in {"uploaded", "deleted"} /\ status' = status /\ upload[r] = "job"
      BY <1>3 DEF CreateJob, RowsTrue
    <3>2. /\ upload'[r] \in {"mark", "undo"}
          /\ \A other \in Receipts \ {r} : upload'[other] = upload[other]
      BY <1>3 DEF CreateJob, ReceiptTypeOK
    <3>3. \A j \in JobIds : jobs[j].receipt = r => ~IsActive(j)
      BY <3>1 DEF JobsTrue
    <3>4. QED
      BY <2>1, <3>1, <3>2, <3>3, JobInserted
  <2>2. CASE UNCHANGED <<jobs, due>>
    BY <1>3, <2>2, JobsKept DEF CreateJob, ReceiptTypeOK
  <2>3. QED
    BY <1>3, <2>1, <2>2 DEF CreateJob
<1>4. CASE MarkQueued(r)
  BY <1>4, JobsKept DEF MarkQueued, MarkStatus, ReceiptTypeOK
<1>5. CASE UndoReceipt(r)
  BY <1>5, JobsKept DEF UndoReceipt, ReceiptTypeOK
<1>6. CASE DropObject(r)
  BY <1>6, JobsKept DEF DropObject, ReceiptTypeOK
<1>7. QED
  BY <1>1, <1>2, <1>3, <1>4, <1>5, <1>6 DEF UploadStep

LEMMA UploadWorker ==
  ASSUME ReceiptInv, NEW r \in Receipts, UploadStep(r) PROVE WorkerTrue'
<1> USE DEF ReceiptInv, UploadGoes
<1>0. worker.job # NoJob => worker.job \in JobIds /\ Mine \in Receipts
  BY AnyJob DEF ReceiptTypeOK, NoJob, Mine
<1>1. CASE Put(r)
  BY <1>1, WorkerKept DEF Put, ReceiptTypeOK, WorkerTrue
<1>2. CASE InsertReceipt(r)
  BY <1>0, <1>2, WorkerKept DEF InsertReceipt, ReceiptTypeOK, WorkerTrue
<1>3. CASE CreateJob(r)
  <2>1. CASE InsertJob(r)
    <3>1. worker.job # NoJob => Mine # r
      BY <1>0, <1>3 DEF CreateJob, JobsTrue, Mine
    <3>2. \A j \in JobIds' : j # Len(jobs) + 1 => j \in JobIds
      BY <2>1, InsertJobShape DEF JobIds, ReceiptTypeOK
    <3>3. /\ \A j \in JobIds : jobs'[j] = jobs[j]
          /\ jobs'[Len(jobs) + 1].receipt = r /\ worker' = worker
          /\ status' = status /\ result' = result
      BY <1>3, <2>1, InsertJobShape DEF CreateJob
    <3>4. QED
      BY <1>0, <3>1, <3>2, <3>3 DEF WorkerTrue, Mine, IsActive
  <2>2. CASE UNCHANGED <<jobs, due>>
    BY <1>3, <2>2, WorkerKept DEF CreateJob, WorkerTrue
  <2>3. QED
    BY <1>3, <2>1, <2>2 DEF CreateJob
<1>4. CASE MarkQueued(r)
  BY <1>0, <1>4, WorkerKept DEF MarkQueued, MarkStatus, ReceiptTypeOK, WorkerTrue
<1>5. CASE UndoReceipt(r)
  BY <1>0, <1>5, WorkerKept DEF UndoReceipt, ReceiptTypeOK, WorkerTrue
<1>6. CASE DropObject(r)
  BY <1>6, WorkerKept DEF DropObject, WorkerTrue
<1>7. QED
  BY <1>1, <1>2, <1>3, <1>4, <1>5, <1>6 DEF UploadStep

-----------------------------------------------------------------------------
(* delete_receipt, delete_receipt_original, retry_receipt_ocr *)

LEMMA HandlerType ==
  ASSUME ReceiptTypeOK, NEW h \in Handlers, NEW r \in Receipts, HandlerStep(h, r)
  PROVE  ReceiptTypeOK'
<1> USE DEF Serve, Answer
<1>0. \A at \in {"retry", "remove", "purge"} : [at |-> at, receipt |-> r] \in Handling
  BY DEF Handling
<1>1. handling' \in [Handlers -> Handling]
  <2>1. \/ \E at \in {"retry", "remove", "purge"} :
             handling' = [handling EXCEPT ![h] = [at |-> at, receipt |-> r]]
        \/ handling' = [handling EXCEPT ![h] = Quiet]
    BY DEF HandlerStep, DeleteReceipt, DeleteReceiptOriginal, RetryReceiptOCR, RemoveOriginal,
           MarkOriginalPurged, CreateRetry
  <2>2. Quiet \in Handling /\ handling \in [Handlers -> Handling]
    BY DEF Handling, ReceiptTypeOK
  <2>3. QED
    BY <1>0, <2>1, <2>2
<1>2. CASE DeleteReceipt(h, r)
  BY <1>1, <1>2 DEF DeleteReceipt, ReceiptTypeOK, sweeper, JobIds
<1>3. CASE DeleteReceiptOriginal(h, r) \/ RetryReceiptOCR(h, r)
  BY <1>1, <1>3
     DEF DeleteReceiptOriginal, RetryReceiptOCR, ReceiptTypeOK, sweeper, tables, JobIds
<1>4. CASE RemoveOriginal(h, r)
  BY <1>1, <1>4, ReceiptAssumption
     DEF RemoveOriginal, ReceiptTypeOK, AsPlanned, Fault, sweeper, JobIds
<1>5. CASE MarkOriginalPurged(h, r)
  BY <1>1, <1>5, ReceiptAssumption
     DEF MarkOriginalPurged, ReceiptTypeOK, AsPlanned, Fault, sweeper, JobIds
<1>6. CASE CreateRetry(h, r)
  <2>1. CASE Retryable(r)
    <3>1. InsertJob(r) /\ status' = [status EXCEPT ![r] = "queued"]
      BY <1>6, <2>1 DEF CreateRetry
    <3>2. /\ jobs' \in Seq(Job) /\ Len(jobs') = Len(jobs) + 1 /\ Len(jobs') =< MaxJobs
          /\ due' \subseteq 1 .. Len(jobs) + 1
      BY <3>1, InsertJobShape
    <3>3. JobIds \subseteq JobIds' /\ due' \subseteq JobIds'
      BY <3>2 DEF JobIds, ReceiptTypeOK
    <3>4. QED
      BY <1>1, <1>6, <3>1, <3>2, <3>3 DEF CreateRetry, ReceiptTypeOK, sweeper
  <2>2. CASE ~Retryable(r)
    BY <1>1, <1>6, <2>2 DEF CreateRetry, ReceiptTypeOK, sweeper, JobIds
  <2>3. QED
    BY <2>1, <2>2
<1>7. QED
  BY <1>2, <1>3, <1>4, <1>5, <1>6 DEF HandlerStep

LEMMA HandlerRows ==
  ASSUME ReceiptInv, NEW h \in Handlers, NEW r \in Receipts, HandlerStep(h, r)
  PROVE  RowsTrue'
<1> USE DEF ReceiptInv, Serve, Answer, sweeper
<1>0. handling \in [Handlers -> Handling]
  BY DEF ReceiptTypeOK
<1>1. \A other \in Handlers : handling[other] # Quiet => handling[other].receipt \in Receipts
  BY <1>0 DEF Handling
<1>2. CASE DeleteReceipt(h, r)
  <2>1. status[r] # "absent"
    BY <1>2 DEF DeleteReceipt
  <2>2. \A other \in Receipts : status'[other] = IF other = r THEN "deleted" ELSE status[other]
    BY <1>2 DEF DeleteReceipt, ReceiptTypeOK
  <2>3. handling' = [handling EXCEPT ![h] = [at |-> "remove", receipt |-> r]]
    BY <1>2 DEF DeleteReceipt
  <2>4. UNCHANGED <<upload, purged, originals, result, sweep, swept>>
    BY <1>2 DEF DeleteReceipt
  <2>5. QED
    BY <1>0, <1>1, <2>1, <2>2, <2>3, <2>4 DEF RowsTrue
<1>3. CASE DeleteReceiptOriginal(h, r) \/ RetryReceiptOCR(h, r)
  BY <1>0, <1>1, <1>3 DEF DeleteReceiptOriginal, RetryReceiptOCR, RowsTrue, tables
<1>4. CASE RemoveOriginal(h, r)
  BY <1>0, <1>1, <1>4 DEF RemoveOriginal, RowsTrue, Quiet
<1>5. CASE MarkOriginalPurged(h, r)
  BY <1>0, <1>1, <1>5 DEF MarkOriginalPurged, RowsTrue, Quiet
<1>6. CASE CreateRetry(h, r)
  <2>1. /\ handling' = [handling EXCEPT ![h] = Quiet]
        /\ UNCHANGED <<upload, purged, originals, result, sweep, swept>>
    BY <1>6 DEF CreateRetry
  <2>2. \A other \in Receipts :
          \/ status'[other] = status[other]
          \/ status[other] = "failed" /\ status'[other] = "queued"
    BY <1>6 DEF CreateRetry, Retryable, ReceiptTypeOK
  <2>3. QED
    BY <1>0, <1>1, <2>1, <2>2 DEF RowsTrue
<1>7. QED
  BY <1>2, <1>3, <1>4, <1>5, <1>6 DEF HandlerStep

LEMMA HandlerJobs ==
  ASSUME ReceiptInv, NEW h \in Handlers, NEW r \in Receipts, HandlerStep(h, r)
  PROVE  JobsTrue'
<1> USE DEF ReceiptInv
<1>1. CASE CreateRetry(h, r) /\ Retryable(r)
  <2>1. /\ InsertJob(r) /\ status[r] = "failed" /\ upload' = upload
        /\ status' = [status EXCEPT ![r] = "queued"]
    BY <1>1 DEF CreateRetry, Retryable
  <2>2. \A j \in JobIds : jobs[j].receipt = r => ~IsActive(j)
    BY <2>1 DEF JobsTrue
  <2>3. upload[r] \notin {"put", "insert", "job"}
    BY <2>1 DEF RowsTrue
  <2>4. QED
    BY <2>1, <2>2, <2>3, JobInserted DEF ReceiptTypeOK
<1>2. CASE HandlerStep(h, r) /\ ~(CreateRetry(h, r) /\ Retryable(r))
  BY <1>2, JobsKept
     DEF HandlerStep, DeleteReceipt, DeleteReceiptOriginal, RetryReceiptOCR, RemoveOriginal,
         MarkOriginalPurged, CreateRetry, tables, ReceiptTypeOK
<1>3. QED
  BY <1>1, <1>2

LEMMA HandlerWorker ==
  ASSUME ReceiptInv, NEW h \in Handlers, NEW r \in Receipts, HandlerStep(h, r)
  PROVE  WorkerTrue'
<1> USE DEF ReceiptInv
<1>0. worker.job # NoJob => worker.job \in JobIds /\ Mine \in Receipts
  BY AnyJob DEF ReceiptTypeOK, NoJob, Mine
<1>1. CASE CreateRetry(h, r) /\ Retryable(r)
  <2>1. InsertJob(r) /\ status' = [status EXCEPT ![r] = "queued"] /\ status[r] = "failed"
    BY <1>1 DEF CreateRetry, Retryable
  <2>2. worker.job # NoJob => Mine # r
    BY <2>1 DEF WorkerTrue
  <2>3. \A j \in JobIds' : j # Len(jobs) + 1 => j \in JobIds
    BY <2>1, InsertJobShape DEF JobIds, ReceiptTypeOK
  <2>4. /\ \A j \in JobIds : jobs'[j] = jobs[j]
        /\ jobs'[Len(jobs) + 1].receipt = r /\ worker' = worker /\ result' = result
        /\ \A other \in Receipts : other # r => status'[other] = status[other]
    BY <1>1, <2>1, InsertJobShape DEF CreateRetry, ReceiptTypeOK
  <2>5. QED
    BY <1>0, <2>2, <2>3, <2>4 DEF WorkerTrue, Mine, IsActive
<1>2. CASE HandlerStep(h, r) /\ ~(CreateRetry(h, r) /\ Retryable(r))
  BY <1>0, <1>2, WorkerKept
     DEF HandlerStep, DeleteReceipt, DeleteReceiptOriginal, RetryReceiptOCR, RemoveOriginal,
         MarkOriginalPurged, CreateRetry, tables, ReceiptTypeOK, WorkerTrue
<1>3. QED
  BY <1>1, <1>2

-----------------------------------------------------------------------------
(* The OCR worker *)

\* A worker that is at work has a job, and keeps it when it goes on.
LEMMA AtWork ==
  ASSUME ReceiptTypeOK, worker.at \in Working
  PROVE  /\ worker.job \in JobIds /\ Mine \in Receipts
         /\ \A next : Goes(next) => worker' = [at |-> next, job |-> worker.job]
<1>1. worker \in [at : Working, job : JobIds]
  BY DEF ReceiptTypeOK, Working
<1>2. worker.job \in JobIds /\ Mine \in Receipts
  BY <1>1, AnyJob DEF Mine
<1>3. QED
  BY <1>1, <1>2 DEF Goes

\* What a step of the worker leaves alone, and what it may write.
LEMMA WorkerWrites ==
  ASSUME ReceiptTypeOK, WorkerStep, ~\E j \in JobIds : ClaimPending(j)
  PROVE  /\ worker.at \in Working
         /\ UNCHANGED <<purged, originals, upload, handling, sweep, swept, expired>>
         /\ \/ result' = result
            \/ result' = result \cup {Mine} /\ status[Mine] # "deleted"
         /\ \/ status' = status
            \/ \E new \in {"processing", "ready", "queued", "failed"} :
                 /\ MarkStatus(Mine, new)
                 /\ new = "ready" => worker.at = "ready"
                 /\ new = "failed" => worker.at = "fail_receipt"
         /\ \/ jobs' = jobs /\ due' = due
            \/ \E new \in {"pending", "completed", "failed"} : SetJob(worker.job, new)
         /\ failures' \in 0 .. MaxFailures
<1> USE DEF callers, sweeper, tables
<1>1. worker.at \in Working
  BY DEF WorkerStep, At, Working, GetForProcessing, MarkReceiptProcessing, Recognize,
         ReplaceResult, MarkReceiptReady, MarkCompleted, RetryOrFail, RequeueReceipt, FailJob,
         FailReceipt
<1>2. UNCHANGED <<purged, originals, upload, handling, sweep, swept, expired>>
  BY DEF WorkerStep, GetForProcessing, MarkReceiptProcessing, Recognize, ReplaceResult,
         MarkReceiptReady, MarkCompleted, RetryOrFail, RequeueReceipt, FailJob, FailReceipt
<1>3. \/ result' = result
      \/ result' = result \cup {Mine} /\ status[Mine] # "deleted"
  BY DEF WorkerStep, GetForProcessing, MarkReceiptProcessing, Recognize, ReplaceResult,
         MarkReceiptReady, MarkCompleted, RetryOrFail, RequeueReceipt, FailJob, FailReceipt
<1>4. \/ status' = status
      \/ MarkStatus(Mine, "processing")
      \/ worker.at = "ready" /\ MarkStatus(Mine, "ready")
      \/ MarkStatus(Mine, "queued")
      \/ worker.at = "fail_receipt" /\ MarkStatus(Mine, "failed")
  BY DEF WorkerStep, At, GetForProcessing, MarkReceiptProcessing, Recognize, ReplaceResult,
         MarkReceiptReady, MarkCompleted, RetryOrFail, RequeueReceipt, FailJob, FailReceipt
<1>5. \/ jobs' = jobs /\ due' = due
      \/ SetJob(worker.job, "pending")
      \/ SetJob(worker.job, "completed")
      \/ SetJob(worker.job, "failed")
  BY DEF WorkerStep, GetForProcessing, MarkReceiptProcessing, Recognize, ReplaceResult,
         MarkReceiptReady, MarkCompleted, RetryOrFail, RequeueReceipt, FailJob, FailReceipt
<1>6. \/ failures' = failures
      \/ failures < MaxFailures /\ failures' = failures + 1
  BY DEF WorkerStep, GetForProcessing, MarkReceiptProcessing, Recognize, ReplaceResult,
         MarkReceiptReady, MarkCompleted, RetryOrFail, RequeueReceipt, FailJob, FailReceipt,
         Next, AsPlanned, Fault
<1>7. failures' \in 0 .. MaxFailures
  BY <1>6, ReceiptAssumption DEF ReceiptTypeOK
<1>8. QED
  BY <1>1, <1>2, <1>3, <1>4, <1>5, <1>7

LEMMA WorkerType ==
  ASSUME ReceiptTypeOK, WorkerStep PROVE ReceiptTypeOK'
<1>1. CASE \E j \in JobIds : ClaimPending(j)
  <2>1. PICK j \in JobIds : ClaimPending(j)
    BY <1>1
  <2>2. jobs' \in Seq(Job) /\ Len(jobs') = Len(jobs)
    BY <2>1, ClaimShape
  <2>3. worker' \in [at : Working, job : JobIds'] /\ JobIds' = JobIds
    BY <2>1, <2>2 DEF ClaimPending, Working, JobIds
  <2>4. QED
    BY <2>1, <2>2, <2>3 DEF ClaimPending, ReceiptTypeOK, callers, sweeper
<1>2. CASE ~\E j \in JobIds : ClaimPending(j)
  <2>1. worker.at \in Working /\ worker.job \in JobIds /\ Mine \in Receipts
    BY <1>2, WorkerWrites, AtWork
  <2>2. jobs' \in Seq(Job) /\ Len(jobs') = Len(jobs) /\ due' \subseteq JobIds
    BY <1>2, <2>1, WorkerWrites, SetJobShape DEF ReceiptTypeOK
  <2>3. JobIds' = JobIds
    BY <2>2 DEF JobIds
  <2>4. worker' = Idle \/ \E next \in Working : Goes(next)
    BY <1>2 DEF WorkerStep, GetForProcessing, MarkReceiptProcessing, Recognize, ReplaceResult,
            MarkReceiptReady, MarkCompleted, RetryOrFail, RequeueReceipt, FailJob, FailReceipt,
            Next, JobDone, Working
  <2>5. \/ worker' \in [at : {"down", "idle"}, job : {NoJob}]
        \/ worker' \in [at : Working, job : JobIds]
    BY <2>1, <2>4, AtWork DEF Idle
  <2>6. status' \in [Receipts -> {"absent", "uploaded", "queued", "processing",
                                  "ready", "failed", "deleted"}]
    BY <1>2, <2>1, WorkerWrites DEF MarkStatus, ReceiptTypeOK
  <2>7. result' \subseteq Receipts /\ failures' \in 0 .. MaxFailures
        /\ UNCHANGED <<purged, originals, upload, handling, sweep, swept, expired>>
    BY <1>2, <2>1, WorkerWrites DEF ReceiptTypeOK
  <2>8. QED
    BY <2>2, <2>3, <2>5, <2>6, <2>7 DEF ReceiptTypeOK
<1>3. QED
  BY <1>1, <1>2

LEMMA WorkerRows ==
  ASSUME ReceiptInv, WorkerStep PROVE RowsTrue'
<1> USE DEF ReceiptInv
<1>1. CASE \E j \in JobIds : ClaimPending(j)
  BY <1>1, RowsKept DEF ClaimPending, RowsTrue, callers, sweeper
<1>2. CASE ~\E j \in JobIds : ClaimPending(j)
  <2>1. worker.at \in Working /\ worker.job \in JobIds /\ Mine \in Receipts
    BY <1>2, WorkerWrites, AtWork
  <2>2. status[Mine] # "absent" /\ upload[Mine] \notin {"put", "insert", "job"}
    BY <2>1 DEF JobsTrue, Mine
  <2>3. worker.at = "ready" => Mine \in result
    BY <2>1 DEF WorkerTrue, JobIds, NoJob
  <2>4. \A r \in Receipts :
          /\ r # Mine => status'[r] = status[r]
          /\ \/ status'[Mine] = status[Mine]
             \/ status'[Mine] \in {"processing", "ready", "queued", "failed"}
          /\ status'[Mine] = "ready" => status[Mine] = "ready" \/ Mine \in result
          /\ r \in result => r \in result'
    BY <1>2, <2>1, <2>3, WorkerWrites DEF MarkStatus, ReceiptTypeOK
  <2>5. UNCHANGED <<purged, originals, upload, handling, sweep, swept>>
    BY <1>2, WorkerWrites
  <2>6. QED
    BY <2>2, <2>4, <2>5, RowsKept DEF RowsTrue
<1>3. QED
  BY <1>1, <1>2

\* Jobs that come to an end, or are claimed, disturb nobody.
LEMMA JobsMoved ==
  ASSUME ReceiptTypeOK, JobsTrue, status' = status, upload' = upload, Len(jobs') = Len(jobs),
         \A j \in JobIds : jobs'[j].receipt = jobs[j].receipt /\ (IsActive(j)' => IsActive(j))
  PROVE  JobsTrue'
BY AnyJob DEF JobsTrue, JobIds

LEMMA WorkerJobs ==
  ASSUME ReceiptInv, WorkerStep PROVE JobsTrue'
<1> USE DEF ReceiptInv
<1>1. CASE \E j \in JobIds : ClaimPending(j)
  <2>1. PICK j \in JobIds : ClaimPending(j)
    BY <1>1
  <2>2. Len(jobs') = Len(jobs) /\ status' = status /\ upload' = upload
    BY <2>1, ClaimShape DEF ClaimPending, callers
  <2>3. \A i \in JobIds : jobs'[i].receipt = jobs[i].receipt /\ (IsActive(i)' => IsActive(i))
    BY <2>1, ClaimShape DEF ClaimPending, Claimable, IsActive
  <2>4. QED
    BY <2>2, <2>3, JobsMoved
<1>2. CASE ~\E j \in JobIds : ClaimPending(j)
  <2>1. worker.at \in Working /\ worker.job \in JobIds /\ Mine \in Receipts
    BY <1>2, WorkerWrites, AtWork
  <2>2. /\ status[Mine] # "failed"
        /\ \A j \in JobIds : jobs[j].receipt = Mine /\ IsActive(j) => j = worker.job
        /\ worker.at = "fail_receipt" => jobs[worker.job].status = "failed"
    BY <2>1 DEF WorkerTrue, NoJob, JobIds
  <2>3. upload' = upload
    BY <1>2, WorkerWrites
  <2>4. CASE MarkCompleted \/ RetryOrFail \/ FailJob
    <3>1. status' = status
      BY <2>4 DEF MarkCompleted, RetryOrFail, FailJob
    <3>2. CASE jobs' = jobs
      BY <2>3, <3>1, <3>2, JobsKept
    <3>3. CASE \E new \in {"pending", "completed", "failed"} : SetJob(worker.job, new)
      <4>1. PICK new \in {"pending", "completed", "failed"} : SetJob(worker.job, new)
        BY <3>3
      <4>2. /\ JobIds' = JobIds
            /\ \A j \in JobIds : /\ jobs'[j].receipt = jobs[j].receipt
                                 /\ j # worker.job /\ IsActive(j)' => IsActive(j)
        BY <2>1, <4>1, SetJobShape DEF IsActive, JobIds
      <4>3. QED
        BY <2>1, <2>2, <2>3, <3>1, <4>2 DEF JobsTrue, Mine
    <3>4. QED
      BY <1>2, <3>2, <3>3, WorkerWrites
  <2>5. CASE ~(MarkCompleted \/ RetryOrFail \/ FailJob)
    <3>1. jobs' = jobs
      BY <1>2, <2>5 DEF WorkerStep, GetForProcessing, MarkReceiptProcessing, Recognize,
         ReplaceResult, MarkReceiptReady, RequeueReceipt, FailReceipt, tables
    <3>2. /\ \A r \in Receipts : r # Mine => status'[r] = status[r]
          /\ status[Mine] # "absent" => status'[Mine] # "absent"
          /\ status'[Mine] = "failed" => worker.at = "fail_receipt"
      BY <1>2, <2>1, <2>2, WorkerWrites DEF MarkStatus, ReceiptTypeOK
    <3>3. worker.at = "fail_receipt" =>
            \A j \in JobIds : jobs[j].receipt = Mine => ~IsActive(j)
      BY <2>2 DEF IsActive
    <3>4. QED
      BY <2>3, <3>1, <3>2, <3>3, JobsKept
  <2>6. QED
    BY <2>4, <2>5
<1>3. QED
  BY <1>1, <1>2

\* The worker goes on with its job, or puts it back or ends it.
LEMMA WorkerGoes ==
  ASSUME ReceiptTypeOK, WorkerTrue, worker.at \in Working, NEW next, Goes(next),
         \/ jobs' = jobs
         \/ \E new \in {"pending", "completed", "failed"} : SetJob(worker.job, new),
         status'[Mine] # "failed", next = "ready" => Mine \in result',
         next = "fail_receipt" => jobs'[worker.job].status = "failed"
  PROVE  WorkerTrue'
<1>1. /\ worker.job \in JobIds /\ Mine \in Receipts
      /\ worker' = [at |-> next, job |-> worker.job]
  BY AtWork
<1>2. JobIds' = JobIds
  BY <1>1, SetJobShape DEF JobIds
<1>3. \A j \in JobIds : /\ jobs'[j].receipt = jobs[j].receipt
                        /\ j # worker.job => jobs'[j].status = jobs[j].status
  BY <1>1, SetJobShape
<1>4. worker'.job = worker.job /\ worker'.at = next /\ Mine' = Mine
  BY <1>1, <1>3 DEF Mine
<1>5. \A j \in JobIds : jobs[j].receipt = Mine /\ IsActive(j) => j = worker.job
  BY <1>1 DEF WorkerTrue, NoJob, JobIds
<1>6. QED
  BY <1>1, <1>2, <1>3, <1>4, <1>5 DEF WorkerTrue, IsActive

LEMMA WorkerSelf ==
  ASSUME ReceiptInv, WorkerStep PROVE WorkerTrue'
<1> USE DEF ReceiptInv
<1>1. CASE \E j \in JobIds : ClaimPending(j)
  <2>1. PICK j \in JobIds : ClaimPending(j)
    BY <1>1
  <2>2. /\ JobIds' = JobIds /\ status' = status /\ worker' = [at |-> "get", job |-> j]
        /\ IsActive(j)
        /\ \A i \in JobIds : jobs'[i].receipt = jobs[i].receipt /\ (IsActive(i)' => IsActive(i))
    BY <2>1, ClaimShape DEF ClaimPending, Claimable, JobIds, IsActive
  <2>3. worker'.job = j /\ worker'.at = "get" /\ Mine' = jobs[j].receipt
    BY <2>2 DEF Mine
  <2>4. QED
    BY <2>2, <2>3 DEF WorkerTrue, JobsTrue
<1>2. CASE ~\E j \in JobIds : ClaimPending(j)
  <2>1. worker.at \in Working /\ worker.job \in JobIds /\ Mine \in Receipts
    BY <1>2, WorkerWrites, AtWork
  <2>2. status[Mine] # "failed"
    BY <2>1 DEF WorkerTrue, NoJob, JobIds
  <2>3. CASE JobDone
    BY <2>3 DEF JobDone, Idle, WorkerTrue
  <2>4. CASE ~JobDone
    <3>1. status'[Mine] # "failed"
      BY <1>2, <2>1, <2>2, <2>4
         DEF WorkerStep, GetForProcessing, MarkReceiptProcessing, Recognize, ReplaceResult,
             MarkReceiptReady, MarkCompleted, RetryOrFail, RequeueReceipt, FailJob, FailReceipt,
             tables, MarkStatus, ReceiptTypeOK
    <3>2. \/ Goes("ready") /\ result' = result \cup {Mine}
          \/ Goes("fail_receipt") /\ SetJob(worker.job, "failed")
          \/ \E next \in Working \ {"ready", "fail_receipt"} : Goes(next)
      BY <1>2, <2>4
         DEF WorkerStep, GetForProcessing, MarkReceiptProcessing, Recognize, ReplaceResult,
             MarkReceiptReady, MarkCompleted, RetryOrFail, RequeueReceipt, FailJob, FailReceipt,
             Next, Working
    <3>3. \/ jobs' = jobs
          \/ \E new \in {"pending", "completed", "failed"} : SetJob(worker.job, new)
      BY <1>2, WorkerWrites
    <3>4. SetJob(worker.job, "failed") => jobs'[worker.job].status = "failed"
      BY <2>1, SetJobShape
    <3>5. QED
      BY <2>1, <3>1, <3>2, <3>3, <3>4, WorkerGoes
  <2>5. QED
    BY <2>3, <2>4
<1>3. QED
  BY <1>1, <1>2

-----------------------------------------------------------------------------
(* Retention, abandoned requests, crashes and restarts *)

LEMMA SweepKeeps ==
  ASSUME ReceiptInv, SweepStep \/ SweepFails PROVE ReceiptInv'
<1> USE DEF ReceiptInv
<1>1. UNCHANGED <<status, result, jobs, due, upload, handling, worker, expired>>
  BY DEF SweepStep, SweepBegin, SweepRemove, SweepMark, SweepFails, tables, callers
<1>2. JobsTrue' /\ WorkerTrue'
  BY <1>1, JobsKept, WorkerKept DEF WorkerTrue
<1>3. \A h \in Handlers : handling[h] # Quiet => handling[h].receipt \in Receipts
  BY DEF ReceiptTypeOK, Handling
<1>4. CASE SweepBegin
  <2>1. ReceiptTypeOK'
    BY <1>1, <1>4 DEF SweepBegin, DueReceipts, ReceiptTypeOK, tables, JobIds
  <2>2. RowsTrue'
    BY <1>1, <1>3, <1>4 DEF SweepBegin, DueReceipts, RowsTrue, tables, ReceiptTypeOK
  <2>3. QED
    BY <1>2, <2>1, <2>2
<1>5. ASSUME NEW r \in Receipts, SweepRemove(r) PROVE ReceiptInv'
  <2>1. ReceiptTypeOK'
    BY <1>1, <1>5 DEF SweepRemove, ReceiptTypeOK, JobIds
  <2>2. RowsTrue'
    BY <1>1, <1>3, <1>5 DEF SweepRemove, RowsTrue
  <2>3. QED
    BY <1>2, <2>1, <2>2
<1>6. ASSUME NEW r \in Receipts, SweepMark(r) PROVE ReceiptInv'
  <2>1. ReceiptTypeOK'
    BY <1>1, <1>6 DEF SweepMark, ReceiptTypeOK, JobIds
  <2>2. RowsTrue'
    BY <1>1, <1>3, <1>6 DEF SweepMark, RowsTrue, ReceiptTypeOK
  <2>3. QED
    BY <1>2, <2>1, <2>2
<1>7. CASE SweepFails
  <2>1. ReceiptTypeOK'
    BY <1>1, <1>7, ReceiptAssumption DEF SweepFails, ReceiptTypeOK, tables, Fault, JobIds
  <2>2. RowsTrue'
    BY <1>1, <1>3, <1>7 DEF SweepFails, RowsTrue, tables
  <2>3. QED
    BY <1>2, <2>1, <2>2
<1>8. QED
  BY <1>4, <1>5, <1>6, <1>7 DEF SweepStep

LEMMA AbandonKeeps ==
  ASSUME ReceiptInv,
         \/ \E r \in Receipts : AbandonUpload(r) \/ ExpireOriginal(r)
         \/ \E h \in Handlers : AbandonRequest(h)
         \/ \E j \in JobIds : Tick(j)
  PROVE  ReceiptInv'
<1> USE DEF ReceiptInv
<1>1. /\ UNCHANGED <<status, purged, originals, result, jobs, worker, sweep, swept>>
      /\ \A r \in Receipts : upload'[r] = upload[r] \/ upload'[r] = "done"
      /\ \A h \in Handlers : handling'[h] = handling[h] \/ handling'[h] = Quiet
  BY DEF AbandonUpload, UploadGoes, ExpireOriginal, AbandonRequest, Answer, Tick, tables,
         callers, sweeper, ReceiptTypeOK
<1>2. JobsTrue' /\ WorkerTrue'
  BY <1>1, JobsKept, WorkerKept DEF WorkerTrue
<1>3. RowsTrue'
  BY <1>1 DEF RowsTrue
<1>4. ReceiptTypeOK'
  <2>1. ASSUME NEW r \in Receipts, AbandonUpload(r) PROVE ReceiptTypeOK'
    BY <2>1, ReceiptAssumption
       DEF AbandonUpload, UploadGoes, ReceiptTypeOK, tables, sweeper, Fault, JobIds
  <2>2. ASSUME NEW r \in Receipts, ExpireOriginal(r) PROVE ReceiptTypeOK'
    BY <2>2 DEF ExpireOriginal, ReceiptTypeOK, tables, callers, sweeper, JobIds
  <2>3. ASSUME NEW h \in Handlers, AbandonRequest(h) PROVE ReceiptTypeOK'
    BY <2>3, ReceiptAssumption
       DEF AbandonRequest, Answer, ReceiptTypeOK, tables, sweeper, Fault, JobIds, Handling
  <2>4. ASSUME NEW j \in JobIds, Tick(j) PROVE ReceiptTypeOK'
    BY <2>4 DEF Tick, ReceiptTypeOK, callers, sweeper, JobIds
  <2>5. QED
    BY <2>1, <2>2, <2>3, <2>4
<1>5. QED
  BY <1>2, <1>3, <1>4

LEMMA CrashKeeps ==
  ASSUME ReceiptInv, Crash PROVE ReceiptInv'
<1> USE DEF ReceiptInv
<1>1. UNCHANGED <<status, purged, originals, result, jobs, due, expired>>
      /\ sweep' = {} /\ swept' = {} /\ worker' = [at |-> "down", job |-> NoJob]
      /\ handling' = [h \in Handlers |-> Quiet]
  BY DEF Crash, tables
<1>2. \A r \in Receipts : upload'[r] = IF upload[r] = "put" THEN "put" ELSE "done"
  BY DEF Crash
<1>3. JobsTrue'
  BY <1>1, <1>2, JobsKept
<1>4. WorkerTrue'
  BY <1>1 DEF WorkerTrue
<1>5. RowsTrue'
  BY <1>1, <1>2 DEF RowsTrue
<1>6. ReceiptTypeOK'
  BY <1>1, ReceiptAssumption DEF Crash, ReceiptTypeOK, Fault, Handling, JobIds
<1>7. QED
  BY <1>3, <1>4, <1>5, <1>6

LEMMA StartKeeps ==
  ASSUME ReceiptInv, NEW old \in SUBSET JobIds, Start(old) PROVE ReceiptInv'
<1> USE DEF ReceiptInv
<1>1. /\ UNCHANGED <<status, purged, originals, result, upload, handling, sweep, swept,
                     expired, failures>>
      /\ worker' = Idle /\ due' = due \cup old
  BY DEF Start, callers, sweeper
<1>2. /\ jobs' \in Seq(Job) /\ Len(jobs') = Len(jobs)
      /\ \A j \in JobIds : jobs'[j].receipt = jobs[j].receipt /\ (IsActive(j)' => IsActive(j))
  BY StartShape DEF Start, IsActive
<1>3. JobsTrue'
  BY <1>1, <1>2, JobsMoved
<1>4. WorkerTrue'
  BY <1>1 DEF WorkerTrue, Idle
<1>5. RowsTrue'
  BY <1>1 DEF RowsTrue
<1>6. ReceiptTypeOK'
  BY <1>1, <1>2 DEF ReceiptTypeOK, Idle, JobIds
<1>7. QED
  BY <1>3, <1>4, <1>5, <1>6

-----------------------------------------------------------------------------
(* The invariant and what follows from it *)

LEMMA ReceiptStep ==
  ReceiptInv /\ [ReceiptNext]_receiptVars => ReceiptInv'
<1> SUFFICES ASSUME ReceiptInv, [ReceiptNext]_receiptVars PROVE ReceiptInv'
  OBVIOUS
<1>1. ASSUME NEW r \in Receipts, UploadStep(r) PROVE ReceiptInv'
  BY <1>1, UploadType, UploadRows, UploadJobs, UploadWorker DEF ReceiptInv
<1>2. ASSUME NEW h \in Handlers, NEW r \in Receipts, HandlerStep(h, r) PROVE ReceiptInv'
  BY <1>2, HandlerType, HandlerRows, HandlerJobs, HandlerWorker DEF ReceiptInv
<1>3. ASSUME WorkerStep PROVE ReceiptInv'
  BY <1>3, WorkerType, WorkerRows, WorkerJobs, WorkerSelf DEF ReceiptInv
<1>4. ASSUME SweepStep \/ SweepFails PROVE ReceiptInv'
  BY <1>4, SweepKeeps
<1>5. ASSUME UNCHANGED receiptVars PROVE ReceiptInv'
  <2>1. UNCHANGED <<status, purged, originals, result, jobs, due, upload, handling, worker,
                    sweep, swept, expired, failures>>
    BY <1>5 DEF receiptVars, tables, callers, sweeper
  <2>2. ReceiptTypeOK'
    BY <2>1 DEF ReceiptInv, ReceiptTypeOK, JobIds
  <2>3. RowsTrue'
    BY <2>1 DEF ReceiptInv, RowsTrue
  <2>4. JobsTrue' /\ WorkerTrue'
    BY <2>1, JobsKept, WorkerKept DEF ReceiptInv, WorkerTrue
  <2>5. QED
    BY <2>2, <2>3, <2>4 DEF ReceiptInv
<1>6. QED
  BY <1>1, <1>2, <1>3, <1>4, <1>5, AbandonKeeps, CrashKeeps, StartKeeps DEF ReceiptNext

LEMMA ReceiptInvariant == ReceiptSpec => []ReceiptInv
BY ReceiptsBegin, ReceiptStep, PTL DEF ReceiptSpec

\* Receipts and jobs stay in the states of their enums, no job is tried more than
\* max_attempts times, and the worker has a job exactly while it works (worker/ocr.py,
\* repository/job.py).
THEOREM ReceiptTypeCorrect == ReceiptSpec => []ReceiptTypeOK
BY ReceiptInvariant, PTL DEF ReceiptInv

\* JobsTrue in numbers.
LEMMA OneAtMost ==
  ASSUME ReceiptInv, NEW r \in Receipts PROVE Cardinality(Active(r)) =< 1
<1>1. CASE Active(r) = {}
  BY <1>1, FS_EmptySet
<1>2. CASE Active(r) # {}
  <2>1. PICK j \in JobIds : j \in Active(r)
    BY <1>2 DEF Active
  <2>2. Active(r) = {j}
    BY <2>1 DEF ReceiptInv, JobsTrue, Active, IsActive
  <2>3. Cardinality({j}) = 1
    BY FS_Singleton
  <2>4. QED
    BY <2>2, <2>3
<1>3. QED
  BY <1>1, <1>2

\* Whatever retries, deletions, crashes and the worker do, a receipt has one job to
\* do at most, what is shown as ready has a result, what is shown as failed can be
\* retried and what is recorded as purged is gone (service/document.py 122-204 and
\* 273-297, worker/ocr.py 81-253, repository/job.py).
THEOREM RecordsAlwaysTellTruth == ReceiptSpec => []RecordsTellTruth
<1>1. ReceiptInv => RecordsTellTruth
  <2> SUFFICES ASSUME ReceiptInv PROVE RecordsTellTruth
    OBVIOUS
  <2>1. OneActiveJob
    BY OneAtMost DEF OneActiveJob, ReceiptInv, JobsTrue, Active, IsActive
  <2>2. QED
    BY <2>1 DEF RecordsTellTruth, ReceiptInv, RowsTrue
<1>2. QED
  BY <1>1, ReceiptInvariant, PTL

\* Nobody but the worker that has its job writes a finished receipt, except to delete it.
LEMMA FinishedStep ==
  ASSUME ReceiptInv, ReceiptNext, NEW r \in Receipts
  PROVE  /\ /\ status[r] = "ready" /\ upload[r] = "done" /\ Active(r) = {}
            /\ worker.job # NoJob => Mine # r
            => status'[r] \in {"ready", "deleted"}
         /\ status[r] = "deleted" => status'[r] = "deleted" /\ (r \in result' => r \in result)
<1> USE DEF ReceiptInv
<1>1. ASSUME NEW other \in Receipts, UploadStep(other)
      PROVE  /\ result' = result
             /\ status'[r] # status[r] => r = other /\ upload[r] # "done"
             /\ status[r] = "deleted" => status'[r] = "deleted"
  <2>1. upload[other] = "insert" => status[other] = "absent"
    BY DEF RowsTrue
  <2>2. result' = result /\ upload[other] # "done"
    BY <1>1 DEF UploadStep, Put, InsertReceipt, CreateJob, MarkQueued, UndoReceipt, DropObject
  <2>3. status'[r] # status[r] => r = other
    BY <1>1 DEF UploadStep, Put, InsertReceipt, CreateJob, MarkQueued, UndoReceipt, DropObject,
                MarkStatus, ReceiptTypeOK
  <2>4. status[r] = "deleted" => status'[r] = "deleted"
    BY <1>1, <2>1
       DEF UploadStep, Put, InsertReceipt, CreateJob, MarkQueued, UndoReceipt, DropObject,
           MarkStatus, ReceiptTypeOK
  <2>5. QED
    BY <2>2, <2>3, <2>4
<1>2. ASSUME NEW h \in Handlers, NEW other \in Receipts, HandlerStep(h, other)
      PROVE  /\ result' = result
             /\ status'[r] # status[r] => status'[r] = "deleted" \/ status[r] = "failed"
  BY <1>2 DEF HandlerStep, DeleteReceipt, DeleteReceiptOriginal, RetryReceiptOCR,
              RemoveOriginal, MarkOriginalPurged, CreateRetry, Retryable, tables, ReceiptTypeOK
<1>3. ASSUME WorkerStep
      PROVE  /\ status[r] = "deleted" => status'[r] = "deleted" /\ (r \in result' => r \in result)
             /\ status'[r] # status[r] => worker.job # NoJob /\ r = Mine
  <2>1. CASE \E j \in JobIds : ClaimPending(j)
    BY <2>1 DEF ClaimPending
  <2>2. CASE ~\E j \in JobIds : ClaimPending(j)
    <3>1. worker.job # NoJob /\ Mine \in Receipts
      BY <1>3, <2>2, WorkerWrites, AtWork DEF JobIds, NoJob
    <3>2. \/ result' = result
          \/ result' = result \cup {Mine} /\ status[Mine] # "deleted"
      BY <1>3, <2>2, WorkerWrites
    <3>3. \/ status' = status
          \/ \E new \in {"processing", "ready", "queued", "failed"} : MarkStatus(Mine, new)
      BY <1>3, <2>2, WorkerWrites
    <3>4. QED
      BY <3>1, <3>2, <3>3 DEF MarkStatus, ReceiptTypeOK
  <2>3. QED
    BY <2>1, <2>2
<1>4. ASSUME \/ SweepStep \/ SweepFails \/ Crash
             \/ \E other \in Receipts : AbandonUpload(other) \/ ExpireOriginal(other)
             \/ \E h \in Handlers : AbandonRequest(h)
             \/ \E j \in JobIds : Tick(j)
             \/ \E old \in SUBSET JobIds : Start(old)
      PROVE  status' = status /\ result' = result
  BY <1>4 DEF SweepStep, SweepBegin, SweepRemove, SweepMark, SweepFails, Crash, AbandonUpload,
              ExpireOriginal, AbandonRequest, Tick, Start, tables
<1>5. QED
  BY <1>1, <1>2, <1>3, <1>4 DEF ReceiptNext

\* A receipt that is ready, with no job and no worker on it, only ever becomes
\* deleted, and a deleted one stays deleted and gets no result, although the worker
\* reads the receipt long before it writes it (worker/ocr.py 149-253).
THEOREM FinishedStaysFinished == ReceiptSpec => FinishedForGood
<1>1. ReceiptInv /\ [ReceiptNext]_receiptVars =>
        [\A r \in Receipts :
           /\ /\ status[r] = "ready" /\ upload[r] = "done" /\ Active(r) = {}
              /\ worker.job # NoJob => Mine # r
              => status'[r] \in {"ready", "deleted"}
           /\ status[r] = "deleted" => status'[r] = "deleted" /\ (r \in result' => r \in result)
        ]_receiptVars
  BY FinishedStep
<1>2. QED
  BY <1>1, ReceiptInvariant, PTL DEF ReceiptSpec, FinishedForGood
===============================================================================
