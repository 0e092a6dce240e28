----------------------------- MODULE ReportExport -----------------------------
(***************************************************************************)
(* A report of a group, from the request to the message that carries it.   *)
(* The Gateway assembles the rows with one call of Core after the other    *)
(* (src/internal/gateway/delivery/http/exports.go), Document renders and   *)
(* stores the file (src/document/src/delim_document/service/document.py    *)
(* 206-270) and its retention pass removes it when it has expired.  The    *)
(* file is read back as a stream, to be downloaded or to be sent through   *)
(* MAX.  Meanwhile the group goes on living.                               *)
(*                                                                         *)
(* An export has one row, one object and one request, which name it.       *)
(***************************************************************************)
EXTENDS Naturals, Sequences, FiniteSets

CONSTANTS
  Users,      \* members of the group, now or later
  Operations, \* what the members may record: [type, id, expense, author]
  Exports,    \* ids of document_exports
  Readers,    \* requests for a file
  PageLimit,  \* maxPageLimit
  BatchSize,  \* exports of one retention pass
  Chunks,     \* chunks of a file
  MaxFaults   \* bound: statements and calls that fail, are cut off or lose their answer

ASSUME ExportAssumption ==
  /\ Operations \subseteq
       [type : {"expense", "adjustment", "settlement"}, id : Nat \ {0}, expense : Nat, author : Users]
  /\ Exports \subseteq Nat \ {0}
  /\ PageLimit \in Nat \ {0} /\ BatchSize \in Nat \ {0} /\ Chunks \in Nat \ {0}
  /\ MaxFaults \in Nat

VARIABLES
  members,    \* Core: group_members
  committed,  \* Core: the operations whose transactions have committed
  request,    \* createExport: its step, what it has read and since when
  row,        \* document_exports
  stored,     \* the objects in the storage, each under the key of its export
  pass,       \* the retention pass: the exports it has left, and whether it has
              \* deleted the object of the first
  reader,     \* downloadExport and sendExport: step, export, chunks read, tries
  delivered,  \* history: the files MAX has delivered for a reader, in chunks
  faults      \* faults so far

coreVars   == <<members, committed>>
fileVars   == <<row, stored>>
readVars   == <<reader, delivered>>
exportVars == <<members, committed, request, row, stored, pass, reader, delivered, faults>>

Assembling == {"members", "expenses", "adjustments", "settlements"}
Storing    == {"insert", "process", "put", "ready", "drop", "fail"}
Over       == {"created", "refused", "cut"}

\* A request without answers yet.  "began" is history: what had been committed.
NewRequest ==
  [step |-> "idle", began |-> {}, names |-> {}, cursor |-> 0,
   pages |-> [type \in {"expense", "settlement"} |-> <<>>], adjustments |-> {}]
NoRow    == [status |-> "absent", keyed |-> FALSE, purged |-> FALSE, old |-> FALSE]
NoPass   == [left |-> {}, deleted |-> FALSE]
NoReader == [step |-> "idle", kind |-> "none", export |-> 0, got |-> 0, tries |-> 0]

ExportInit ==
  /\ members \in SUBSET Users
  /\ committed = {}
  /\ request = [x \in Exports |-> NewRequest]
  /\ row = [x \in Exports |-> NoRow]
  /\ stored = {}
  /\ pass = NoPass
  /\ reader = [s \in Readers |-> NoReader]
  /\ delivered = [s \in Readers |-> <<>>]
  /\ faults = 0

-----------------------------------------------------------------------------
(* Core: the group goes on living *)

Join(u) ==
  /\ u \notin members
  /\ members' = members \cup {u}
  /\ UNCHANGED <<committed, request, fileVars, pass, readVars, faults>>

\* An id is drawn when a row is inserted, and rows become visible when their
\* transactions commit: in any order.
Commit(op) ==
  /\ op \notin committed /\ op.author \in members
  /\ op.type = "adjustment" =>
       \E e \in committed : e.type = "expense" /\ e.id = op.expense
  /\ committed' = committed \cup {op}
  /\ UNCHANGED <<members, request, fileVars, pass, readVars, faults>>

\* WHERE ($3 = 0 OR id < $3) ORDER BY id DESC LIMIT $4: a page is the set of its
\* rows, which are the highest ones below the cursor.
Listed(type, cursor) ==
  {op \in committed : op.type = type /\ (cursor = 0 \/ op.id < cursor)}
\* Variant: the oldest ones first.
PageAscending(type, cursor) ==
  {op \in Listed(type, cursor) :
     Cardinality({o \in Listed(type, cursor) : o.id < op.id}) < PageLimit}
Page(type, cursor) ==
  {op \in Listed(type, cursor) :
     Cardinality({o \in Listed(type, cursor) : o.id > op.id}) < PageLimit}

\* The id of the last row, or 0.
IsNextCursor(page, cursor) ==
  IF page = {} THEN cursor = 0
  ELSE \E last \in page : cursor = last.id /\ \A op \in page : last.id =< op.id

-----------------------------------------------------------------------------
(* createExport: the rows *)

Stays(x) == UNCHANGED <<coreVars, fileVars, pass, readVars, faults>> /\ x \in Exports

\* GetGroup before it tells the caller's membership only, and is left out.  A listed
\* operation does not change while the other pages are read.
BeginExport(x) ==
  /\ request[x].step = "idle"
  /\ request' = [request EXCEPT ![x].step = "members", ![x].began = committed]
  /\ Stays(x)

ListGroupMembers(x) ==
  /\ request[x].step = "members"
  /\ request' = [request EXCEPT ![x].names = members, ![x].step = "expenses"]
  /\ Stays(x)

\* One turn of listAllExpenses or of listAllSettlements: until a page is empty.
Turn(x, type, next) ==
  LET page == Page(type, request[x].cursor) IN
  \E cursor \in {0} \cup {op.id : op \in page} :
    /\ IsNextCursor(page, cursor)
    /\ request' = [request EXCEPT
                     ![x].pages[type] = Append(@, page),
                     ![x].cursor = cursor,
                     ![x].step = IF cursor = 0 THEN next
                                 ELSE IF cursor = request[x].cursor THEN "refused" ELSE @]

ListExpenses(x) ==
  /\ request[x].step = "expenses"
  /\ Turn(x, "expense", "adjustments")
  /\ Stays(x)

\* All adjustments of the group in one call.
ListGroupAdjustments(x) ==
  /\ request[x].step = "adjustments"
  /\ request' = [request EXCEPT
                   ![x].adjustments = {op \in committed : op.type = "adjustment"},
                   ![x].step = "settlements"]
  /\ Stays(x)

ListSettlements(x) ==
  /\ request[x].step = "settlements"
  /\ Turn(x, "settlement", "insert")
  /\ Stays(x)

\* Any of the calls fails.
RefuseExport(x) ==
  /\ request[x].step \in Assembling
  /\ request' = [request EXCEPT ![x].step = "refused"]
  /\ Stays(x)

\* Everything listed, and the adjustments of the listed expenses.
Of(x, type) == UNION {request[x].pages[type][i] : i \in DOMAIN request[x].pages[type]}
Rows(x) ==
  Of(x, "expense") \cup Of(x, "settlement")
  \cup {a \in request[x].adjustments : \E e \in Of(x, "expense") : e.id = a.expense}

\* The map "names" misses who joined after it was read: the cell stays empty.  Of a
\* settlement's two people the sender stands for both.
Named(x, op) == op.author \in request[x].names

-----------------------------------------------------------------------------
(* create_export: every statement and every call of the storage may fail    *)
(* before or after its effect, and the request may be cut off at any await: *)
(* the Gateway's deadline passes, its client leaves, or the process dies.   *)

Fates ==
  [done : BOOLEAN, heard : {"answer", "error", "nothing"}]
    \ {[done |-> FALSE, heard |-> "answer"]}

Fate(fate) ==
  IF fate.heard = "answer" THEN UNCHANGED faults
  ELSE faults < MaxFaults /\ faults' = faults + 1

\* Where the request goes on.  Nothing catches CancelledError.
GoOn(x, fate, answered, failed) ==
  request' = [request EXCEPT ![x].step =
                CASE fate.heard = "answer" -> answered
                  [] fate.heard = "error"  -> failed
                  [] OTHER                 -> "cut"]

Insert(x, fate) ==
  /\ request[x].step = "insert"
  /\ row' = IF fate.done THEN [row EXCEPT ![x].status = "pending"] ELSE row
  /\ GoOn(x, fate, "process", "refused")
  /\ Fate(fate) /\ UNCHANGED <<coreVars, stored, pass, readVars>>

MarkProcessing(x, fate) ==
  /\ request[x].step = "process"
  /\ row' = IF fate.done /\ row[x].status = "pending"
            THEN [row EXCEPT ![x].status = "processing"] ELSE row
  /\ GoOn(x, fate, IF row[x].status = "pending" THEN "put" ELSE "refused", "refused")
  /\ Fate(fate) /\ UNCHANGED <<coreVars, stored, pass, readVars>>

\* Rendering and put_export.
PutExport(x, fate) ==
  /\ request[x].step = "put"
  /\ stored' = IF fate.done THEN stored \cup {x} ELSE stored
  /\ GoOn(x, fate, "ready", "drop")
  /\ Fate(fate) /\ UNCHANGED <<coreVars, row, pass, readVars>>

\* Variant: the compensation only marks the row.
MarkReadyKeepsFile(x, fate) ==
  /\ request[x].step = "ready"
  /\ row' = IF fate.done /\ row[x].status = "processing"
            THEN [row EXCEPT ![x].status = "ready", ![x].keyed = TRUE] ELSE row
  /\ GoOn(x, fate, IF row[x].status = "processing" THEN "created" ELSE "fail", "fail")
  /\ Fate(fate) /\ UNCHANGED <<coreVars, stored, pass, readVars>>
MarkReady(x, fate) ==
  /\ request[x].step = "ready"
  /\ row' = IF fate.done /\ row[x].status = "processing"
            THEN [row EXCEPT ![x].status = "ready", ![x].keyed = TRUE] ELSE row
  /\ GoOn(x, fate, IF row[x].status = "processing" THEN "created" ELSE "drop", "drop")
  /\ Fate(fate) /\ UNCHANGED <<coreVars, stored, pass, readVars>>

\* with suppress(Exception): the compensation goes on after its own failures.
DropExport(x, fate) ==
  /\ request[x].step = "drop"
  /\ stored' = IF fate.done THEN stored \ {x} ELSE stored
  /\ GoOn(x, fate, "fail", "fail")
  /\ Fate(fate) /\ UNCHANGED <<coreVars, row, pass, readVars>>

MarkFailed(x, fate) ==
  /\ request[x].step = "fail"
  /\ row' = IF fate.done THEN [row EXCEPT ![x].status = "failed"] ELSE row
  /\ GoOn(x, fate, "refused", "refused")
  /\ Fate(fate) /\ UNCHANGED <<coreVars, stored, pass, readVars>>

-----------------------------------------------------------------------------
(* Retention *)

\* created_at < NOW() - retention_days: days, while a request takes seconds.
Expire(x) ==
  /\ request[x].step \in Over /\ row[x].status # "absent" /\ ~row[x].old
  /\ row' = [row EXCEPT ![x].old = TRUE]
  /\ UNCHANGED <<coreVars, request, stored, pass, readVars, faults>>

DueExports == {x \in Exports : ~row[x].purged /\ row[x].keyed /\ row[x].old}

\* ORDER BY id LIMIT $2
StartPass ==
  /\ pass.left = {} /\ DueExports # {}
  /\ pass' = [NoPass EXCEPT !.left =
                {x \in DueExports : Cardinality({y \in DueExports : y < x}) < BatchSize}]
  /\ UNCHANGED <<coreVars, request, fileVars, readVars, faults>>

First(x) == x \in pass.left /\ \A y \in pass.left : x =< y

\* An exception ends the pass; so does the end of the process.
PassGoesOn(fate, then) ==
  /\ pass' = IF fate.heard = "answer" THEN then ELSE NoPass
  /\ Fate(fate) /\ UNCHANGED <<coreVars, request, readVars>>

DeleteExport(x, fate) ==
  /\ First(x) /\ ~pass.deleted
  /\ stored' = IF fate.done THEN stored \ {x} ELSE stored
  /\ PassGoesOn(fate, [pass EXCEPT !.deleted = TRUE]) /\ UNCHANGED row

MarkExportPurged(x, fate) ==
  /\ First(x) /\ pass.deleted
  /\ row' = IF fate.done THEN [row EXCEPT ![x].purged = TRUE] ELSE row
  /\ PassGoesOn(fate, [NoPass EXCEPT !.left = pass.left \ {x}]) /\ UNCHANGED stored

-----------------------------------------------------------------------------
(* downloadExport and sendExport *)

ReaderStays == UNCHANGED <<coreVars, request, fileVars, pass>>

\* authorizedExport, the status, and for sendExport the subscription.
BeginRead(s, x, kind) ==
  /\ reader[s].step = "idle" /\ row[x].status = "ready"
  /\ reader' = [reader EXCEPT ![s] = [NoReader EXCEPT !.step = "open", !.kind = kind, !.export = x]]
  /\ ReaderStays /\ UNCHANGED <<delivered, faults>>

\* download_export reads the row again before it asks the storage.
Available(x) == ~row[x].purged /\ row[x].status = "ready" /\ row[x].keyed /\ x \in stored

OpenStream(s) ==
  /\ reader[s].step = "open"
  /\ reader' = [reader EXCEPT ![s].step =
                  IF Available(reader[s].export) THEN "stream" ELSE "refused"]
  /\ ReaderStays /\ UNCHANGED <<delivered, faults>>

\* A download is answered as it comes; UploadFile reads to the end first.
AtEnd(s)  == IF reader[s].kind = "download" THEN "done" ELSE "upload"
Broken(s) == IF reader[s].kind = "download" /\ reader[s].got > 0 THEN "done" ELSE "refused"

Receive(s) ==
  /\ reader[s].step = "stream"
  /\ reader' = IF reader[s].got < Chunks
               THEN [reader EXCEPT ![s].got = @ + 1]
               ELSE [reader EXCEPT ![s].step = AtEnd(s)]
  /\ ReaderStays /\ UNCHANGED <<delivered, faults>>

\* The stream ends with an error: a download that has begun is answered 200.
Break(s) ==
  /\ reader[s].step = "stream" /\ faults < MaxFaults
  /\ reader' = [reader EXCEPT ![s].step = Broken(s)]
  /\ faults' = faults + 1
  /\ ReaderStays /\ UNCHANGED delivered

UploadFile(s) ==
  /\ reader[s].step = "upload"
  /\ reader' = [reader EXCEPT ![s].step = "message"]
  /\ ReaderStays /\ UNCHANGED <<delivered, faults>>

\* What MAX makes of POST /messages, which is not tried again inside the client.
Answers == {"sent", "not ready", "error", "lost"}

\* sendExportMessage: a second and a third try only after "attachment.not.ready".
\* Variant: after any error.
TriesAgainAlways(answer, tries) == answer # "sent" /\ tries < 2
TriesAgain(answer, tries) == answer = "not ready" /\ tries < 2

SendMessage(s, answer) ==
  /\ reader[s].step = "message"
  /\ delivered' = IF answer \in {"sent", "lost"}
                  THEN [delivered EXCEPT ![s] = Append(@, reader[s].got)] ELSE delivered
  /\ reader' =
       IF TriesAgain(answer, reader[s].tries) THEN [reader EXCEPT ![s].tries = @ + 1]
       ELSE [reader EXCEPT ![s].step = IF answer = "sent" THEN "done" ELSE "refused"]
  /\ ReaderStays /\ UNCHANGED faults

\* The client leaves, or a call before the message fails.
GiveUp(s) ==
  /\ reader[s].step \in {"open", "upload", "message"}
  /\ reader' = [reader EXCEPT ![s].step = "refused"]
  /\ ReaderStays /\ UNCHANGED <<delivered, faults>>

-----------------------------------------------------------------------------

CreateExport(x) ==
  \/ BeginExport(x) \/ ListGroupMembers(x) \/ ListExpenses(x) \/ ListGroupAdjustments(x)
  \/ ListSettlements(x) \/ RefuseExport(x)
  \/ \E fate \in Fates :
       \/ Insert(x, fate) \/ MarkProcessing(x, fate) \/ PutExport(x, fate)
       \/ MarkReady(x, fate) \/ DropExport(x, fate) \/ MarkFailed(x, fate)

Retention ==
  \/ StartPass
  \/ \E x \in Exports, fate \in Fates : DeleteExport(x, fate) \/ MarkExportPurged(x, fate)

Read(s) ==
  \/ \E x \in Exports, kind \in {"download", "send"} : BeginRead(s, x, kind)
  \/ OpenStream(s) \/ Receive(s) \/ Break(s) \/ UploadFile(s) \/ GiveUp(s)
  \/ \E answer \in Answers : SendMessage(s, answer)

ExportNext ==
  \/ \E u \in Users : Join(u)
  \/ \E op \in Operations : Commit(op)
  \/ \E x \in Exports : CreateExport(x) \/ Expire(x)
  \/ Retention
  \/ \E s \in Readers : Read(s)

ExportSpec == ExportInit /\ [][ExportNext]_exportVars

-----------------------------------------------------------------------------
(* Properties *)

Steps == {"idle"} \cup Assembling \cup Storing \cup Over
Pages == [{"expense", "settlement"} -> Seq(SUBSET Operations)]
Request ==
  [step : Steps, began : SUBSET Operations, names : SUBSET Users, cursor : Nat,
   adjustments : SUBSET Operations, pages : Pages]
ExportRow ==
  [status : {"absent", "pending", "processing", "ready", "failed"},
   keyed : BOOLEAN, purged : BOOLEAN, old : BOOLEAN]
Reader ==
  [step : {"idle", "open", "stream", "upload", "message", "done", "refused"},
   kind : {"none", "download", "send"}, export : Exports \cup {0},
   got : 0 .. Chunks, tries : 0 .. 2]

\* An object is stored for an export only, a reader never counts more chunks than
\* the file has, nor more tries than sendExportMessage makes (exports.go 246-265).
ExportTypeOK ==
  /\ members \subseteq Users /\ committed \subseteq Operations
  /\ request \in [Exports -> Request]
  /\ row \in [Exports -> ExportRow]
  /\ stored \subseteq Exports
  /\ pass \in [left : SUBSET Exports, deleted : BOOLEAN]
  /\ reader \in [Readers -> Reader]
  /\ delivered \in [Readers -> Seq(0 .. Chunks)]
  /\ faults \in 0 .. MaxFaults

ListedOnce(pages) ==
  \A i, j \in DOMAIN pages : pages[i] \cap pages[j] # {} => i = j

\* The rows of an export that was assembled while the group went on living have
\* what was committed before the request began, once and with its author's name,
\* and nothing that was not committed (exports.go 331-424: several calls, the
\* listings page by page).
ReportWhole ==
  \A x \in Exports : request[x].step \in Storing \cup {"created"} =>
    /\ \A type \in {"expense", "settlement"} : ListedOnce(request[x].pages[type])
    /\ request[x].began \subseteq Rows(x) /\ Rows(x) \subseteq committed
    /\ \A op \in request[x].began : Named(x, op)

\* What the rows of document_exports say of the storage.  A file that was created
\* is there until it has expired, whatever fails meanwhile; a request that one
\* failure has stopped leaves nothing behind; what is purged is gone
\* (service/document.py 228-252, worker/retention.py 68-72).
ExportsTellTruth ==
  \A x \in Exports :
    /\ request[x].step = "created" /\ ~row[x].old => row[x].status = "ready" /\ x \in stored
    /\ request[x].step = "refused" /\ faults < 2 => row[x].status # "ready" /\ x \notin stored
    /\ row[x].purged => x \notin stored

\* A request sends one message at most, with the whole file, and says that it was
\* delivered only if it was (exports.go 196-265: retries, broken streams and
\* files that expire while they are read).
SentOnce ==
  \A s \in Readers :
    /\ Len(delivered[s]) =< 1
    /\ \A i \in DOMAIN delivered[s] : delivered[s][i] = Chunks
    /\ reader[s].kind = "send" /\ reader[s].step = "done" => Len(delivered[s]) = 1
===============================================================================
