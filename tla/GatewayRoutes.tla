----------------------------- MODULE GatewayRoutes -----------------------------
(***************************************************************************)
(* What each HTTP handler of the Gateway does, in its order                *)
(* (src/internal/gateway/delivery/http): the checks that may refuse the    *)
(* request and the statuses they refuse it with, the calls it makes and    *)
(* the status of its success.  GatewayRequests runs these steps.           *)
(*                                                                         *)
(* maxLogin and the tokens are the subject of GatewayAccess, maxWebhook of *)
(* UpdateInbox, the contents of exports of ReportExport.                   *)
(***************************************************************************)
EXTENDS Naturals, Sequences

\* A check that may end the request with one of these statuses.
Check(statuses) == [step |-> "check", statuses |-> statuses]

Ask     == [step |-> "ask"]      \* a call that changes nothing; its error is the answer
Write   == [step |-> "write"]    \* the call that does what the request is for
AskName == [step |-> "name"]     \* GetGroup for a notification, which is left out
                                 \* without it
Notify  == [step |-> "notify"]   \* notifyGroupEvent

Respond(status) == [step |-> "respond", status |-> status]

-----------------------------------------------------------------------------
(* Checks the handlers have in common *)

SessionAuth     == Check({401})
RateLimit       == Check({429})
UserID          == Check({401})  \* userIDFromContext, and the like
ParseID         == Check({400})  \* parseID of a parameter of the path
ParsePage       == Check({400})  \* parseLimit and parseCursor
DecodeJSON      == Check({400})  \* decodeJSON and the fields it must have filled
NotNil          == Check({500})  \* an answer without its message
ParseInput      == Check({400})  \* expenseInputToProto
ParseNamed      == Check({400})  \* memberRoleFromName, adjustmentTypeFromName, ...
ReadUpload      == Check({400, 413})  \* readReceiptUpload
ResourceIDs     == Check({400, 401})  \* documentResourceIDs, expenseActionIDs
Configured      == Check({503})

Get(checks)  == checks \o <<Ask, Respond(200)>>
Post(checks) == checks \o <<Write, Respond(200)>>

-----------------------------------------------------------------------------
(* me.go, groups.go, invites.go, maxsubscription.go *)

currentSession        == <<UserID, Ask, NotNil, Respond(200)>>
createGroup           == <<UserID, DecodeJSON, Write, Respond(201)>>
getGroup              == Get(<<UserID, ParseID>>)
getGroupBudgetSummary == Get(<<UserID, ParseID>>)
listGroups            == Get(<<UserID, ParsePage>>)
listGroupMembers      == Get(<<UserID, ParseID>>)
joinGroup             == Post(<<UserID, ParseID, Check({404})>>)
addGroupMembers       == Post(<<UserID, ParseID, DecodeJSON>>)
updateMemberRole      == Post(<<UserID, ParseID, DecodeJSON, ParseNamed>>)
archiveGroup          == Post(<<UserID, ParseID>>)
createGroupInvite     == <<UserID, ParseID, Ask, NotNil, Check({403}), Configured, Respond(201)>>

\* The Gateway's own database and MAX: their errors are 503, and a chat that is not
\* a dialog is 409.
getMaxSubscription     == <<UserID, Check({503}), Respond(200)>>
connectMaxSubscription == <<UserID, Check({400}), Check({409, 503}), Check({503}), Respond(200)>>
disableMaxSubscription == <<UserID, Check({503}), Respond(204)>>

-----------------------------------------------------------------------------
(* expenses.go, settlements.go, adjustments.go, ledger.go *)

\* A create asks for the group first, whose name the notification needs; the
\* others ask for it once they have succeeded.
createExpense     == <<UserID, ParseID, Ask, DecodeJSON, ParseInput, Write, Notify, Respond(201)>>
getExpense        == Get(<<UserID, ParseID>>)
listExpenses      == Get(<<UserID, ParseID, ParsePage>>)
updateExpense     == <<UserID, ParseID, DecodeJSON, ParseInput, Write, AskName, Notify, Respond(200)>>
confirmExpense    == <<ResourceIDs, Write, AskName, Notify, Respond(200)>>
cancelExpense     == Post(<<ResourceIDs>>)

createSettlement  == <<UserID, ParseID, Ask, DecodeJSON, Write, Notify, Respond(201)>>
confirmSettlement == Post(<<UserID, ParseID>>)
listSettlements   == Get(<<UserID, ParseID, ParsePage>>)

createAdjustment  == <<UserID, ParseID, DecodeJSON, ParseNamed, Write, AskName, Notify, Respond(201)>>
listAdjustments   == Get(<<UserID, ParseID>>)

getBalance          == Get(<<UserID, ParseID>>)
getBalanceBreakdown == Get(<<UserID, ParseID>>)
getSettlementPlan   == Get(<<UserID, ParseID>>)

-----------------------------------------------------------------------------
(* receipts.go, exports.go: Document's operations *)

createReceipt         == <<UserID, ParseID, Configured, Ask, ReadUpload, Write, Respond(201)>>
createReceiptFromQR   == <<UserID, ParseID, DecodeJSON, Ask, Write, Respond(201)>>
getReceipt            == Get(<<ResourceIDs>>)
getDocumentJob        == Get(<<ResourceIDs>>)
getOCRResult          == Get(<<ResourceIDs>>)
retryReceiptOCR       == Post(<<ResourceIDs>>)
deleteReceipt         == <<ResourceIDs, Write, Respond(204)>>
deleteReceiptOriginal == <<ResourceIDs, Write, Respond(204)>>

\* GetExport, and GetGroup to see that the caller still is a member.
authorizedExport == <<Ask, NotNil, Ask>>

createExport   == <<UserID, ParseID, DecodeJSON, ParseNamed, Ask, NotNil, Ask, Write, Respond(201)>>
getExport      == <<ResourceIDs>> \o authorizedExport \o <<NotNil, Respond(200)>>
downloadExport == <<ParseID, Check({401})>> \o authorizedExport \o <<Check({409}), Ask, Respond(200)>>
sendExport     == <<ResourceIDs, UserID>> \o authorizedExport
                  \o <<Check({409}), Check({503}), Check({409}), Ask, Check({502}), Respond(200)>>

-----------------------------------------------------------------------------
(* router.go *)

liveness  == <<Respond(200)>>
readiness == <<Check({503}), Respond(200)>>

Protected(handler) == <<SessionAuth, RateLimit>> \o handler
Uploads(handler)   == Protected(<<RateLimit>> \o handler)

\* The routes: the handler and the middleware in front of it.
Route ==
  [currentSession |-> Protected(currentSession),
   createGroup |-> Protected(createGroup), getGroup |-> Protected(getGroup),
   getGroupBudgetSummary |-> Protected(getGroupBudgetSummary),
   listGroups |-> Protected(listGroups), listGroupMembers |-> Protected(listGroupMembers),
   joinGroup |-> Protected(joinGroup), addGroupMembers |-> Protected(addGroupMembers),
   updateMemberRole |-> Protected(updateMemberRole), archiveGroup |-> Protected(archiveGroup),
   createGroupInvite |-> Protected(createGroupInvite),
   getMaxSubscription |-> Protected(getMaxSubscription),
   connectMaxSubscription |-> Protected(connectMaxSubscription),
   disableMaxSubscription |-> Protected(disableMaxSubscription),
   createExpense |-> Protected(createExpense), getExpense |-> Protected(getExpense),
   listExpenses |-> Protected(listExpenses), updateExpense |-> Protected(updateExpense),
   confirmExpense |-> Protected(confirmExpense), cancelExpense |-> Protected(cancelExpense),
   createSettlement |-> Protected(createSettlement),
   confirmSettlement |-> Protected(confirmSettlement),
   listSettlements |-> Protected(listSettlements),
   createAdjustment |-> Protected(createAdjustment),
   listAdjustments |-> Protected(listAdjustments),
   getBalance |-> Protected(getBalance),
   getBalanceBreakdown |-> Protected(getBalanceBreakdown),
   getSettlementPlan |-> Protected(getSettlementPlan),
   createReceipt |-> Uploads(createReceipt),
   createReceiptFromQR |-> Uploads(createReceiptFromQR),
   getReceipt |-> Protected(getReceipt), getDocumentJob |-> Protected(getDocumentJob),
   getOCRResult |-> Protected(getOCRResult), retryReceiptOCR |-> Protected(retryReceiptOCR),
   deleteReceipt |-> Protected(deleteReceipt),
   deleteReceiptOriginal |-> Protected(deleteReceiptOriginal),
   createExport |-> Protected(createExport), getExport |-> Protected(getExport),
   downloadExport |-> downloadExport, sendExport |-> Protected(sendExport),
   liveness |-> liveness, readiness |-> readiness]

===============================================================================
