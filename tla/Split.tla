--------------------------------- MODULE Split ---------------------------------
(***************************************************************************)
(* How an expense is divided (src/internal/core/domain/split/split.go and  *)
(* the switch of prepare in src/internal/core/usecase/expense.go).  The    *)
(* algorithms are operators from a request to the parts it is divided      *)
(* into; ExpenseToPlan tries them on requests.                             *)
(*                                                                         *)
(* The answer is a sequence of functions from users to amounts: one for a  *)
(* request by participants, one per item for a request by items, none for  *)
(* a request that is refused.                                              *)
(***************************************************************************)
EXTENDS Integers, Sequences, SequencesExt

CONSTANTS
  Members,  \* user ids of the group's members
  Requests, \* the requests to try
  Whole,    \* basis points of a whole: 10000 in the code
  MaxInt    \* the largest integer: 2^63 - 1 in the code

VARIABLES request, answer

splitVars == <<request, answer>>

\* What a message can carry: any numbers, any users.
IsRequest(r) ==
  \/ r \in [type : {"equal", "fixed", "shares", "percentage"}, amount : Int,
            participants : Seq([user : Int, value : Int])]
  \/ r \in [type : {"item"}, amount : Int, items : Seq([amount : Int, ids : Seq(Int)])]

Refused == <<>>

\* How many ids of S come before u when they are sorted.
Rank(u, S) == Cardinality({v \in S : v < u})

UserOf(entries)    == [i \in DOMAIN entries |-> entries[i].user]
ValueOf(entries)   == [i \in DOMAIN entries |-> entries[i].value]
ByUser(entries)    == [u \in Range(UserOf(entries)) |->
                         entries[CHOOSE i \in DOMAIN entries : entries[i].user = u].value]

ValidUniqueIDs(ids) == ids # <<>> /\ IsInjective(ids) /\ \A i \in DOMAIN ids : ids[i] > 0

\* Variant: the first user gets the whole remainder.
EqualRestToFirst(amount, ids) ==
  IF ~ValidUniqueIDs(ids) \/ amount =< 0 THEN Refused
  ELSE LET S == Range(ids)
       IN  <<[u \in S |-> amount \div Cardinality(S) + (IF Rank(u, S) = 0
                                                       THEN amount % Cardinality(S) ELSE 0)]>>

Equal(amount, ids) ==
  IF ~ValidUniqueIDs(ids) \/ amount =< 0 THEN Refused
  ELSE LET S    == Range(ids)
           base == amount \div Cardinality(S)
           left == amount % Cardinality(S)
       IN  <<[u \in S |-> base + (IF Rank(u, S) < left THEN 1 ELSE 0)]>>

\* The ids of the members are unique: they are the primary key of group_members.
Fixed(amount, values) ==
  IF \/ ~ValidUniqueIDs(UserOf(values)) \/ amount =< 0
     \/ ~(Range(UserOf(values)) \subseteq Members)
     \/ \E i \in DOMAIN values : values[i].value < 0
     \/ SumFunction(ValueOf(values)) # amount
  THEN Refused
  ELSE <<ByUser(values)>>

\* Variant: the remainder goes to the first user in the order of the request.
ToFirstListed(parts, entries, left) ==
  [parts EXCEPT ![entries[1].user] = @ + left]

\* The whole quotient of amount * weight / total (computed in big integers).
Quotient(amount, weight, total) == (amount * weight) \div total

\* The remainder is handed out in ones, from the smallest user id on.
HandOut(parts, entries, left) ==
  [u \in DOMAIN parts |-> parts[u] + (IF Rank(u, DOMAIN parts) < left THEN 1 ELSE 0)]

Shares(amount, shares) ==
  LET total  == SumFunction(ValueOf(shares))
      weight == ByUser(shares)
      parts  == [u \in DOMAIN weight |-> Quotient(amount, weight[u], total)]
  IN  IF \/ ~ValidUniqueIDs(UserOf(shares)) \/ amount =< 0
         \/ ~(Range(UserOf(shares)) \subseteq Members)
         \/ \E i \in DOMAIN shares : shares[i].value =< 0
         \/ total > MaxInt
      THEN Refused
      ELSE <<HandOut(parts, shares, amount - SumFunction(parts))>>

Percentage(amount, points) ==
  IF (\E i \in DOMAIN points : points[i].value =< 0) \/ SumFunction(ValueOf(points)) # Whole
  THEN Refused
  ELSE Shares(amount, points)

Items(amount, items) ==
  IF \/ amount =< 0 \/ items = <<>>
     \/ SumFunction([i \in DOMAIN items |-> items[i].amount]) # amount
     \/ \E i \in DOMAIN items : Equal(items[i].amount, items[i].ids) = Refused
  THEN Refused
  ELSE [i \in DOMAIN items |-> Equal(items[i].amount, items[i].ids)[1]]

\* The checks of validateExpenseInput and prepare on the users of a request.
Named(r) == IF r.type = "item" THEN UNION {Range(r.items[i].ids) : i \in DOMAIN r.items}
                               ELSE Range(UserOf(r.participants))

Prepare(r) ==
  IF ~(Named(r) \subseteq Members) THEN Refused
  ELSE CASE r.type = "equal"      -> Equal(r.amount, UserOf(r.participants))
         [] r.type = "fixed"      -> Fixed(r.amount, r.participants)
         [] r.type = "shares"     -> Shares(r.amount, r.participants)
         [] r.type = "percentage" -> Percentage(r.amount, r.participants)
         [] r.type = "item"       -> Items(r.amount, r.items)

\* What a user owes by all the parts together.
PartOf(u, parts) ==
  SumFunction([i \in DOMAIN parts |-> IF u \in DOMAIN parts[i] THEN parts[i][u] ELSE 0])

SplitInit == request \in Requests /\ answer = Refused
Answer    == answer = Refused /\ answer' = Prepare(request) /\ UNCHANGED request
SplitSpec == SplitInit /\ [][Answer]_splitVars

-----------------------------------------------------------------------------
(* Properties *)

Answered == answer # Refused

\* An expense is divided to the last minor unit among the members it names, and
\* nobody's part is negative: what CoreLedger's Drafts takes for granted (the
\* code never compares the sum of equal, shares or percentage parts with the
\* amount).
DividesWhole ==
  Answered =>
    /\ UNION {DOMAIN answer[i] : i \in DOMAIN answer} = Named(request)
    /\ Named(request) \subseteq Members
    /\ \A i \in DOMAIN answer : \A u \in DOMAIN answer[i] : answer[i][u] >= 0
    /\ SumFunction([i \in DOMAIN answer |-> SumFunction(answer[i])]) = request.amount

\* Rounding moves nobody's part by more than one minor unit from the exact
\* share.  It can be one whole unit: the remainder goes by user id, to users
\* whose share is exact as well (2 by weights 2, 1, 1 is divided 2, 0, 0).
Fair ==
  Answered =>
    CASE request.type = "equal" ->
           \A u, v \in DOMAIN answer[1] : answer[1][u] - answer[1][v] =< 1
      [] request.type = "item" ->
           \A i \in DOMAIN answer : \A u, v \in DOMAIN answer[i] :
             answer[i][u] - answer[i][v] =< 1
      [] request.type \in {"shares", "percentage"} ->
           LET total == SumFunction(ValueOf(request.participants))
           IN  \A e \in Range(request.participants) :
                 LET gap == answer[1][e.user] * total - request.amount * e.value
                 IN  -total < gap /\ gap =< total
      [] OTHER -> TRUE

\* The order in which a client lists the participants never changes what
\* anybody pays: the remainder goes by user id.
OrderFree ==
  Answered /\ request.type # "item" =>
    \A p \in Bijection(DOMAIN request.participants, DOMAIN request.participants) :
      Prepare([request EXCEPT !.participants =
                 [i \in DOMAIN @ |-> @[p[i]]]]) = answer

===============================================================================
