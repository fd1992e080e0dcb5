--------------------------- MODULE ResponseBudget ---------------------------
(***************************************************************************)
(* Delivery of a page under a byte budget (v2_response.rs).  Records are   *)
(* counted one by one until no longer prefix can fit; then prefixes are    *)
(* tried from the longest, each with the cursor that would continue after  *)
(* it.  Neither cursors nor the last page, which has none, make the size   *)
(* of a response grow with its records, so the longest prefix that fits is *)
(* not the first one met from either side.                                 *)
(*                                                                         *)
(* Bytes of records are given by what the program derives from them: the   *)
(* size of the envelope with the first k records, commas included, and     *)
(* null for a cursor.  Sums of at most 100 counted lengths do not overflow *)
(* a usize, so the checked additions always succeed.                       *)
(***************************************************************************)
EXTENDS Integers

CONSTANTS
    Pages,          \* pages that storage returned
    Singles,        \* envelopes without records to choose from
    Budgets,        \* what callers allow
    Maximum,        \* MAXIMUM_RESPONSE_BYTES, also MAX_CURSOR_BYTES
    PageRecords,    \* MAXIMUM_PAGE_RECORDS
    None

NullBytes == 4      \* of null, which every counted envelope has for a cursor
QuoteBytes == 2     \* of "", the least any cursor takes

(* upto[k]: the envelope with k records; tokens[k]: the cursor after the    *)
(* k-th, its bytes with quotes, and whether it is a token or was too large. *)
Token == [bytes : Nat, whole : BOOLEAN]
Size(page) == page.size
Records(page) == 1..Size(page)

IsPage(page) ==
    LET n == Size(page)
    IN  /\ n \in Nat
        /\ page.tokens \in [1..n -> Token] /\ page.upto \in [0..n -> Nat]
        /\ page.more \in BOOLEAN /\ page.mixed \in BOOLEAN
        /\ page.upto[0] > NullBytes
        /\ \A j, k \in 0..n : j < k => page.upto[k] >= page.upto[j] + (IF j = 0 THEN 1 ELSE 2)
        /\ \A k \in 1..n : /\ page.tokens[k].bytes >= QuoteBytes
                           /\ ~page.tokens[k].whole => page.tokens[k].bytes > Maximum

Single == [kind : {"get", "conditional", "selected", "error"}, item : BOOLEAN,
           work : BOOLEAN, bytes : Nat]

Sent(n, bytes, continued) ==
    [type |-> "sent", records |-> n, bytes |-> bytes, continued |-> continued]
TooLarge(minimum) == [type |-> "payload_too_large", minimum |-> minimum]
EnvelopeTooLarge(minimum) == [type |-> "envelope_too_large", minimum |-> minimum]
Internal == [type |-> "internal"]
InvalidInput == [type |-> "invalid_input"]

Outcomes ==
    [type : {"sent"}, records : Nat, bytes : Nat, continued : BOOLEAN]
    \cup [type : {"payload_too_large", "envelope_too_large"}, minimum : Nat]
    \cup {Internal, InvalidInput}

Calls == [what : Pages \cup Singles, budget : Nat, promised : Nat \cup {None}]

ASSUME BudgetAssumption ==
    /\ Maximum \in Nat /\ PageRecords \in Nat \ {0} /\ Budgets \subseteq Nat
    /\ None \notin Nat \cup Outcomes \cup Calls
    /\ \A page \in Pages : IsPage(page)
    /\ Singles \subseteq Single

VARIABLES
    call,       \* page or envelope, budget, what the last answer asked for
    pc,         \* where write_page is
    index,      \* the record it counts or tries to end with
    candidates, \* records that were counted
    outcome     \* what it returned

vars == <<call, pc, index, candidates, outcome>>

-----------------------------------------------------------------------------
(* Sizes, as the loop bodies compute them.                                  *)

Continues(page, k) == page.more \/ k < Size(page)

\* Mutant: a continuation is taken to need the bytes of null.
LeastBytesWithNull(page, k) == page.upto[k]

LeastBytes(page, k) == page.upto[k] - (IF Continues(page, k) THEN QuoteBytes ELSE 0)

CandidateBytes(page, k) ==
    page.upto[k] - NullBytes
        + (IF Continues(page, k) THEN page.tokens[k].bytes ELSE NullBytes)

CursorFits(page, k) == Continues(page, k) => page.tokens[k].whole

Sendable(page, k, budget) == CursorFits(page, k) /\ CandidateBytes(page, k) <= budget

-----------------------------------------------------------------------------
Return(result) ==
    /\ pc' = "done"
    /\ outcome' = result
    /\ UNCHANGED <<call, index, candidates>>

Goto(label, i, counted) ==
    /\ pc' = label /\ index' = i /\ candidates' = counted
    /\ UNCHANGED <<call, outcome>>

(* ResponseBudget::new, before anything is read. *)
Ask(what, budget, promised) ==
    /\ call' = [what |-> what, budget |-> budget, promised |-> promised]
    /\ index' = 1 /\ candidates' = 0
    /\ IF budget > Maximum
       THEN pc' = "done" /\ outcome' = InvalidInput
       ELSE /\ pc' = IF what \in Pages THEN "page" ELSE "single"
            /\ outcome' = None

Request ==
    /\ pc = "idle"
    /\ \E what \in Pages \cup Singles, budget \in Budgets : Ask(what, budget, None)

(* A client that was told how much it needs, and asks again. *)
Retry ==
    /\ pc = "done" /\ outcome.type = "payload_too_large"
    /\ Ask(call.what, outcome.minimum, outcome.minimum)

(* write_get, write_conditional_get, write_selected_work, write_error *)
WriteSingle ==
    LET single == call.what
        fits == single.bytes <= call.budget
    IN  /\ pc = "single"
        /\ \/ /\ single.kind = "selected" /\ single.item /\ ~single.work
              /\ Return(Internal)
           \/ /\ ~(single.kind = "selected" /\ single.item /\ ~single.work)
              /\ \/ fits /\ Return(Sent(IF single.item THEN 1 ELSE 0, single.bytes, FALSE))
                 \/ ~fits /\ single.item /\ Return(TooLarge(single.bytes))
                 \/ ~fits /\ ~single.item /\ Return(EnvelopeTooLarge(single.bytes))

(* write_item_page_candidates and the checks write_page begins with *)
BeginPage ==
    LET page == call.what
    IN  /\ pc = "page"
        /\ \/ /\ page.mixed \/ Size(page) > PageRecords \/ (Size(page) = 0 /\ page.more)
              /\ Return(Internal)
           \/ /\ ~page.mixed /\ Size(page) = 0 /\ ~page.more
              /\ IF page.upto[0] > call.budget
                 THEN Return(EnvelopeTooLarge(page.upto[0]))
                 ELSE Return(Sent(0, page.upto[0], FALSE))
           \/ /\ ~page.mixed /\ Size(page) \in 1..PageRecords
              /\ Goto("count", 1, 0)

(* The longest prefix to try; the first record is tried in any case. *)
StartTrying(counted) == Goto("try", IF counted = 0 THEN 1 ELSE counted, counted)

Count ==
    LET page == call.what
    IN  /\ pc = "count"
        /\ \/ /\ LeastBytes(page, index) > call.budget
              /\ StartTrying(candidates)
           \/ /\ LeastBytes(page, index) <= call.budget
              /\ IF index = Size(page) THEN StartTrying(index)
                 ELSE Goto("count", index + 1, index)

\* Mutant: the minimum that is reported leaves out the cursor.
TryReportingRecords ==
    /\ pc = "try"
    /\ \/ /\ Sendable(call.what, index, call.budget)
          /\ Return(Sent(index, CandidateBytes(call.what, index), Continues(call.what, index)))
       \/ /\ ~Sendable(call.what, index, call.budget)
          /\ IF index = 1 THEN Return(TooLarge(LeastBytes(call.what, 1)))
             ELSE Goto("try", index - 1, candidates)

Try ==
    LET page == call.what
        bytes == CandidateBytes(page, index)
    IN  /\ pc = "try"
        /\ \/ /\ Sendable(page, index, call.budget)
              /\ Return(Sent(index, bytes, Continues(page, index)))
           \/ /\ ~Sendable(page, index, call.budget)
              /\ IF index = 1 THEN Return(TooLarge(bytes))
                 ELSE Goto("try", index - 1, candidates)

(* The client is done with the answer. *)
Forget ==
    /\ pc = "done"
    /\ pc' = "idle" /\ call' = None /\ outcome' = None
    /\ index' = 1 /\ candidates' = 0

Init ==
    /\ pc = "idle" /\ call = None /\ outcome = None
    /\ index = 1 /\ candidates = 0

Next == Request \/ Retry \/ WriteSingle \/ BeginPage \/ Count \/ Try \/ Forget

Spec == Init /\ [][Next]_vars
-----------------------------------------------------------------------------
(* Properties.                                                              *)

(* Types, and that a record is counted or tried only if the page has it.    *)
TypeOK ==
    /\ pc \in {"idle", "page", "single", "count", "try", "done"}
    /\ index \in Nat \ {0} /\ candidates \in Nat
    /\ call = None <=> pc = "idle"
    /\ outcome # None <=> pc = "done"
    /\ pc # "idle" => call \in Calls
    /\ pc = "done" => outcome \in Outcomes
    /\ pc = "single" => call.what \in Singles
    /\ pc \in {"page", "count", "try"} => call.what \in Pages
    /\ pc \in {"count", "try"} =>
          index \in Records(call.what) /\ candidates \in 0..Size(call.what)

Deliverable(page) == ~page.mixed /\ Size(page) \in 1..PageRecords

Fitting(page, budget) == {k \in Records(page) : Sendable(page, k, budget)}

Answered == pc = "done" /\ call.what \in Pages /\ Deliverable(call.what)
                /\ call.budget <= Maximum

(* A page is sent with as many records as any prefix that fits has, and     *)
(* payload_too_large is the answer only if none fits: the search leaves out *)
(* no prefix, although sizes do not grow with the records (write_page).     *)
LongestPrefixSent ==
    Answered =>
        LET fitting == Fitting(call.what, call.budget)
        IN  \/ /\ outcome.type = "sent" /\ outcome.records \in fitting
               /\ \A k \in fitting : k <= outcome.records
            \/ outcome.type = "payload_too_large" /\ fitting = {}

(* What is sent is within the budget, and a cut page has a cursor.          *)
SentWithinBudget ==
    pc = "done" /\ outcome.type = "sent" =>
        /\ outcome.bytes <= call.budget /\ call.budget <= Maximum
        /\ call.what \in Pages /\ Records(call.what) # {} =>
              /\ outcome.bytes = CandidateBytes(call.what, outcome.records)
              /\ (outcome.records < Size(call.what) \/ call.what.more) = outcome.continued

(* minimum_required_bytes keeps its word: it is more than the budget was,   *)
(* and a client that comes back with it, if it may, gets at least a record. *)
MinimumIsEnough ==
    /\ pc = "done" /\ outcome.type = "payload_too_large" => outcome.minimum > call.budget
    /\ pc = "done" /\ call.promised # None =>
          \/ outcome.type = "sent" /\ outcome.records > 0
          \/ call.promised > Maximum
=============================================================================
