----------------------------- MODULE ReadsProofs -----------------------------
(***************************************************************************)
(* The read path, for pages of any number and size of records, any cursors *)
(* and any budget; for histories of any length, however they grow; and for *)
(* tables of any items, however they are captured, changed and restored.   *)
(***************************************************************************)
EXTENDS Reads, FiniteSetTheorems, WellFoundedInduction, TLAPS

-----------------------------------------------------------------------------
(* Delivery: write_page sends the longest prefix that fits.  The invariant  *)
(* says what each loop has ruled out when it is left; that counting may     *)
(* stop at the first record whose least response is too large is lemma      *)
(* NoLongerFits.                                                            *)

Wrong(single) == single.kind = "selected" /\ single.item /\ ~single.work

(* A budget that is enough for a record of what was asked for. *)
Enough(what, budget) ==
    IF what \in Pages THEN Deliverable(what) /\ Sendable(what, 1, budget)
    ELSE what.item /\ ~Wrong(what) /\ what.bytes <= budget

Working ==
    /\ pc \in {"page", "single", "count", "try"} => call.budget <= Maximum
    /\ pc = "single" => call.what \notin Pages
Counting == pc = "count" => Deliverable(call.what) /\ candidates = index - 1
Trying ==
    pc = "try" =>
        /\ Deliverable(call.what)
        /\ \A k \in Records(call.what) : k > index => ~Sendable(call.what, k, call.budget)
Told ==
    pc = "done" /\ outcome.type = "payload_too_large" =>
        /\ outcome.minimum > call.budget
        /\ outcome.minimum <= Maximum => Enough(call.what, outcome.minimum)
Kept ==
    pc # "idle" /\ call.promised # None =>
        /\ call.promised = call.budget
        /\ call.budget <= Maximum => Enough(call.what, call.budget)

IInv ==
    /\ TypeOK
    /\ Working /\ Counting /\ Trying /\ Told /\ Kept
    /\ LongestPrefixSent /\ SentWithinBudget /\ MinimumIsEnough

-----------------------------------------------------------------------------
(* Sizes of a page are numbers. *)
LEMMA SizesAreNumbers ==
    ASSUME NEW page, IsPage(page), NEW k \in Records(page)
    PROVE  /\ page.upto[k] \in Nat /\ page.upto[k] > NullBytes
           /\ CandidateBytes(page, k) \in Nat /\ LeastBytes(page, k) \in Nat
           /\ LeastBytes(page, k) <= CandidateBytes(page, k)
<1>1. /\ k \in 0..Size(page) /\ 0 \in 0..Size(page) /\ 0 < k /\ Size(page) \in Nat
      /\ k \in Nat
  BY DEF Records, IsPage
<1>2. page.upto[k] \in Nat /\ page.upto[0] \in Nat
  BY <1>1 DEF IsPage
<1>3. page.upto[k] >= page.upto[0] + 1
  BY <1>1 DEF IsPage
<1>4. page.upto[k] > NullBytes
  BY <1>2, <1>3 DEF IsPage, NullBytes
<1>5. page.tokens[k].bytes \in Nat /\ page.tokens[k].bytes >= QuoteBytes
  BY DEF IsPage, Records, Token
<1>6. QED
  BY <1>2, <1>4, <1>5 DEF CandidateBytes, LeastBytes, NullBytes, QuoteBytes

(* Once the least response that ends with record i is too large, no prefix  *)
(* of i records or more fits: later sizes only grow, by two bytes at least. *)
LEMMA NoLongerFits ==
    ASSUME NEW page, IsPage(page), NEW i \in Records(page), NEW k \in Records(page),
           k >= i, NEW budget \in Nat, LeastBytes(page, i) > budget
    PROVE  ~Sendable(page, k, budget)
<1>1. /\ LeastBytes(page, i) \in Nat /\ LeastBytes(page, k) \in Nat
      /\ CandidateBytes(page, k) \in Nat
      /\ LeastBytes(page, k) <= CandidateBytes(page, k)
      /\ page.upto[k] \in Nat /\ page.upto[i] \in Nat
  BY SizesAreNumbers
<1>2. LeastBytes(page, k) >= LeastBytes(page, i)
  <2>1. CASE k = i
    BY <1>1, <2>1
  <2>2. CASE k > i
    <3>1. page.upto[k] >= page.upto[i] + 2
      BY <2>2 DEF IsPage, Records
    <3>2. QED
      BY <1>1, <3>1 DEF LeastBytes, QuoteBytes
  <2>3. QED
    BY <2>1, <2>2 DEF Records, IsPage
<1>3. QED
  BY <1>1, <1>2 DEF Sendable

(* What payload_too_large asks for is enough, unless it is more than any    *)
(* response may have: a cursor that is no token is larger than that.        *)
LEMMA MinimumSuffices ==
    ASSUME NEW page \in Pages, Deliverable(page), CandidateBytes(page, 1) <= Maximum
    PROVE  Enough(page, CandidateBytes(page, 1))
<1>1. IsPage(page) /\ 1 \in Records(page) /\ Maximum \in Nat
  BY BudgetAssumption DEF Deliverable, Records, IsPage
<1>2. /\ page.upto[1] \in Nat /\ page.upto[1] > NullBytes
      /\ CandidateBytes(page, 1) \in Nat
  BY <1>1, SizesAreNumbers
<1>3. page.tokens[1] \in Token
  BY <1>1 DEF IsPage, Records
<1>4. ~page.tokens[1].whole => page.tokens[1].bytes > Maximum
  BY <1>1 DEF IsPage, Records
<1>5. CursorFits(page, 1)
  BY <1>1, <1>2, <1>3, <1>4 DEF CursorFits, CandidateBytes, Token, NullBytes
<1>6. QED
  BY <1>2, <1>5 DEF Enough, Sendable
-----------------------------------------------------------------------------
USE DEF Size, Records

LEMMA OutcomeTypes ==
    /\ \A n, bytes \in Nat : \A c \in BOOLEAN : Sent(n, bytes, c) \in Outcomes
    /\ \A n \in Nat : TooLarge(n) \in Outcomes /\ EnvelopeTooLarge(n) \in Outcomes
    /\ Internal \in Outcomes /\ InvalidInput \in Outcomes
    /\ None \notin Outcomes /\ None \notin Calls /\ None \notin Nat
BY BudgetAssumption
   DEF Outcomes, Sent, TooLarge, EnvelopeTooLarge, Internal, InvalidInput

(* A call begins with a budget that keeps what was promised. *)
LEMMA AskKeeps ==
    ASSUME IInv, NEW what \in Pages \cup Singles, NEW budget \in Nat,
           NEW promised \in Nat \cup {None}, Ask(what, budget, promised),
           promised # None => /\ promised = budget
                              /\ budget <= Maximum => Enough(what, budget)
    PROVE  IInv'
<1> USE DEF Ask
<1>1. call' \in Calls /\ call'.what = what /\ call'.budget = budget
      /\ call'.promised = promised /\ index' = 1 /\ candidates' = 0
      /\ Maximum \in Nat
  BY BudgetAssumption DEF Calls
<1>2. CASE budget > Maximum
  <2>1. pc' = "done" /\ outcome' = InvalidInput
    BY <1>2
  <2>2. outcome'.type = "invalid_input"
    BY <2>1 DEF InvalidInput
  <2>3. TypeOK'
    BY <1>1, <2>1, OutcomeTypes DEF TypeOK
  <2>4. Working' /\ Counting' /\ Trying' /\ Told' /\ Kept' /\ LongestPrefixSent'
        /\ SentWithinBudget'
    BY <1>1, <1>2, <2>1, <2>2
       DEF Working, Counting, Trying, Told, Kept, LongestPrefixSent, SentWithinBudget,
           Answered, Enough
  <2>5. MinimumIsEnough'
    BY <1>1, <1>2, <2>1, <2>2 DEF MinimumIsEnough
  <2>6. QED
    BY <2>3, <2>4, <2>5 DEF IInv
<1>3. CASE ~(budget > Maximum)
  <2>1. outcome' = None /\ pc' = (IF what \in Pages THEN "page" ELSE "single")
    BY <1>3
  <2>2. TypeOK'
    BY <1>1, <2>1, OutcomeTypes DEF TypeOK
  <2>3. Working' /\ Counting' /\ Trying' /\ Told' /\ Kept' /\ LongestPrefixSent'
        /\ SentWithinBudget' /\ MinimumIsEnough'
    BY <1>1, <1>3, <2>1
       DEF Working, Counting, Trying, Told, Kept, LongestPrefixSent, SentWithinBudget,
           MinimumIsEnough, Answered, Enough
  <2>4. QED
    BY <2>2, <2>3 DEF IInv
<1>4. QED
  BY <1>2, <1>3

(* A result that is right for the call leaves the invariant true. *)
LEMMA ReturnKeeps ==
    ASSUME IInv, pc \in {"page", "single", "try"}, NEW result \in Outcomes, Return(result),
           call.what \in Pages /\ Deliverable(call.what) =>
              LET fitting == Fitting(call.what, call.budget)
              IN  \/ /\ result.type = "sent" /\ result.records \in fitting
                     /\ \A k \in fitting : k <= result.records
                  \/ result.type = "payload_too_large" /\ fitting = {},
           result.type = "sent" =>
              /\ result.bytes <= call.budget
              /\ call.what \in Pages /\ Records(call.what) # {} =>
                    /\ result.bytes = CandidateBytes(call.what, result.records)
                    /\ (result.records < Size(call.what) \/ call.what.more) = result.continued,
           result.type = "payload_too_large" =>
              /\ result.minimum > call.budget
              /\ result.minimum <= Maximum => Enough(call.what, result.minimum),
           call.promised # None /\ Enough(call.what, call.budget) =>
              result.type = "sent" /\ result.records > 0
    PROVE  IInv'
<1> USE DEF Return
<1>1. pc' = "done" /\ outcome' = result /\ UNCHANGED <<call, index, candidates>>
  OBVIOUS
<1>2. call \in Calls /\ call.budget <= Maximum /\ pc # "idle" /\ call # None
  BY OutcomeTypes DEF IInv, TypeOK, Working
<1>3. TypeOK'
  BY <1>1, <1>2, OutcomeTypes DEF IInv, TypeOK
<1>4. Working' /\ Counting' /\ Trying'
  BY <1>1 DEF Working, Counting, Trying
<1>5. Told'
  BY <1>1 DEF Told, Enough, Wrong
<1>6. Kept'
  BY <1>1, <1>2 DEF IInv, Kept, Enough, Wrong
<1>7. LongestPrefixSent'
  BY <1>1 DEF LongestPrefixSent, Answered, Fitting
<1>8. SentWithinBudget'
  BY <1>1, <1>2 DEF SentWithinBudget
<1>9. MinimumIsEnough'
  BY <1>1, <1>2 DEF IInv, Kept, MinimumIsEnough
<1>10. QED
  BY <1>3, <1>4, <1>5, <1>6, <1>7, <1>8, <1>9 DEF IInv

LEMMA SingleKeeps == IInv /\ WriteSingle => IInv'
<1> SUFFICES ASSUME IInv, WriteSingle PROVE IInv'
  OBVIOUS
<1> DEFINE single == call.what
<1>1. /\ single \in Singles /\ single \notin Pages /\ call.budget \in Nat
      /\ pc = "single" /\ single \in Single /\ single.bytes \in Nat /\ single.item \in BOOLEAN
  <2>1. pc = "single" /\ call \in Calls /\ single \in Singles /\ single \notin Pages
    BY DEF IInv, TypeOK, Working, WriteSingle
  <2>2. QED
    BY <2>1, BudgetAssumption DEF Calls, Single
<1>2. CASE Wrong(single) /\ Return(Internal)
  <2>1. Internal.type = "internal" /\ ~Enough(single, call.budget)
    BY <1>1, <1>2 DEF Internal, Enough
  <2>2. QED
    BY <1>1, <1>2, <2>1, ReturnKeeps, OutcomeTypes
<1>3. CASE /\ ~Wrong(single) /\ single.bytes <= call.budget
           /\ Return(Sent(IF single.item THEN 1 ELSE 0, single.bytes, FALSE))
  <2> DEFINE result == Sent(IF single.item THEN 1 ELSE 0, single.bytes, FALSE)
  <2>1. result \in Outcomes
    <3>1. (IF single.item THEN 1 ELSE 0) \in Nat
      BY <1>1
    <3>2. QED
      BY <1>1, <3>1, OutcomeTypes
  <2>2. /\ result.type = "sent" /\ result.bytes = single.bytes
        /\ result.records = (IF single.item THEN 1 ELSE 0)
    BY DEF Sent
  <2> HIDE DEF result
  <2>3. Enough(single, call.budget) => result.records > 0
    <3>1. Enough(single, call.budget) => single.item
      BY <1>1 DEF Enough
    <3>2. single.item => result.records = 1
      BY <2>2
    <3>3. QED
      BY <3>1, <3>2
  <2>4. QED
    BY <1>1, <1>3, <2>1, <2>2, <2>3, ReturnKeeps DEF result
<1>4. CASE /\ ~Wrong(single) /\ ~(single.bytes <= call.budget) /\ single.item
           /\ Return(TooLarge(single.bytes))
  <2>1. /\ TooLarge(single.bytes) \in Outcomes
        /\ TooLarge(single.bytes).type = "payload_too_large"
        /\ TooLarge(single.bytes).minimum = single.bytes
    BY <1>1, OutcomeTypes DEF TooLarge
  <2>2. Enough(single, single.bytes) /\ ~Enough(single, call.budget)
        /\ single.bytes > call.budget
    BY <1>1, <1>4 DEF Enough
  <2>3. QED
    BY <1>1, <1>4, <2>1, <2>2, ReturnKeeps
<1>5. CASE /\ ~Wrong(single) /\ ~(single.bytes <= call.budget) /\ ~single.item
           /\ Return(EnvelopeTooLarge(single.bytes))
  <2>1. /\ EnvelopeTooLarge(single.bytes) \in Outcomes
        /\ EnvelopeTooLarge(single.bytes).type = "envelope_too_large"
    BY <1>1, OutcomeTypes DEF EnvelopeTooLarge
  <2>2. ~Enough(single, call.budget)
    BY <1>1, <1>5 DEF Enough
  <2>3. QED
    BY <1>1, <1>5, <2>1, <2>2, ReturnKeeps
<1>6. QED
  BY <1>1, <1>2, <1>3, <1>4, <1>5 DEF WriteSingle, Wrong

(* What is known of a page that is being delivered. *)
LEMMA PageFacts ==
    ASSUME IInv, pc \in {"page", "count", "try"}
    PROVE  /\ call.what \in Pages /\ IsPage(call.what) /\ call.budget \in Nat
           /\ Size(call.what) \in Nat /\ PageRecords \in Nat
<1>1. call.what \in Pages /\ call \in Calls
  BY DEF IInv, TypeOK
<1>2. IsPage(call.what) /\ call.budget \in Nat
  BY <1>1, BudgetAssumption DEF Calls
<1>3. QED
  BY <1>1, <1>2, BudgetAssumption DEF IsPage

(* Moving within the loops. *)
LEMMA GotoKeeps ==
    ASSUME IInv, pc \in {"page", "count", "try"}, NEW label \in {"count", "try"},
           NEW i \in Records(call.what), NEW counted \in 0..Size(call.what),
           Goto(label, i, counted), Deliverable(call.what),
           label = "count" => counted = i - 1,
           label = "try" => \A k \in Records(call.what) :
                               k > i => ~Sendable(call.what, k, call.budget)
    PROVE  IInv'
<1> USE DEF Goto
<1>1. /\ pc' = label /\ index' = i /\ candidates' = counted /\ call' = call
      /\ outcome' = outcome /\ outcome = None
  BY DEF IInv, TypeOK
<1>2. TypeOK'
  BY <1>1, PageFacts DEF IInv, TypeOK
<1>3. Working' /\ Kept'
  BY <1>1 DEF IInv, Working, Kept, Enough, Wrong
<1>4. Counting'
  BY <1>1 DEF Counting, Deliverable
<1>5. Trying'
  BY <1>1 DEF Trying, Deliverable
<1>6. Told' /\ LongestPrefixSent' /\ SentWithinBudget' /\ MinimumIsEnough'
  BY <1>1 DEF Told, LongestPrefixSent, Answered, SentWithinBudget, MinimumIsEnough
<1>7. QED
  BY <1>2, <1>3, <1>4, <1>5, <1>6 DEF IInv

LEMMA BeginKeeps == IInv /\ BeginPage => IInv'
<1> SUFFICES ASSUME IInv, BeginPage PROVE IInv'
  OBVIOUS
<1> DEFINE page == call.what
<1>1. /\ pc = "page" /\ page \in Pages /\ IsPage(page) /\ call.budget \in Nat
      /\ Size(page) \in Nat /\ PageRecords \in Nat
  BY PageFacts DEF BeginPage
<1>2. page.upto[0] \in Nat
  BY <1>1 DEF IsPage
<1>3. CASE /\ page.mixed \/ Size(page) > PageRecords \/ (Size(page) = 0 /\ page.more)
           /\ Return(Internal)
  <2>1. ~Deliverable(page)
    BY <1>1, <1>3 DEF Deliverable
  <2>2. Internal.type = "internal" /\ ~Enough(page, call.budget)
    BY <1>1, <2>1 DEF Internal, Enough
  <2>3. QED
    BY <1>1, <1>3, <2>1, <2>2, ReturnKeeps, OutcomeTypes
<1>4. CASE /\ ~page.mixed /\ Size(page) = 0 /\ ~page.more
           /\ page.upto[0] > call.budget /\ Return(EnvelopeTooLarge(page.upto[0]))
  <2>1. ~Deliverable(page) /\ ~Enough(page, call.budget)
    BY <1>1, <1>4 DEF Deliverable, Enough
  <2>2. /\ EnvelopeTooLarge(page.upto[0]) \in Outcomes
        /\ EnvelopeTooLarge(page.upto[0]).type = "envelope_too_large"
    BY <1>2, OutcomeTypes DEF EnvelopeTooLarge
  <2>3. QED
    BY <1>1, <1>4, <2>1, <2>2, ReturnKeeps
<1>5. CASE /\ ~page.mixed /\ Size(page) = 0 /\ ~page.more
           /\ ~(page.upto[0] > call.budget) /\ Return(Sent(0, page.upto[0], FALSE))
  <2>1. ~Deliverable(page) /\ ~Enough(page, call.budget) /\ Records(page) = {}
    BY <1>1, <1>5 DEF Deliverable, Enough
  <2>2. /\ Sent(0, page.upto[0], FALSE) \in Outcomes
        /\ Sent(0, page.upto[0], FALSE).type = "sent"
        /\ Sent(0, page.upto[0], FALSE).bytes = page.upto[0]
    BY <1>2, OutcomeTypes DEF Sent
  <2>3. page.upto[0] <= call.budget
    BY <1>1, <1>2, <1>5
  <2>4. QED
    BY <1>1, <1>5, <2>1, <2>2, <2>3, ReturnKeeps
<1>6. CASE ~page.mixed /\ Size(page) \in 1..PageRecords /\ Goto("count", 1, 0)
  <2>1. Deliverable(page) /\ 1 \in Records(page) /\ 0 \in 0..Size(page)
    BY <1>1, <1>6 DEF Deliverable
  <2>2. QED
    BY <1>1, <1>6, <2>1, GotoKeeps
<1>7. QED
  BY <1>3, <1>4, <1>5, <1>6 DEF BeginPage

LEMMA CountKeeps == IInv /\ Count => IInv'
<1> SUFFICES ASSUME IInv, Count PROVE IInv'
  OBVIOUS
<1> DEFINE page == call.what
<1>1. /\ pc = "count" /\ page \in Pages /\ IsPage(page) /\ call.budget \in Nat
      /\ Size(page) \in Nat
  BY PageFacts DEF Count
<1>2. /\ index \in Records(page) /\ Deliverable(page) /\ candidates = index - 1
      /\ candidates \in 0..Size(page)
  BY <1>1 DEF IInv, TypeOK, Counting
<1>3. CASE LeastBytes(page, index) > call.budget /\ StartTrying(candidates)
  <2> DEFINE i == IF candidates = 0 THEN 1 ELSE candidates
  <2>1. i \in Records(page) /\ Goto("try", i, candidates)
    BY <1>1, <1>2, <1>3 DEF StartTrying
  <2>2. ASSUME NEW k \in Records(page), k > i
        PROVE  ~Sendable(page, k, call.budget)
    <3>1. k >= index
      BY <1>1, <1>2, <2>2
    <3>2. QED
      BY <1>1, <1>2, <1>3, <3>1, NoLongerFits
  <2> HIDE DEF i
  <2>3. QED
    BY <1>1, <1>2, <2>1, <2>2, GotoKeeps
<1>4. CASE index = Size(page) /\ StartTrying(index)
  <2>1. Goto("try", index, index) /\ index \in 0..Size(page)
    BY <1>1, <1>2, <1>4 DEF StartTrying
  <2>2. \A k \in Records(page) : ~(k > index)
    BY <1>1, <1>4
  <2>3. QED
    BY <1>1, <1>2, <2>1, <2>2, GotoKeeps
<1>5. CASE index # Size(page) /\ Goto("count", index + 1, index)
  <2>1. index + 1 \in Records(page) /\ index \in 0..Size(page) /\ index = (index + 1) - 1
    BY <1>1, <1>2, <1>5
  <2>2. QED
    BY <1>1, <1>2, <1>5, <2>1, GotoKeeps
<1>6. QED
  BY <1>3, <1>4, <1>5 DEF Count

LEMMA TryKeeps == IInv /\ Try => IInv'
<1> SUFFICES ASSUME IInv, Try PROVE IInv'
  OBVIOUS
<1> DEFINE page == call.what
           bytes == CandidateBytes(page, index)
<1>1. /\ pc = "try" /\ page \in Pages /\ IsPage(page) /\ call.budget \in Nat
      /\ Size(page) \in Nat /\ call.budget <= Maximum /\ Maximum \in Nat
  BY PageFacts, BudgetAssumption DEF Try, IInv, Working
<1>2. /\ index \in Records(page) /\ Deliverable(page) /\ candidates \in 0..Size(page)
      /\ \A k \in Records(page) : k > index => ~Sendable(page, k, call.budget)
  BY <1>1 DEF IInv, TypeOK, Trying
<1>3. bytes \in Nat /\ index \in Nat /\ index > 0
  BY <1>1, <1>2, SizesAreNumbers
<1>4. Continues(page, index) \in BOOLEAN
      /\ (index < Size(page) \/ page.more) = Continues(page, index)
  BY <1>1, <1>2 DEF Continues, IsPage
<1>5. CASE Sendable(page, index, call.budget)
           /\ Return(Sent(index, bytes, Continues(page, index)))
  <2> DEFINE result == Sent(index, bytes, Continues(page, index))
  <2>1. /\ result \in Outcomes /\ result.type = "sent" /\ result.records = index
        /\ result.bytes = bytes /\ result.continued = Continues(page, index)
    BY <1>3, <1>4, OutcomeTypes DEF Sent
  <2>2. bytes <= call.budget
    BY <1>5 DEF Sendable
  <2>3. /\ index \in Fitting(page, call.budget)
        /\ \A k \in Fitting(page, call.budget) : k <= index
    BY <1>1, <1>2, <1>5 DEF Fitting
  <2> HIDE DEF result, bytes
  <2>4. QED
    BY <1>1, <1>3, <1>4, <1>5, <2>1, <2>2, <2>3, ReturnKeeps DEF result, bytes
<1>6. CASE ~Sendable(page, index, call.budget) /\ index = 1 /\ Return(TooLarge(bytes))
  <2>1. /\ TooLarge(bytes) \in Outcomes /\ TooLarge(bytes).type = "payload_too_large"
        /\ TooLarge(bytes).minimum = bytes
    BY <1>3, OutcomeTypes DEF TooLarge
  <2>2. Fitting(page, call.budget) = {}
    BY <1>1, <1>2, <1>6 DEF Fitting
  <2>3. bytes <= Maximum => Enough(page, bytes)
    BY <1>1, <1>2, <1>6, MinimumSuffices
  <2>4. bytes > call.budget
    <3>1. CASE CursorFits(page, 1)
      BY <1>1, <1>3, <1>6, <3>1 DEF Sendable
    <3>2. CASE ~CursorFits(page, 1)
      <4>1. /\ page.tokens[1].bytes > Maximum /\ page.tokens[1] \in Token
            /\ Continues(page, 1)
        BY <1>1, <1>2, <1>6, <3>2 DEF CursorFits, IsPage
      <4>2. page.upto[1] \in Nat /\ page.upto[1] > NullBytes
        BY <1>1, <1>2, <1>6, SizesAreNumbers
      <4>3. QED
        BY <1>1, <1>6, <4>1, <4>2 DEF CandidateBytes, NullBytes, Token
    <3>3. QED
      BY <3>1, <3>2
  <2>5. ~Enough(page, call.budget)
    BY <1>1, <1>6 DEF Enough
  <2> HIDE DEF bytes
  <2>6. QED
    BY <1>1, <1>6, <2>1, <2>2, <2>3, <2>4, <2>5, ReturnKeeps
<1>7. CASE ~Sendable(page, index, call.budget) /\ index # 1
           /\ Goto("try", index - 1, candidates)
  <2>1. index - 1 \in Records(page)
    BY <1>1, <1>2, <1>7
  <2>2. ASSUME NEW k \in Records(page), k > index - 1
        PROVE  ~Sendable(page, k, call.budget)
    <3>1. k = index \/ k > index
      BY <1>1, <1>2, <2>2
    <3>2. QED
      BY <1>2, <1>7, <3>1
  <2>3. QED
    BY <1>1, <1>2, <1>7, <2>1, <2>2, GotoKeeps
<1>8. QED
  BY <1>5, <1>6, <1>7 DEF Try

-----------------------------------------------------------------------------
LEMMA InitInv == Init => IInv
<1> SUFFICES ASSUME Init PROVE IInv
  OBVIOUS
<1> USE DEF Init
<1>1. TypeOK
  BY DEF TypeOK
<1>2. Working /\ Counting /\ Trying /\ Told /\ Kept
  BY DEF Working, Counting, Trying, Told, Kept
<1>3. LongestPrefixSent /\ SentWithinBudget /\ MinimumIsEnough
  BY DEF LongestPrefixSent, SentWithinBudget, MinimumIsEnough, Answered
<1>4. QED
  BY <1>1, <1>2, <1>3 DEF IInv

LEMMA ForgetKeeps == IInv /\ Forget => IInv'
<1> SUFFICES ASSUME IInv, Forget PROVE IInv'
  OBVIOUS
<1> USE DEF Forget
<1>1. TypeOK'
  BY DEF TypeOK
<1>2. Working' /\ Counting' /\ Trying' /\ Told' /\ Kept'
  BY DEF Working, Counting, Trying, Told, Kept
<1>3. LongestPrefixSent' /\ SentWithinBudget' /\ MinimumIsEnough'
  BY DEF LongestPrefixSent, SentWithinBudget, MinimumIsEnough, Answered
<1>4. QED
  BY <1>1, <1>2, <1>3 DEF IInv

LEMMA AsksKeep == IInv /\ (Request \/ Retry) => IInv'
<1>1. ASSUME IInv, Request PROVE IInv'
  <2>1. PICK what \in Pages \cup Singles, budget \in Budgets : Ask(what, budget, None)
    BY <1>1 DEF Request
  <2>2. QED
    BY <1>1, <2>1, AskKeeps, BudgetAssumption
<1>2. ASSUME IInv, Retry PROVE IInv'
  <2>1. /\ pc = "done" /\ outcome.type = "payload_too_large" /\ outcome \in Outcomes
        /\ call.what \in Pages \cup Singles
    BY <1>2 DEF IInv, TypeOK, Retry, Calls
  <2>2. outcome.minimum \in Nat
    BY <2>1 DEF Outcomes, Internal, InvalidInput
  <2>3. outcome.minimum <= Maximum => Enough(call.what, outcome.minimum)
    BY <1>2, <2>1 DEF IInv, Told
  <2>4. QED
    BY <1>2, <2>1, <2>2, <2>3, AskKeeps DEF Retry
<1>3. QED
  BY <1>1, <1>2

LEMMA StepKeeps == IInv /\ [Next]_vars => IInv'
<1>1. IInv /\ UNCHANGED vars => IInv'
  <2> SUFFICES ASSUME IInv, UNCHANGED vars PROVE IInv'
    OBVIOUS
  <2>1. UNCHANGED <<call, pc, index, candidates, outcome>>
    BY DEF vars
  <2>2. QED
    BY <2>1 DEF IInv, TypeOK, Working, Counting, Trying, Told, Kept, Enough, Wrong,
                LongestPrefixSent, SentWithinBudget, MinimumIsEnough, Answered, Fitting
<1>2. QED
  BY <1>1, AsksKeep, SingleKeeps, BeginKeeps, CountKeeps, TryKeeps, ForgetKeeps DEF Next

LEMMA Invariance == Spec => []IInv
BY InitInv, StepKeeps, PTL DEF Spec

(* The loops index records the page has, for any page and any budget. *)
THEOREM DeliveryTypes == Spec => []TypeOK
BY Invariance, PTL DEF IInv

(* write_page sends the longest prefix that fits, and refuses a page only   *)
(* if no prefix of it fits.                                                 *)
THEOREM LongestPrefix == Spec => []LongestPrefixSent
BY Invariance, PTL DEF IInv

(* No response is larger than its budget, and each is cut with a cursor.    *)
THEOREM WithinBudget == Spec => []SentWithinBudget
BY Invariance, PTL DEF IInv

(* minimum_required_bytes is more than there was, and enough to be sent a   *)
(* record when asked again.                                                 *)
THEOREM MinimumKept == Spec => []MinimumIsEnough
BY Invariance, PTL DEF IInv

-----------------------------------------------------------------------------
(* Items, histories and deliveries share no state: each part of the read    *)
(* path is a behaviour of its own module, whichever part moves.             *)

LEMMA PartsMove ==
    ReadsSpec => History!Init /\ [][History!Next]_(History!vars)
<1>1. ReadsInit => History!Init
  BY DEF ReadsInit
<1>2. [ReadsNext]_readsVars => [History!Next]_(History!vars)
  BY DEF ReadsNext, readsVars, PlayScene, eventVars, History!vars
<1>3. QED BY <1>1, <1>2, PTL DEF ReadsSpec

(* Of a set of numbers that is not empty, one is the least.                 *)
LEMMA LeastNumber ==
    ASSUME NEW S \in SUBSET Nat, S # {}
    PROVE  \E i \in S : \A j \in S : i <= j
<1> DEFINE Less == {p \in Nat \X Nat : p[1] < p[2]}
<1>1. IsWellFoundedOn(Less, Nat)
  BY NatLessThanWellFounded DEF OpToRel
<1> HIDE DEF Less
<1>2. PICK i \in S : \A j \in S : <<j, i>> \notin Less
  BY <1>1, WFMin
<1>3. \A j \in S : ~(j < i)
  BY <1>2 DEF Less
<1>4. QED BY <1>3

-----------------------------------------------------------------------------
(* A page of a history.                                                     *)

LEMMA HistoryOrder ==
    ASSUME NEW d \in History!Event, NEW e \in History!Event, NEW f \in History!Event
    PROVE  /\ ~History!Follows(e, e)
           /\ History!Follows(e, d) /\ History!Follows(f, e) => History!Follows(f, d)
           /\ History!Follows(e, d) => ~History!Follows(d, e)
           /\ e = d \/ History!Follows(e, d) \/ History!Follows(d, e)
           /\ History!Follows(f, d) => History!Follows(f, e) \/ History!Follows(e, d)
BY ReadsAssumption DEF History!HistoryAssumption, History!QueryAssumption, Lists!QueryAssumption,
   History!Event, History!Follows

LEMMA FirstEvent ==
    ASSUME NEW events \in SUBSET History!Event, events # {}
    PROVE  \E e \in events : \A o \in events : ~History!Follows(e, o)
<1> USE ReadsAssumption DEF History!HistoryAssumption, Lists!QueryAssumption, History!Event
<1> DEFINE revisions == {e.revision : e \in events}
<1>1. revisions \in SUBSET Nat /\ revisions # {}
  OBVIOUS
<1>2. PICK r \in revisions : \A q \in revisions : r <= q
  BY <1>1, LeastNumber
<1> DEFINE indexes == {e.index : e \in {o \in events : o.revision = r}}
<1>3. indexes \in SUBSET Nat /\ indexes # {}
  OBVIOUS
<1>4. PICK i \in indexes : \A j \in indexes : i <= j
  BY <1>3, LeastNumber
<1>5. PICK e \in events : e.revision = r /\ e.index = i
  BY <1>4
<1>6. ASSUME NEW o \in events, History!Follows(e, o) PROVE FALSE
  <2>1. r <= o.revision /\ (o.revision = r => i <= o.index)
    BY <1>2, <1>4
  <2>2. e.revision > o.revision \/ (e.revision = o.revision /\ e.index > o.index)
    BY <1>6 DEF History!Follows
  <2>3. r \in Nat /\ i \in Nat /\ o.revision \in Nat /\ o.index \in Nat
    BY <1>1, <1>3
  <2>4. QED BY <1>5, <2>1, <2>2, <2>3
<1>7. QED BY <1>6

LEMMA SameCardinality == \A S : History!Cardinality(S) = Cardinality(S)
BY DEF History!Cardinality, Cardinality

(* The first n events of some are an initial part of them, and not none     *)
(* unless there are none.                                                   *)
LEMMA FirstOnes ==
    ASSUME NEW events \in SUBSET History!Event, IsFiniteSet(events), NEW n \in Nat \ {0}
    PROVE  LET records == History!FirstEvents(events, n)
           IN  /\ records \subseteq events
               /\ \A r \in records, e \in events : ~History!Follows(e, r) => e \in records
               /\ events # {} => records # {}
<1> DEFINE records == History!FirstEvents(events, n)
           before(e) == {o \in events : History!Follows(e, o)}
<1>1. records = {e \in events : Cardinality(before(e)) < n}
  BY SameCardinality DEF History!FirstEvents
<1>2. \A e \in events : IsFiniteSet(before(e)) /\ Cardinality(before(e)) \in Nat
  <2> SUFFICES ASSUME NEW e \in events
               PROVE  IsFiniteSet(before(e)) /\ Cardinality(before(e)) \in Nat
    OBVIOUS
  <2>1. IsFiniteSet(before(e))
    BY FS_Subset, before(e) \subseteq events
  <2>2. QED BY <2>1, FS_CardinalityType
<1>3. ASSUME NEW r \in records, NEW e \in events, ~History!Follows(e, r)
      PROVE  e \in records
  <2>1. before(e) \subseteq before(r)
    BY <1>1, <1>3, HistoryOrder
  <2>2. Cardinality(before(e)) <= Cardinality(before(r))
    BY <1>1, <1>2, <2>1, FS_Subset
  <2>3. Cardinality(before(r)) < n
    BY <1>1
  <2>4. Cardinality(before(e)) \in Nat /\ Cardinality(before(r)) \in Nat
    BY <1>1, <1>2
  <2>5. Cardinality(before(e)) < n
    BY <2>2, <2>3, <2>4
  <2>6. QED BY <1>1, <2>5
<1>4. ASSUME events # {} PROVE records # {}
  <2>1. PICK e \in events : \A o \in events : ~History!Follows(e, o)
    BY <1>4, FirstEvent
  <2>2. before(e) = {}
    BY <2>1
  <2>3. Cardinality(before(e)) = 0
    BY <2>2, FS_EmptySet
  <2>4. QED BY <1>1, <2>3
<1>5. QED BY <1>1, <1>3, <1>4

Precede(some, others) == \A s \in some, o \in others : History!Follows(o, s)

LastOf(emitted) == CHOOSE e \in emitted : \A o \in emitted : ~History!Follows(o, e)

(* What was sent, and what a page adds to it, is an initial part of the     *)
(* history again; it ends at the last event that was sent.                  *)
JoinsOn(emitted, got, events) ==
    /\ emitted \in SUBSET events /\ \A e \in emitted : e \notin got
    /\ Precede(got \cup emitted, events \ (got \cup emitted))
    /\ emitted = {} => got = events
    /\ emitted # {} =>
         /\ LastOf(emitted) \in emitted
         /\ got \cup emitted = {e \in events : ~History!Follows(e, LastOf(emitted))}

LEMMA PageJoins ==
    ASSUME NEW events \in SUBSET History!Event, IsFiniteSet(events), NEW n \in Nat \ {0},
           NEW got \in SUBSET events, Precede(got, events \ got),
           NEW emitted,
           emitted \in History!Emissions(History!FirstEvents(events \ got, n))
    PROVE  JoinsOn(emitted, got, events)
<1> DEFINE left == events \ got
           records == History!FirstEvents(left, n)
<1>1. left \in SUBSET History!Event /\ IsFiniteSet(left)
  BY FS_Subset
<1>2. /\ records \subseteq left
      /\ \A r \in records, e \in left : ~History!Follows(e, r) => e \in records
      /\ left # {} => records # {}
  BY <1>1, FirstOnes
<1>3. emitted \in IF records = {} THEN {{}}
                  ELSE {{e \in records : ~History!Follows(e, f)} : f \in records}
  BY DEF History!Emissions
<1> HIDE DEF records
<1>4. CASE records = {}
  BY <1>2, <1>3, <1>4 DEF JoinsOn, Precede
<1>5. CASE records # {}
  <2>1. PICK f \in records : emitted = {e \in records : ~History!Follows(e, f)}
    BY <1>3, <1>5
  <2>2. f \in emitted /\ emitted \subseteq records
    BY <1>1, <1>2, <2>1, HistoryOrder
  <2>3. emitted = {e \in left : ~History!Follows(e, f)}
    BY <1>2, <2>1
  <2>4. \A g \in emitted, e \in left \ emitted : History!Follows(e, g)
    <3> SUFFICES ASSUME NEW g \in emitted, NEW e \in left \ emitted PROVE History!Follows(e, g)
      OBVIOUS
    <3>1. History!Follows(e, f) /\ ~History!Follows(g, f) /\ g \in left
      BY <2>3
    <3>2. e \in History!Event /\ g \in History!Event /\ f \in History!Event
      BY <1>1, <1>2, <3>1
    <3>3. QED BY <3>1, <3>2, HistoryOrder
  <2>5. f = LastOf(emitted)
    <3>1. \A e \in emitted : (\A o \in emitted : ~History!Follows(o, e)) <=> e = f
      BY <1>1, <1>2, <2>2, <2>3, HistoryOrder
    <3>2. QED BY <2>2, <3>1 DEF LastOf
  <2>6. got \cup emitted = {e \in events : ~History!Follows(e, f)}
    <3>1. \A g \in got : ~History!Follows(g, f)
      <4> SUFFICES ASSUME NEW g \in got PROVE ~History!Follows(g, f)
        OBVIOUS
      <4>1. History!Follows(f, g) /\ f \in History!Event /\ g \in History!Event
        BY <1>1, <1>2 DEF Precede
      <4>2. QED BY <4>1, HistoryOrder
    <3>2. QED BY <2>3, <3>1
  <2>7. Precede(got \cup emitted, events \ (got \cup emitted))
    BY <2>4 DEF Precede
  <2>8. QED BY <1>2, <2>2, <2>3, <2>5, <2>6, <2>7 DEF JoinsOn
<1>6. QED BY <1>4, <1>5

-----------------------------------------------------------------------------
(* A client that pages through a history while it grows and is restored.    *)

IsHistory(events) ==
    /\ events \in SUBSET History!Event /\ IsFiniteSet(events)
    /\ \E n \in 0..MaxRevision : {e.revision : e \in events} = 1..n

Histories(h) == h \in [Items -> SUBSET History!Event] /\ \A i \in Items : IsHistory(h[i])

(* What a scan was sent is an initial part of the history, and its cursor   *)
(* names the last event of it.                                              *)
Joined(scan, events) ==
    /\ scan.got \subseteq events /\ ~scan.repeated
    /\ \A sent \in scan.got, e \in events \ scan.got : History!Follows(e, sent)
    /\ scan.cursor # None =>
         /\ scan.cursor.boundary.key \in scan.got
         /\ scan.got = {e \in events : ~History!Follows(e, scan.cursor.boundary.key)}

(* ... as long as no restore came between; and then it is refused.          *)
ScanInv ==
    eventScan # None =>
        /\ eventScan \in History!Scan
        /\ eventScan.cursor # None =>
             /\ eventScan.cursor.generation = eventScan.generation
             /\ eventScan.cursor.query = <<"history", History!Store, eventScan.item>>
        /\ eventScan.generation <= generation
        /\ eventScan.generation = generation => Joined(eventScan, log[eventScan.item])
        /\ eventAnswer.after # None =>
             eventAnswer.item = eventScan.item /\ eventAnswer.generation = eventScan.generation

HistoryInv ==
    /\ generation \in Nat
    /\ Histories(log) /\ Histories(backup)
    /\ ScanInv

LEMMA HistoryInvIsGapless == HistoryInv => HistoryIsGapless
<1> SUFFICES ASSUME HistoryInv, eventScan # None, eventScan.generation = generation,
                    NEW sent \in eventScan.got, NEW e \in log[eventScan.item],
                    History!Follows(sent, e), e \notin eventScan.got
             PROVE  FALSE
  BY DEF HistoryIsGapless, History!HistoryIsGapless, HistoryInv, ScanInv, Joined
<1>1. History!Follows(e, sent) /\ sent \in History!Event /\ e \in History!Event
  BY DEF HistoryInv, ScanInv, Joined, History!Scan, Histories, IsHistory
<1>2. QED BY <1>1, HistoryOrder

LEMMA HistoryInitInvariant == History!Init => HistoryInv
<1> SUFFICES ASSUME History!Init PROVE HistoryInv
  OBVIOUS
<1>1. MaxRevision \in Nat
  BY ReadsAssumption DEF Lists!QueryAssumption, History!HistoryAssumption
<1>2. IsHistory({})
  <2>1. {e.revision : e \in {}} = 1..0 /\ 0 \in 0..MaxRevision
    BY <1>1
  <2>2. QED BY <2>1, FS_EmptySet DEF IsHistory
<1>3. QED BY <1>2 DEF History!Init, HistoryInv, Histories, ScanInv

(* A page leaves the scan at the end of an initial part, with a cursor      *)
(* unless this part is all there is.                                        *)
LEMMA DeliverJoins ==
    ASSUME HistoryInv, NEW item \in Items, NEW limit \in Limits, NEW after,
           NEW scan \in History!Scan, scan.item = item, scan.generation = generation,
           scan.got \subseteq log[item], ~scan.repeated,
           \A sent \in scan.got, e \in log[item] \ scan.got : History!Follows(e, sent),
           History!Selection(log[item], after) = log[item] \ scan.got,
           History!Deliver(item, limit, after, scan), UNCHANGED <<log, generation, backup>>
    PROVE  /\ HistoryInv'
           /\ eventScan' # None /\ eventScan'.item = item
           /\ eventScan'.cursor = None => eventScan'.got = log[item]
<1> DEFINE events == log[item]
           left == events \ scan.got
           records == History!FirstEvents(left, limit)
           page == [records |-> records, has_more |-> left # records]
<1>1. events \in SUBSET History!Event /\ IsFiniteSet(events) /\ limit \in Nat \ {0}
  BY ReadsAssumption DEF HistoryInv, Histories, IsHistory, Lists!QueryAssumption,
     History!HistoryAssumption
<1>2. page = History!HistoryPage(item, limit, after)
  BY DEF History!HistoryPage
<1>3. /\ scan.got \in SUBSET events
       /\ \A sent \in scan.got, e \in left : History!Follows(e, sent)
  OBVIOUS
<1> HIDE DEF page, events
<1>4. PICK emitted \in History!Emissions(page.records) :
        /\ eventScan' = [scan EXCEPT !.cursor = History!NextCursor(item, page, emitted),
                                     !.got = @ \cup emitted,
                                     !.repeated = @ \/ emitted \cap scan.got # {}]
        /\ eventAnswer' = History!Outcome(item, None, after, emitted)
  BY <1>2 DEF History!Deliver
<1>5. emitted \in History!Emissions(records)
  BY <1>4 DEF page
<1> DEFINE final == LastOf(emitted)
           got == scan.got \cup emitted
           token == History!Encode(History!HistoryContext(History!Store, generation, item),
                                   History!HistoryBoundary(final))
<1> DEFINE before == scan.got
<1> HIDE DEF before, records, left, final, got
<1>6. before \in SUBSET events /\ Precede(before, events \ before)
  BY <1>3 DEF before, left, Precede
<1>7. emitted \in History!Emissions(History!FirstEvents(events \ before, limit))
  BY <1>5 DEF records, left, before
<1>8. JoinsOn(emitted, before, events)
  BY <1>1, <1>6, <1>7, PageJoins
<1> USE ReadsAssumption
    DEF records, left, got, Lists!QueryAssumption, History!HistoryAssumption
<1>9. /\ emitted \subseteq left
      /\ \A g \in got, e \in events \ got : History!Follows(e, g)
      /\ emitted = {} => scan.got = events
      /\ emitted # {} =>
           final \in emitted /\ got = {e \in events : ~History!Follows(e, final)}
  BY <1>6, <1>8 DEF before, final, Precede, JoinsOn
<1>10. records \subseteq left
  <2>1. left \in SUBSET History!Event /\ IsFiniteSet(left)
    BY <1>1, FS_Subset
  <2>2. QED BY <1>1, <2>1, FirstOnes
<1>11. page.records = records /\ (page.has_more <=> left # records)
  BY DEF page
<1> HIDE DEF records, final
<1>12. CASE page.has_more \/ emitted # page.records
  <2>1. emitted # {}
    BY <1>9, <1>10, <1>11, <1>12
  <2>2. final \in History!Event /\ final \in emitted
    BY <1>1, <1>9, <2>1
  <2>3. History!NextCursor(item, page, emitted) = token
    BY <1>12 DEF History!NextCursor, final, LastOf
  <2>4. /\ token \in History!Token /\ token.generation = generation
        /\ token.query = <<"history", History!Store, item>> /\ token.boundary.key = final
    BY <2>2 DEF History!Encode, History!HistoryContext, History!HistoryBoundary, History!Token,
       HistoryInv
  <2> HIDE DEF token
  <2>5. eventScan' = [scan EXCEPT !.cursor = token, !.got = got, !.repeated = FALSE]
    BY <1>4, <1>9, <2>3
  <2>6. /\ eventScan' \in History!Scan /\ eventScan'.cursor = token /\ eventScan'.got = got
        /\ eventScan'.item = item /\ eventScan'.generation = generation
        /\ eventScan'.repeated = FALSE
    BY <1>1, <1>9, <2>4, <2>5 DEF History!Scan
  <2>7. token # None /\ eventScan' # None
    BY <2>4, <2>6
  <2>8. Joined(eventScan', events)
    BY <1>9, <2>1, <2>2, <2>4, <2>6 DEF Joined
  <2>9. ScanInv'
    BY <1>4, <2>4, <2>6, <2>8 DEF ScanInv, HistoryInv, History!Outcome, events
  <2>10. QED BY <2>6, <2>7, <2>9 DEF HistoryInv, Histories
<1>13. CASE ~(page.has_more \/ emitted # page.records)
  <2>1. History!NextCursor(item, page, emitted) = None
    BY <1>13 DEF History!NextCursor
  <2>2. emitted = left /\ got = events
    BY <1>9, <1>11, <1>13 DEF events
  <2>3. eventScan' = [scan EXCEPT !.cursor = None, !.got = got, !.repeated = FALSE]
    BY <1>4, <1>9, <2>1
  <2>4. /\ eventScan' \in History!Scan /\ eventScan'.cursor = None /\ eventScan'.got = got
        /\ eventScan'.item = item /\ eventScan'.generation = generation
        /\ eventScan'.repeated = FALSE
    BY <1>1, <2>2, <2>3 DEF History!Scan
  <2>5. eventScan' # None
    BY <2>4
  <2>6. Joined(eventScan', events)
    BY <2>2, <2>4 DEF Joined
  <2>7. ScanInv'
    BY <1>4, <2>4, <2>6 DEF ScanInv, HistoryInv, History!Outcome, events
  <2>8. QED BY <2>2, <2>4, <2>5, <2>7 DEF HistoryInv, Histories, events
<1>14. QED BY <1>12, <1>13

LEMMA EventsAreFinite == \A events \in SUBSET History!Event : IsFiniteSet(events)
<1> DEFINE pairs == (1..MaxRevision) \X (0..(MaxEvents - 1))
           event == [p \in pairs |-> [revision |-> p[1], index |-> p[2]]]
<1>1. IsFiniteSet(1..MaxRevision) /\ IsFiniteSet(0..(MaxEvents - 1))
  BY ReadsAssumption, FS_Interval
     DEF Lists!QueryAssumption, History!HistoryAssumption
<1>2. IsFiniteSet(pairs)
  BY <1>1, FS_Product
<1>3. event \in Surjection(pairs, History!Event)
  <2>1. event \in [pairs -> History!Event]
    BY DEF History!Event
  <2>2. ASSUME NEW e \in History!Event PROVE \E p \in pairs : event[p] = e
    <3>1. <<e.revision, e.index>> \in pairs /\ e = [revision |-> e.revision, index |-> e.index]
      BY DEF History!Event
    <3>2. QED BY <3>1
  <2>3. QED BY <2>1, <2>2 DEF Surjection
<1>4. IsFiniteSet(History!Event)
  BY <1>2, <1>3, FS_Surjection DEF ExistsSurjection
<1>5. QED BY <1>4, FS_Subset

(* An operation's events follow all there were.                             *)
LEMMA AppendKeeps ==
    ASSUME HistoryInv, NEW item \in Items, NEW n \in 1..MaxEvents,
           History!AppendEvents(item, n)
    PROVE  HistoryInv'
<1> DEFINE number == History!Revision(item) + 1
           added == {[revision |-> number, index |-> i] : i \in 0..(n - 1)}
<1>1. PICK m \in 0..MaxRevision : {e.revision : e \in log[item]} = 1..m
  BY DEF HistoryInv, Histories, IsHistory
<1>2. MaxRevision \in Nat /\ MaxEvents \in Nat
  BY ReadsAssumption DEF Lists!QueryAssumption, History!HistoryAssumption
<1>3. number = m + 1 /\ m + 1 <= MaxRevision
  <2>1. Cardinality(1..m) = m
    BY <1>1, <1>2, FS_Interval
  <2>2. History!Revision(item) = m
    BY <1>1, <2>1, SameCardinality DEF History!Revision
  <2>3. QED BY <1>1, <1>2, <2>2 DEF History!AppendEvents
<1>4. /\ log' = [log EXCEPT ![item] = @ \cup added]
      /\ UNCHANGED <<generation, backup, eventScan, eventAnswer>>
  BY DEF History!AppendEvents
<1>5. added \in SUBSET History!Event /\ added # {} /\ \A e \in added : e.revision = number
  <2> HIDE DEF number
  <2>1. number \in 1..MaxRevision
    BY <1>1, <1>2, <1>3
  <2>2. \A i \in 0..(n - 1) : i \in 0..(MaxEvents - 1)
    BY <1>2
  <2>3. added \in SUBSET History!Event /\ \A e \in added : e.revision = number
    BY <2>1, <2>2 DEF History!Event
  <2>4. [revision |-> number, index |-> 0] \in added
    BY <1>2
  <2>5. QED BY <2>3, <2>4
<1> HIDE DEF added, number
<1>6. Histories(log')
  <2> DEFINE events == log[item] \cup added
  <2>1. events \in SUBSET History!Event /\ IsFiniteSet(events)
    BY <1>5, EventsAreFinite DEF HistoryInv, Histories
  <2>2. {e.revision : e \in events} = 1..(m + 1)
    <3>1. {e.revision : e \in events} = {e.revision : e \in log[item]} \cup {number}
      BY <1>5
    <3>2. QED BY <1>1, <1>3, <3>1
  <2>3. IsHistory(events)
    BY <1>1, <1>3, <2>1, <2>2 DEF IsHistory
  <2>4. QED BY <1>4, <2>1, <2>3 DEF HistoryInv, Histories
<1>7. ASSUME NEW e \in added, NEW sent \in log[item] PROVE History!Follows(e, sent)
  <2>1. sent.revision \in 1..m
    BY <1>1
  <2>2. QED BY <1>1, <1>3, <1>5, <2>1 DEF History!Follows
<1>8. ASSUME eventScan # None, eventScan.generation = generation
      PROVE  Joined(eventScan, log'[eventScan.item])
  <2> DEFINE events == log[eventScan.item]
  <2>1. Joined(eventScan, events) /\ eventScan \in History!Scan
    BY <1>8 DEF HistoryInv, ScanInv
  <2>2. CASE eventScan.item # item
    BY <1>4, <2>1, <2>2 DEF HistoryInv, Histories, History!Scan
  <2>3. CASE eventScan.item = item
    <3>1. log'[item] = events \cup added /\ events = log[item]
      BY <1>4, <2>3 DEF HistoryInv, Histories
    <3> HIDE DEF events
    <3>2. /\ eventScan.got \subseteq events \cup added /\ ~eventScan.repeated
          /\ \A sent \in eventScan.got, e \in (events \cup added) \ eventScan.got :
                History!Follows(e, sent)
      BY <1>7, <2>1, <3>1 DEF Joined
    <3>3. ASSUME eventScan.cursor # None
          PROVE  LET key == eventScan.cursor.boundary.key
                 IN  /\ key \in eventScan.got
                     /\ eventScan.got = {e \in events \cup added : ~History!Follows(e, key)}
      <4> DEFINE key == eventScan.cursor.boundary.key
      <4>1. key \in eventScan.got /\ eventScan.got = {e \in events : ~History!Follows(e, key)}
        BY <2>1, <3>3 DEF Joined
      <4>2. \A e \in added : History!Follows(e, key)
        BY <1>7, <3>1, <4>1
      <4> HIDE DEF key
      <4>3. eventScan.got = {e \in events \cup added : ~History!Follows(e, key)}
        BY <4>1, <4>2
      <4>4. QED BY <4>1, <4>3 DEF key
    <3>4. QED BY <2>3, <3>1, <3>2, <3>3 DEF Joined
  <2>4. QED BY <2>2, <2>3
<1>9. ScanInv'
  BY <1>4, <1>8 DEF HistoryInv, ScanInv
<1>10. QED BY <1>4, <1>6, <1>9 DEF HistoryInv

(* A restored history is in no scan's generation.                           *)
LEMMA StoreKeeps ==
    ASSUME HistoryInv, History!Backup \/ History!Restore
    PROVE  HistoryInv'
<1>1. CASE History!Backup
  BY <1>1 DEF HistoryInv, ScanInv, History!Backup
<1>2. CASE History!Restore
  <2>1. /\ generation' = generation + 1 /\ log' = backup
        /\ UNCHANGED <<backup, eventScan, eventAnswer>>
    BY <1>2 DEF History!Restore
  <2>2. ASSUME eventScan # None
        PROVE  eventScan.generation <= generation' /\ eventScan.generation # generation'
    BY <2>1, <2>2 DEF HistoryInv, ScanInv, History!Scan
  <2>3. ScanInv'
    BY <2>1, <2>2 DEF HistoryInv, ScanInv
  <2>4. QED BY <2>1, <2>3 DEF HistoryInv, Histories
<1>3. QED BY <1>1, <1>2

(* The first page starts with nothing sent, of a history that is there.     *)
LEMMA FirstPageKeeps ==
    ASSUME HistoryInv, NEW item \in Items \cup {Missing}, NEW limit \in Limits,
           History!FirstPage(item, limit)
    PROVE  /\ HistoryInv'
           /\ eventScan' # eventScan /\ eventScan' # None /\ eventScan'.cursor = None
              => eventScan'.got = log[eventScan'.item]
<1> DEFINE fresh == [item |-> item, generation |-> generation, cursor |-> None,
                     got |-> {}, repeated |-> FALSE]
<1>1. eventScan = None /\ UNCHANGED <<log, generation, backup>>
  BY DEF History!FirstPage
<1>2. CASE History!Found(item) /\ History!Deliver(item, limit, None, fresh)
  <2>1. item \in Items
    BY <1>2 DEF History!Found
  <2>2. /\ fresh \in History!Scan /\ fresh.item = item /\ fresh.generation = generation
        /\ fresh.got = {} /\ ~fresh.repeated
    BY <2>1 DEF History!Scan, HistoryInv
  <2>3. History!Selection(log[item], None) = log[item]
    BY DEF History!Selection
  <2>4. History!Deliver(item, limit, None, fresh)
    BY <1>2
  <2> HIDE DEF fresh
  <2>5. /\ HistoryInv' /\ eventScan' # None /\ eventScan'.item = item
        /\ eventScan'.cursor = None => eventScan'.got = log[item]
    BY <1>1, <2>1, <2>2, <2>3, <2>4, DeliverJoins
  <2>6. QED BY <1>1, <2>5
<1>3. CASE UNCHANGED eventScan
  BY <1>1, <1>3 DEF HistoryInv, ScanInv, Histories
<1>4. QED BY <1>2, <1>3 DEF History!FirstPage

(* A cursor that is honoured names the last event that was sent.            *)
LEMMA HonouredContinues ==
    ASSUME HistoryInv, eventScan # None, eventScan.cursor # None, NEW item \in Items,
           History!CursorError(History!HistoryContext(History!Store, generation, item),
                               eventScan.cursor) = None
    PROVE  /\ eventScan.item = item /\ eventScan.generation = generation
           /\ Joined(eventScan, log[item])
           /\ History!Selection(log[item], eventScan.cursor.boundary.key)
              = log[item] \ eventScan.got
<1> USE ReadsAssumption DEF Lists!QueryAssumption, History!HistoryAssumption
<1> DEFINE context == History!HistoryContext(History!Store, generation, item)
           key == eventScan.cursor.boundary.key
<1>1. None \notin History!CursorErrors /\ None \notin History!Event
  OBVIOUS
<1>2. History!BindError(context, eventScan.cursor) = None
  BY <1>1 DEF History!CursorError
<1>3. eventScan.cursor.generation = generation /\ eventScan.cursor.query = context.query
  BY <1>1, <1>2 DEF History!BindError, History!CursorErrors, History!HistoryContext
<1>4. context.query = <<"history", History!Store, item>>
  BY DEF History!HistoryContext
<1>5. /\ eventScan.cursor.generation = eventScan.generation
      /\ eventScan.cursor.query = <<"history", History!Store, eventScan.item>>
      /\ eventScan.generation = generation => Joined(eventScan, log[eventScan.item])
  BY DEF HistoryInv, ScanInv
<1>6. eventScan.item = item /\ eventScan.generation = generation /\ Joined(eventScan, log[item])
  BY <1>3, <1>4, <1>5
<1>7. /\ key \in eventScan.got /\ eventScan.got \subseteq log[item]
      /\ eventScan.got = {e \in log[item] : ~History!Follows(e, key)}
  BY <1>6 DEF Joined
<1>8. log[item] \in SUBSET History!Event
  BY DEF HistoryInv, Histories
<1> HIDE DEF key
<1>9. key \in History!Event /\ key # None
  BY <1>1, <1>7, <1>8
<1>10. ~(key.revision > MaxI64) /\ ~(key.index > MaxI64)
  BY <1>9 DEF History!Event
<1>11. History!Selection(log[item], key) = {e \in log[item] : History!Follows(e, key)}
  BY <1>9, <1>10 DEF History!Selection
<1>12. QED BY <1>6, <1>7, <1>11 DEF key

LEMMA NextPageKeeps ==
    ASSUME HistoryInv, NEW item \in Items \cup {Missing}, NEW limit \in Limits,
           History!NextPage(item, limit)
    PROVE  /\ HistoryInv'
           /\ eventScan' # eventScan /\ eventScan' # None /\ eventScan'.cursor = None
              => eventScan'.got = log[eventScan'.item]
<1> DEFINE key == eventScan.cursor.boundary.key
           error == History!CursorError(
                        History!HistoryContext(History!Store, generation, item),
                        eventScan.cursor)
<1>1. eventScan # None /\ eventScan.cursor # None /\ UNCHANGED <<log, generation, backup>>
  BY DEF History!NextPage, History!Holding
<1>2. CASE error = None /\ History!Found(item) /\ History!Deliver(item, limit, key, eventScan)
  <2>1. item \in Items
    BY <1>2 DEF History!Found
  <2>2. /\ eventScan.item = item /\ eventScan.generation = generation
        /\ Joined(eventScan, log[item])
        /\ History!Selection(log[item], key) = log[item] \ eventScan.got
    BY <1>1, <1>2, <2>1, HonouredContinues
  <2>3. /\ eventScan.got \subseteq log[item] /\ ~eventScan.repeated
        /\ \A sent \in eventScan.got, e \in log[item] \ eventScan.got : History!Follows(e, sent)
    BY <2>2 DEF Joined
  <2>4. eventScan \in History!Scan
    BY <1>1 DEF HistoryInv, ScanInv
  <2>5. History!Deliver(item, limit, key, eventScan)
    BY <1>2
  <2> HIDE DEF key, error
  <2>6. /\ HistoryInv' /\ eventScan' # None /\ eventScan'.item = item
        /\ eventScan'.cursor = None => eventScan'.got = log[item]
    BY <1>1, <2>1, <2>2, <2>3, <2>4, <2>5, DeliverJoins
  <2>7. QED BY <1>1, <2>6
<1>3. CASE /\ UNCHANGED eventScan
           /\ \E why : eventAnswer' = History!Outcome(item, why, None, {})
  BY <1>1, <1>3 DEF HistoryInv, ScanInv, Histories, History!Outcome
<1>4. QED BY <1>2, <1>3 DEF History!NextPage

LEMMA HistoryStep ==
    ASSUME HistoryInv, [History!Next]_(History!vars)
    PROVE  /\ HistoryInv'
           /\ eventScan' # eventScan /\ eventScan' # None /\ eventScan'.cursor = None
              => eventScan'.got = log[eventScan'.item]
<1>1. ASSUME NEW item \in Items, NEW n \in 1..MaxEvents, History!AppendEvents(item, n)
      PROVE  HistoryInv' /\ UNCHANGED eventScan
  BY <1>1, AppendKeeps DEF History!AppendEvents
<1>2. CASE History!Backup \/ History!Restore
  BY <1>2, StoreKeeps DEF History!Backup, History!Restore
<1>3. ASSUME NEW item \in Items \cup {Missing}, NEW limit \in Limits,
             History!FirstPage(item, limit) \/ History!NextPage(item, limit)
      PROVE  /\ HistoryInv'
             /\ eventScan' # eventScan /\ eventScan' # None /\ eventScan'.cursor = None
                => eventScan'.got = log[eventScan'.item]
  BY <1>3, FirstPageKeeps, NextPageKeeps
<1>4. CASE History!ListPage
  BY <1>4 DEF History!ListPage, History!Outcome, HistoryInv, ScanInv, Histories
<1>5. CASE History!Abandon
  BY <1>5 DEF History!Abandon, HistoryInv, ScanInv, Histories
<1>6. CASE UNCHANGED History!vars
  BY <1>6 DEF History!vars, HistoryInv, ScanInv, Histories
<1>7. QED BY <1>1, <1>2, <1>3, <1>4, <1>5, <1>6 DEF History!Next

LEMMA HistoriesAreJoined == ReadsSpec => []HistoryInv
<1>1. HistoryInv /\ [History!Next]_(History!vars) => HistoryInv'
  BY HistoryStep
<1>2. QED BY <1>1, HistoryInitInvariant, PartsMove, PTL

(* Whatever writers append and operators restore between its pages, a scan  *)
(* of a history skips nothing, repeats nothing and stays in one item's      *)
(* history of one generation (history_pages.rs, cursors.rs).                *)
THEOREM HistoryPagesJoin == ReadsSpec => []HistoryIsGapless
<1>1. QED BY HistoriesAreJoined, HistoryInvIsGapless, PTL

(* A page without a next cursor is the last one: all there is was sent, also*)
(* when the response budget cut the page short (history_pages.rs).          *)
THEOREM HistoryScansEndAtTheEnd == ReadsSpec => EndsAtTheEnd
<1> DEFINE Ends == eventScan' # eventScan /\ eventScan' # None /\ eventScan'.cursor = None
                   => eventScan'.got = log[eventScan'.item]
<1>1. HistoryInv /\ [History!Next]_(History!vars) => [Ends]_(History!vars)
  BY HistoryStep
<1>2. ReadsSpec => [][Ends]_(History!vars)
  <2> HIDE DEF Ends
  <2>1. QED BY <1>1, HistoriesAreJoined, PartsMove, PTL
<1>3. EndsAtTheEnd <=> [][Ends]_(History!vars)
  BY DEF EndsAtTheEnd, History!EndsAtTheEnd
<1>4. QED BY <1>2, <1>3

-----------------------------------------------------------------------------
(* The orders of item pages.  The comparator v1 wrote out by hand is what   *)
(* the sort specification says, and what the keyset predicate says after a  *)
(* boundary.                                                                *)

IsKey(k) ==
    /\ k.captured \in Nat /\ k.priority \in Lists!Ranks \cup {None}
    /\ k.requester \in Nat /\ k.project \in Nat /\ k.sequence \in Nat

(* What comparing two keys comes to, coordinate by coordinate.              *)
Alternatives(spec, n, l, r) ==
    \/ Lists!Before(spec[1], l, r)
    \/ Lists!Same(spec[1], l, r) /\ Lists!Before(spec[2], l, r)
    \/ /\ Lists!Same(spec[1], l, r) /\ Lists!Same(spec[2], l, r)
       /\ Lists!Before(spec[3], l, r)
    \/ /\ n > 3
       /\ Lists!Same(spec[1], l, r) /\ Lists!Same(spec[2], l, r) /\ Lists!Same(spec[3], l, r)
       /\ Lists!Before(spec[4], l, r)
    \/ /\ n > 4
       /\ Lists!Same(spec[1], l, r) /\ Lists!Same(spec[2], l, r) /\ Lists!Same(spec[3], l, r)
       /\ Lists!Same(spec[4], l, r)
       /\ Lists!Before(spec[5], l, r)

Lexicographic(spec, n, l, r) ==
    \E i \in 1..n : /\ \A j \in 1..(i - 1) : Lists!Same(spec[j], l, r)
                    /\ Lists!Before(spec[i], l, r)

LEMMA CoordinateByCoordinate ==
    ASSUME NEW spec, NEW n \in 3..5, NEW l, NEW r
    PROVE  Lexicographic(spec, n, l, r) <=> Alternatives(spec, n, l, r)
<1> DEFINE P(i) == Lists!Same(spec[i], l, r)
           Q(i) == Lists!Before(spec[i], l, r)
<1> HIDE DEF P, Q
<1>1. (\E i \in 1..n : (\A j \in 1..(i - 1) : P(j)) /\ Q(i)) <=>
         \/ Q(1) \/ (P(1) /\ Q(2)) \/ (P(1) /\ P(2) /\ Q(3))
         \/ (n > 3 /\ P(1) /\ P(2) /\ P(3) /\ Q(4))
         \/ (n > 4 /\ P(1) /\ P(2) /\ P(3) /\ P(4) /\ Q(5))
  OBVIOUS
<1>2. QED BY <1>1 DEF P, Q, Lexicographic, Alternatives

LEMMA PrecedesIsLexicographic ==
    ASSUME NEW ordering, NEW l, NEW r
    PROVE  Lists!Precedes(ordering, l, r) <=>
              Lexicographic(Lists!SortSpec(ordering), Len(Lists!SortSpec(ordering)), l, r)
BY DEF Lists!Precedes, Lexicographic

LEMMA Specifications ==
    LET list == Lists!SortSpec("newest_first")
        next == Lists!SortSpec("next")
    IN  /\ Len(list) = 4 /\ Len(next) = 5
        /\ list[1] = Lists!Descending("captured") /\ list[2] = Lists!Ascending("requester")
        /\ list[3] = Lists!Ascending("project") /\ list[4] = Lists!Ascending("sequence")
        /\ next[1] = Lists!Ascending("rank") /\ next[2] = Lists!Ascending("captured")
        /\ next[3] = Lists!Ascending("requester") /\ next[4] = Lists!Ascending("project")
        /\ next[5] = Lists!Ascending("sequence")
BY DEF Lists!SortSpec, Lists!ListOrder, Lists!NextOrder, Lists!IdentityOrder

(* Both orders, on keys.                                                    *)
LEMMA OrderIsV1s ==
    ASSUME NEW ordering \in Lists!Orderings, NEW l, NEW r, IsKey(l), IsKey(r)
    PROVE  Lists!Precedes(ordering, l, r) <=> Lists!OrderItems(ordering, l, r)
<1> USE DEF Lists!Before, Lists!Same, Lists!Ascending, Lists!Descending, Lists!Coordinate
<1>1. CASE ordering = "newest_first"
  <2> DEFINE spec == Lists!SortSpec("newest_first")
  <2>1. Lists!Precedes(ordering, l, r) <=> Alternatives(spec, 4, l, r)
    <3>1. Lists!Precedes(ordering, l, r) <=> Lexicographic(spec, 4, l, r)
      BY <1>1, Specifications, PrecedesIsLexicographic
    <3>2. QED BY <3>1, CoordinateByCoordinate
  <2>2. Alternatives(spec, 4, l, r) <=> Lists!OrderItems(ordering, l, r)
    BY <1>1, Specifications DEF Alternatives, Lists!OrderItems, IsKey
  <2>3. QED BY <2>1, <2>2
<1>2. CASE ordering = "next"
  <2> DEFINE spec == Lists!SortSpec("next")
  <2>1. Lists!Precedes(ordering, l, r) <=> Alternatives(spec, 5, l, r)
    <3>1. Lists!Precedes(ordering, l, r) <=> Lexicographic(spec, 5, l, r)
      BY <1>2, Specifications, PrecedesIsLexicographic
    <3>2. QED BY <3>1, CoordinateByCoordinate
  <2>2. Alternatives(spec, 5, l, r) <=> Lists!OrderItems(ordering, l, r)
    BY <1>2, Specifications DEF Alternatives, Lists!OrderItems, IsKey
  <2>3. QED BY <2>1, <2>2
<1>3. QED BY <1>1, <1>2 DEF Lists!Orderings

(* Beyond a boundary is after it, also when the boundary's sequence is      *)
(* larger than any that is stored.                                          *)
LEMMA BeyondIsAfter ==
    ASSUME NEW ordering \in Lists!Orderings, NEW row, NEW boundary, IsKey(row), IsKey(boundary),
           row.sequence <= MaxI64
    PROVE  Lists!Beyond(ordering, row, boundary) <=> Lists!Precedes(ordering, boundary, row)
<1> DEFINE spec == Lists!SortSpec(ordering)
           n == IF boundary.sequence > MaxI64 THEN Len(spec) - 1 ELSE Len(spec)
<1>1. Len(spec) \in 4..5 /\ n \in 3..5 /\ Lists!BoundTerms(ordering, boundary) = 1..n
  BY Specifications DEF Lists!Orderings, Lists!BoundTerms
<1>2. Lists!Beyond(ordering, row, boundary) <=>
         /\ ~Lists!Before(spec[1], row, boundary)
         /\ \E i \in 1..n : /\ \A j \in 1..(i - 1) : Lists!Same(spec[j], row, boundary)
                            /\ Lists!Before(spec[i], boundary, row)
  BY <1>1 DEF Lists!Beyond
<1>3. \A j : Lists!Same(spec[j], row, boundary) <=> Lists!Same(spec[j], boundary, row)
  BY DEF Lists!Same
<1>4. Lists!Beyond(ordering, row, boundary) <=>
         /\ ~Lists!Before(spec[1], row, boundary)
         /\ Alternatives(spec, n, boundary, row)
  <2>1. Lists!Beyond(ordering, row, boundary) <=>
         ~Lists!Before(spec[1], row, boundary) /\ Lexicographic(spec, n, boundary, row)
    <3> HIDE DEF spec, n
    <3>1. QED BY <1>2, <1>3, Zenon DEF Lexicographic
  <2>2. QED BY <1>1, <2>1, CoordinateByCoordinate
<1>5. Lists!Precedes(ordering, boundary, row) <=> Alternatives(spec, Len(spec), boundary, row)
  <2>1. Lists!Precedes(ordering, boundary, row) <=> Lexicographic(spec, Len(spec), boundary, row)
    BY PrecedesIsLexicographic
  <2>2. Len(spec) \in 3..5
    BY <1>1
  <2>3. Lexicographic(spec, Len(spec), boundary, row) <=> Alternatives(spec, Len(spec), boundary, row)
    <3> HIDE DEF spec
    <3>1. QED BY <2>2, CoordinateByCoordinate
  <2>4. QED BY <2>1, <2>3
<1>6. MaxI64 \in Nat
  BY ReadsAssumption DEF Lists!QueryAssumption
<1>7. None \notin Nat
  BY ReadsAssumption DEF Lists!QueryAssumption
<1>8. /\ Alternatives(spec, Len(spec), boundary, row) => ~Lists!Before(spec[1], row, boundary)
      /\ Alternatives(spec, Len(spec), boundary, row) <=> Alternatives(spec, n, boundary, row)
  <2> USE DEF Lists!Before, Lists!Same, Lists!Ascending, Lists!Descending, Lists!Coordinate
  <2>1. Lists!PriorityRank(row.priority) \in Int /\ Lists!PriorityRank(boundary.priority) \in Int
    BY <1>7 DEF IsKey, Lists!PriorityRank, Lists!Ranks
  <2>2. CASE ordering = "newest_first"
    BY <1>6, <2>2, Specifications DEF Alternatives, IsKey
  <2>3. CASE ordering = "next"
    BY <1>6, <2>1, <2>3, Specifications DEF Alternatives, IsKey
  <2>4. QED BY <2>2, <2>3 DEF Lists!Orderings
<1>9. QED BY <1>4, <1>5, <1>8

(* The order is strict, and total on different items.                       *)
LEMMA StrictOrder ==
    ASSUME NEW ordering \in Lists!Orderings, NEW k, NEW l, NEW r,
           IsKey(k), IsKey(l), IsKey(r)
    PROVE  /\ ~Lists!Precedes(ordering, l, l)
           /\ Lists!Precedes(ordering, k, l) /\ Lists!Precedes(ordering, l, r)
              => Lists!Precedes(ordering, k, r)
           /\ \/ Lists!Precedes(ordering, l, r) \/ Lists!Precedes(ordering, r, l)
              \/ Lists!IdOf(l) = Lists!IdOf(r)
<1>1. None \notin Nat
  BY ReadsAssumption DEF Lists!QueryAssumption
<1>2. \A x \in {k, l, r} : Lists!PriorityRank(x.priority) \in 0..5
  BY <1>1 DEF IsKey, Lists!PriorityRank, Lists!Ranks
<1>3. /\ ~Lists!OrderItems(ordering, l, l)
      /\ Lists!OrderItems(ordering, k, l) /\ Lists!OrderItems(ordering, l, r)
         => Lists!OrderItems(ordering, k, r)
      /\ \/ Lists!OrderItems(ordering, l, r) \/ Lists!OrderItems(ordering, r, l)
         \/ Lists!IdOf(l) = Lists!IdOf(r)
  BY <1>2 DEF Lists!OrderItems, IsKey, Lists!Orderings, Lists!IdOf
<1>4. QED BY <1>3, OrderIsV1s

-----------------------------------------------------------------------------
(* The place of a row among others: how many of them precede it.            *)

IsRows(rows) ==
    /\ rows \subseteq Lists!Row /\ IsFiniteSet(rows)
    /\ \A l, r \in rows : Lists!IdOf(l) = Lists!IdOf(r) => l = r

Place(ordering, rows, row) == Cardinality(Lists!Preceding(ordering, rows, row))

PlacesAreInOrder(ordering, rows) ==
    /\ \A r \in rows : /\ Place(ordering, rows, r) \in Nat
                       /\ Place(ordering, rows, r) < Cardinality(rows)
    /\ \A l, r \in rows : Lists!Precedes(ordering, l, r) <=>
                             Place(ordering, rows, l) < Place(ordering, rows, r)
    /\ \A l, r \in rows : Place(ordering, rows, l) = Place(ordering, rows, r) => l = r

LEMMA SameListCardinality == \A S : Lists!Cardinality(S) = Cardinality(S)
BY DEF Lists!Cardinality, Cardinality

LEMMA RowIsKey ==
    ASSUME NEW row \in Lists!Row
    PROVE  IsKey(row) /\ row.sequence <= MaxI64
BY ReadsAssumption DEF Lists!QueryAssumption, Lists!Row, IsKey

(* Rows of one ordering compare as a strict total order.                    *)
LEMMA RowOrder ==
    ASSUME NEW ordering \in Lists!Orderings, NEW rows, IsRows(rows),
           NEW k \in rows, NEW l \in rows, NEW r \in rows
    PROVE  /\ ~Lists!Precedes(ordering, l, l)
           /\ Lists!Precedes(ordering, k, l) /\ Lists!Precedes(ordering, l, r)
              => Lists!Precedes(ordering, k, r)
           /\ Lists!Precedes(ordering, l, r) \/ Lists!Precedes(ordering, r, l) \/ l = r
BY RowIsKey, StrictOrder DEF IsRows

LEMMA PlacesInOrder ==
    ASSUME NEW ordering \in Lists!Orderings, NEW rows, IsRows(rows)
    PROVE  PlacesAreInOrder(ordering, rows)
<1> DEFINE before(r) == Lists!Preceding(ordering, rows, r)
           place(r) == Place(ordering, rows, r)
<1>1. \A r \in rows : before(r) \subseteq rows /\ r \notin before(r)
  BY RowOrder DEF Lists!Preceding
<1>2. \A r \in rows : IsFiniteSet(before(r)) /\ place(r) \in Nat /\ place(r) < Cardinality(rows)
  <2> SUFFICES ASSUME NEW r \in rows
               PROVE  IsFiniteSet(before(r)) /\ place(r) \in Nat /\ place(r) < Cardinality(rows)
    OBVIOUS
  <2>1. /\ IsFiniteSet(before(r)) /\ Cardinality(before(r)) <= Cardinality(rows)
        /\ Cardinality(rows) # Cardinality(before(r))
    BY <1>1, FS_Subset DEF IsRows
  <2>2. Cardinality(before(r)) \in Nat /\ Cardinality(rows) \in Nat
    BY <2>1, FS_CardinalityType DEF IsRows
  <2>3. QED BY <2>1, <2>2 DEF Place
<1>3. \A l, r \in rows : Lists!Precedes(ordering, l, r) => place(l) < place(r)
  <2> SUFFICES ASSUME NEW l \in rows, NEW r \in rows, Lists!Precedes(ordering, l, r)
               PROVE  place(l) < place(r)
    OBVIOUS
  <2>1. before(l) \subseteq before(r)
    BY RowOrder DEF Lists!Preceding
  <2>2. l \in before(r) /\ l \notin before(l)
    BY <1>1 DEF Lists!Preceding
  <2>3. Cardinality(before(l)) <= Cardinality(before(r)) /\ Cardinality(before(r)) # Cardinality(before(l))
    BY <1>2, <2>1, <2>2, FS_Subset
  <2>4. QED BY <1>2, <2>3 DEF Place
<1>4. \A l, r \in rows : Lists!Precedes(ordering, l, r) \/ Lists!Precedes(ordering, r, l) \/ l = r
  BY RowOrder
<1> HIDE DEF place
<1>5. \A l, r \in rows : place(l) < place(r) => Lists!Precedes(ordering, l, r)
  BY <1>2, <1>3, <1>4
<1>6. \A l, r \in rows : place(l) = place(r) => l = r
  BY <1>2, <1>3, <1>4
<1>7. QED BY <1>2, <1>3, <1>5, <1>6 DEF PlacesAreInOrder, place

(* Every place below the number of rows is some row's.                      *)
LEMMA EveryPlaceIsTaken ==
    ASSUME NEW ordering \in Lists!Orderings, NEW rows, IsRows(rows),
           NEW n \in Nat, n < Cardinality(rows)
    PROVE  \E r \in rows : Place(ordering, rows, r) = n
<1> DEFINE place == [r \in rows |-> Place(ordering, rows, r)]
           size == Cardinality(rows)
<1>1. size \in Nat
  BY FS_CardinalityType DEF IsRows
<1>2. place \in Injection(rows, 0..(size - 1))
  <2>1. place \in [rows -> 0..(size - 1)]
    BY <1>1, PlacesInOrder DEF PlacesAreInOrder
  <2>2. \A l, r \in rows : place[l] = place[r] => l = r
    BY PlacesInOrder DEF PlacesAreInOrder
  <2>3. QED BY <2>1, <2>2 DEF Injection, IsInjective
<1>3. IsFiniteSet(0..(size - 1)) /\ Cardinality(0..(size - 1)) = size
  <2> HIDE DEF size
  <2>1. size - 1 \in Int /\ 0 \in Int
    BY <1>1
  <2>2. Cardinality(0..(size - 1)) = IF 0 > size - 1 THEN 0 ELSE (size - 1) - 0 + 1
    BY <2>1, FS_Interval
  <2>3. QED BY <1>1, <2>1, <2>2, FS_Interval
<1> HIDE DEF place
<1>4. place \in Surjection(rows, 0..(size - 1))
  BY <1>2, <1>3, FS_Injection
<1>5. PICK r \in rows : place[r] = n
  <2>1. n \in 0..(size - 1)
    BY <1>1
  <2>2. QED BY <1>4, <2>1 DEF Surjection
<1>6. QED BY <1>5 DEF place

-----------------------------------------------------------------------------
(* A client that pages through items while they change and stores come and  *)
(* go.  What it was promised and not sent yet is still ahead of its cursor; *)
(* of a newest-first list, what it was sent is not.                         *)

Key(scan) == scan.cursor.boundary.key

Ahead(scan, items) ==
    \A id \in scan.steady :
        /\ items[id] # None
        /\ Lists!Matches(Lists!Effective(scan.request.view, scan.request.me, scan.request.filters),
                         items[id])
        /\ id \in scan.got \/ Lists!Precedes(scan.request.ordering, Key(scan), items[id])

Behind(scan, items) ==
    scan.request.ordering = "newest_first" =>
        \A id \in scan.got :
            items[id] # None /\ ~Lists!Precedes(scan.request.ordering, Key(scan), items[id])

(* The cursor is bound to what the scan began with.                         *)
Bound(scan) ==
    /\ scan.cursor.version = Lists!CursorVersion
    /\ scan.cursor.kind = Lists!KindOf(scan.request.ordering)
    /\ scan.cursor.store = scan.store
    /\ scan.cursor.generation = scan.generation
    /\ scan.cursor.query = Lists!Fingerprint(scan.store, scan.request)
    /\ Key(scan).sequence > 0

KeptFor(scan, store) ==
    /\ Lists!ValidFilters(scan.request.filters)
    /\ scan.request.ordering = "newest_first" => ~scan.repeated
    /\ scan.generation > 0 /\ scan.generation <= store.generation
    /\ scan.generation = store.generation => scan.store = store.store
    /\ scan.cursor = None => scan.steady \subseteq scan.got
    /\ scan.cursor # None => Bound(scan)
    /\ scan.cursor # None /\ scan.generation = store.generation =>
          Ahead(scan, store.items) /\ Behind(scan, store.items)

IsStore(store) ==
    /\ store \in [store : Lists!Stores, generation : Nat \ {0},
                  items : [Lists!ItemIds -> Lists!Row \cup {None}]]
    /\ Lists!IsTable(store.items)

ListInv ==
    /\ IsStore(db)
    /\ itemScan # None => itemScan \in Lists!Scan /\ KeptFor(itemScan, db)

AnswerInv ==
    itemAnswer # None =>
        itemScan # None /\ itemAnswer \in Lists!Answer /\ CursorIsHonouredInScope
LEMMA ItemsAreFinite == IsFiniteSet(Lists!ItemIds)
<1>1. IsFiniteSet(Requesters) /\ IsFiniteSet(Projects)
  BY ReadsAssumption DEF Lists!PagesAssumption, Lists!IsFiniteSet, IsFiniteSet
<1>2. 1 \in Int /\ MaxSequence \in Int
  BY ReadsAssumption DEF Lists!QueryAssumption, Lists!PagesAssumption
<1>3. IsFiniteSet(1..MaxSequence)
  BY <1>2, FS_Interval
<1>4. IsFiniteSet(Requesters \X Projects) /\ IsFiniteSet((Requesters \X Projects) \X (1..MaxSequence))
  BY <1>1, <1>3, FS_Product
<1> DEFINE triple == [p \in (Requesters \X Projects) \X (1..MaxSequence) |-> <<p[1][1], p[1][2], p[2]>>]
<1>5. triple \in Surjection((Requesters \X Projects) \X (1..MaxSequence), Lists!ItemIds)
  <2>1. triple \in [(Requesters \X Projects) \X (1..MaxSequence) -> Lists!ItemIds]
    BY DEF Lists!ItemIds
  <2>2. ASSUME NEW id \in Lists!ItemIds
        PROVE  \E p \in (Requesters \X Projects) \X (1..MaxSequence) : triple[p] = id
    <3>1. PICK r \in Requesters, q \in Projects, n \in 1..MaxSequence : id = <<r, q, n>>
      BY DEF Lists!ItemIds
    <3>2. <<<<r, q>>, n>> \in (Requesters \X Projects) \X (1..MaxSequence)
      OBVIOUS
    <3>3. triple[<<<<r, q>>, n>>] = id
      BY <3>1, <3>2
    <3>4. QED BY <3>2, <3>3
  <2> HIDE DEF triple
  <2>3. QED BY <2>1, <2>2 DEF Surjection
<1>6. QED BY <1>4, <1>5, FS_Surjection

LEMMA TableOfRows ==
    ASSUME IsStore(db)
    PROVE  /\ IsRows(Lists!Table)
           /\ \A id \in Lists!ItemIds : db.items[id] # None =>
                 /\ db.items[id] \in Lists!Table /\ Lists!IdOf(db.items[id]) = id
           /\ \A r \in Lists!Table : Lists!IdOf(r) \in Lists!ItemIds /\ db.items[Lists!IdOf(r)] = r
<1>1. /\ db.items \in [Lists!ItemIds -> Lists!Row \cup {None}]
      /\ \A id \in Lists!ItemIds : db.items[id] # None => Lists!IdOf(db.items[id]) = id
  BY DEF IsStore, Lists!IsTable
<1>2. \A r \in Lists!Table : \E id \in Lists!ItemIds : r = db.items[id] /\ r # None
  BY DEF Lists!Table
<1>3. \A r \in Lists!Table :
         r \in Lists!Row /\ Lists!IdOf(r) \in Lists!ItemIds /\ db.items[Lists!IdOf(r)] = r
  BY <1>1, <1>2
<1>4. IsFiniteSet(Lists!Table)
  <2> DEFINE id == [r \in Lists!Table |-> Lists!IdOf(r)]
  <2>1. id \in Injection(Lists!Table, Lists!ItemIds)
    <3>1. id \in [Lists!Table -> Lists!ItemIds]
      BY <1>3
    <3>2. \A l, r \in Lists!Table : id[l] = id[r] => l = r
      BY <1>3
    <3> HIDE DEF id
    <3>3. QED BY <3>1, <3>2 DEF Injection, IsInjective
  <2> HIDE DEF id
  <2>2. QED BY <2>1, ItemsAreFinite, FS_Injection
<1>5. IsRows(Lists!Table)
  BY <1>3, <1>4 DEF IsRows
<1>6. \A id \in Lists!ItemIds : db.items[id] # None => db.items[id] \in Lists!Table
  BY DEF Lists!Table
<1>7. QED BY <1>1, <1>3, <1>5, <1>6

-----------------------------------------------------------------------------
(* A page of rows.                                                          *)

(* The first n of some rows are an initial part of them, and not none       *)
(* unless there are none.                                                   *)
LEMMA FirstRows ==
    ASSUME NEW ordering \in Lists!Orderings, NEW rows, IsRows(rows), NEW n \in Nat \ {0}
    PROVE  /\ Lists!Slice(ordering, rows, 0, n) = {r \in rows : Place(ordering, rows, r) < n}
           /\ rows # {} => Lists!Slice(ordering, rows, 0, n) # {}
<1>1. Lists!Slice(ordering, rows, 0, n) = {r \in rows : Place(ordering, rows, r) \in 0..(n - 1)}
  BY SameListCardinality DEF Lists!Slice, Place
<1>2. \A r \in rows : Place(ordering, rows, r) \in Nat
  BY PlacesInOrder DEF PlacesAreInOrder
<1>3. Lists!Slice(ordering, rows, 0, n) = {r \in rows : Place(ordering, rows, r) < n}
  BY <1>1, <1>2
<1>4. ASSUME rows # {} PROVE \E r \in rows : Place(ordering, rows, r) = 0
  <2>1. 0 < Cardinality(rows)
    BY <1>2, <1>4, PlacesInOrder, FS_CardinalityType DEF PlacesAreInOrder, IsRows
  <2>2. QED BY <2>1, EveryPlaceIsTaken
<1>5. QED BY <1>3, <1>4

(* What is sent of a selection ends with a row that no other row sent is    *)
(* after and every row left is.                                             *)
SentUpTo(ordering, rows, emitted) ==
    LET end == Lists!LastOf(ordering, emitted)
    IN  /\ end \in emitted
        /\ \A r \in emitted : ~Lists!Precedes(ordering, end, r)
        /\ \A r \in rows \ emitted : Lists!Precedes(ordering, end, r)

(* A page of them sends such a part, if any is left.                        *)
PartSent(request, rows, page, emitted) ==
    /\ emitted \subseteq page.records /\ page.records \subseteq rows
    /\ emitted = {} => rows = {}
    /\ emitted # {} => SentUpTo(request.ordering, rows, emitted)

LEMMA PageEnds ==
    ASSUME NEW request, request.ordering \in Lists!Orderings, request.limit \in 1..100,
           NEW rows, IsRows(rows), NEW page,
           page.records = Lists!Slice(request.ordering, rows, 0, request.limit),
           NEW emitted \in Lists!Emissions(request, page)
    PROVE  PartSent(request, rows, page, emitted)
<1> DEFINE ordering == request.ordering
           records == page.records
<1>1. records = {r \in rows : Place(ordering, rows, r) < request.limit}
      /\ (rows # {} => records # {})
  <2>1. request.limit \in Nat \ {0} /\ ordering \in Lists!Orderings
    OBVIOUS
  <2> HIDE DEF ordering
  <2>2. QED BY <2>1, FirstRows DEF ordering
<1>2. emitted \in IF records = {} THEN {{}} ELSE {{r \in records : ~Lists!Precedes(ordering, f, r)} : f \in records}
  BY DEF Lists!Emissions, Lists!Prefix
<1> HIDE DEF records
<1>3. CASE records = {}
  BY <1>1, <1>2, <1>3 DEF records, PartSent
<1>4. CASE records # {}
  <2>1. PICK f \in records : emitted = {r \in records : ~Lists!Precedes(ordering, f, r)}
    BY <1>2, <1>4
  <2>2. f \in rows /\ f \in emitted
    BY <1>1, <2>1, RowOrder
  <2>3. \A r \in rows \ emitted : Lists!Precedes(ordering, f, r)
    <3> SUFFICES ASSUME NEW r \in rows \ emitted, ~Lists!Precedes(ordering, f, r)
                 PROVE  FALSE
      OBVIOUS
    <3>1. r \notin records
      BY <2>1
    <3>2. Place(ordering, rows, f) < request.limit /\ ~(Place(ordering, rows, r) < request.limit)
      BY <1>1, <2>1, <3>1
    <3>3. Place(ordering, rows, f) < Place(ordering, rows, r)
      BY <2>2, <3>2, PlacesInOrder DEF PlacesAreInOrder
    <3>4. QED BY <2>2, <3>3, PlacesInOrder DEF PlacesAreInOrder
  <2>4. \A r \in emitted : ~Lists!Precedes(ordering, f, r)
    BY <2>1
  <2>5. f = Lists!LastOf(ordering, emitted)
    <3>1. \A r \in emitted : (\A o \in emitted : ~Lists!Precedes(ordering, r, o)) <=> r = f
      BY <1>1, <2>1, <2>2, <2>4, RowOrder
    <3>2. QED BY <2>2, <3>1 DEF Lists!LastOf
  <2>6. SentUpTo(ordering, rows, emitted)
    BY <2>2, <2>3, <2>4, <2>5 DEF SentUpTo
  <2>7. QED BY <1>1, <2>1, <2>2, <2>6 DEF records, PartSent
<1>5. QED BY <1>3, <1>4

-----------------------------------------------------------------------------
(* Delivering a page keeps what its scan was promised.                      *)

LEMMA KeyOfRow ==
    ASSUME NEW ordering \in Lists!Orderings, NEW l \in Lists!Row, NEW r \in Lists!Row
    PROVE  /\ Lists!KeyOf(l) \in Lists!Key /\ IsKey(Lists!KeyOf(l)) /\ Lists!KeyOf(l).sequence > 0
           /\ Lists!Precedes(ordering, Lists!KeyOf(l), r) <=> Lists!Precedes(ordering, l, r)
<1>1. IsKey(l) /\ IsKey(r)
  BY RowIsKey
<1>2. Lists!KeyOf(l) \in Lists!Key /\ IsKey(Lists!KeyOf(l)) /\ Lists!KeyOf(l).sequence > 0
  BY ReadsAssumption DEF Lists!QueryAssumption, Lists!KeyOf, Lists!Key, Lists!Row, IsKey
<1>3. Lists!OrderItems(ordering, Lists!KeyOf(l), r) <=> Lists!OrderItems(ordering, l, r)
  BY DEF Lists!OrderItems, Lists!KeyOf
<1>4. QED BY <1>1, <1>2, <1>3, OrderIsV1s

PredicateOf(request) == Lists!Effective(request.view, request.me, request.filters)

LEMMA CandidateRows ==
    ASSUME IsStore(db), NEW request \in Requests, NEW after \in Lists!Key \cup {None}
    PROVE  /\ Lists!Candidates(Lists!Table, request, after) =
                {r \in Lists!Table :
                    /\ Lists!Matches(PredicateOf(request), r)
                    /\ after # None => Lists!Precedes(request.ordering, after, r)}
           /\ IsRows(Lists!Candidates(Lists!Table, request, after))
<1>1. request.ordering \in Lists!Orderings
  BY ReadsAssumption DEF Lists!PagesAssumption, Lists!Request
<1>2. ASSUME NEW r \in Lists!Table, after # None
      PROVE  Lists!Beyond(request.ordering, r, after) <=> Lists!Precedes(request.ordering, after, r)
  <2>1. IsKey(after)
    BY <1>2 DEF IsKey, Lists!Key
  <2>2. IsKey(r) /\ r.sequence <= MaxI64
    BY TableOfRows, RowIsKey DEF IsRows
  <2>3. QED BY <1>1, <2>1, <2>2, BeyondIsAfter
<1>3. Lists!Candidates(Lists!Table, request, after) =
        {r \in Lists!Table :
            /\ Lists!Matches(PredicateOf(request), r)
            /\ after # None => Lists!Precedes(request.ordering, after, r)}
  BY <1>2 DEF Lists!Candidates, PredicateOf
<1>4. IsRows(Lists!Candidates(Lists!Table, request, after))
  <2>1. Lists!Candidates(Lists!Table, request, after) \subseteq Lists!Table
    BY <1>3
  <2>2. QED BY <2>1, TableOfRows, FS_Subset DEF IsRows
<1>5. QED BY <1>3, <1>4

(* What a page continues: a scan of the same query of the same history.     *)
IsPageOf(request, after, sofar) ==
    /\ sofar \in Lists!Scan /\ Lists!ValidFilters(sofar.request.filters)
    /\ sofar.generation > 0 /\ sofar.generation = db.generation /\ sofar.store = db.store
    /\ sofar.request.ordering = request.ordering
    /\ Lists!Fingerprint(sofar.store, sofar.request) = Lists!Fingerprint(db.store, request)
    /\ PredicateOf(sofar.request) = PredicateOf(request)
    /\ request.ordering = "newest_first" => ~sofar.repeated
    /\ \A id \in sofar.steady :
          /\ db.items[id] # None /\ Lists!Matches(PredicateOf(request), db.items[id])
          /\ \/ id \in sofar.got
             \/ after # None => Lists!Precedes(request.ordering, after, db.items[id])
    /\ request.ordering = "newest_first" =>
          \A id \in sofar.got :
              /\ after # None /\ db.items[id] # None
              /\ ~Lists!Precedes(request.ordering, after, db.items[id])

LEMMA DeliverKeeps ==
    ASSUME IsStore(db), NEW request \in Requests, NEW after \in Lists!Key \cup {None},
           NEW sofar, IsPageOf(request, after, sofar), Lists!Deliver(request, after, sofar)
    PROVE  /\ itemScan' \in Lists!Scan /\ KeptFor(itemScan', db)
           /\ itemScan'.request = sofar.request
           /\ itemScan'.store = sofar.store /\ itemScan'.generation = sofar.generation
           /\ \E rows \in SUBSET Lists!Row : itemAnswer' = Lists!Outcome(request, None, after, rows)
<1> DEFINE ordering == request.ordering
           left == Lists!Candidates(Lists!Table, request, after)
           page == Lists!KeysetPage(Lists!Table, request, after)
           new(emitted) == [sofar EXCEPT
               !.cursor = Lists!NextCursor(request, page, emitted),
               !.got = @ \cup {Lists!IdOf(r) : r \in emitted},
               !.repeated = @ \/ \E r \in emitted : Lists!IdOf(r) \in sofar.got]
<1>1. ordering \in Lists!Orderings /\ request.limit \in 1..100
  BY ReadsAssumption DEF Lists!PagesAssumption, Lists!Request
<1>2. PICK emitted \in Lists!Emissions(request, page) :
          itemScan' = new(emitted) /\ itemAnswer' = Lists!Outcome(request, None, after, emitted)
  BY DEF Lists!Deliver
<1>3. /\ page.records = Lists!Slice(ordering, left, 0, request.limit)
      /\ page.has_more <=> left # page.records
  BY DEF Lists!KeysetPage
<1>4. /\ left = {r \in Lists!Table : /\ Lists!Matches(PredicateOf(request), r)
                                     /\ after # None => Lists!Precedes(ordering, after, r)}
      /\ IsRows(left)
  BY CandidateRows
<1> HIDE DEF left, page
<1>5. /\ emitted \subseteq left
      /\ page.has_more \/ emitted # page.records <=> emitted # left
      /\ emitted = {} => left = {}
      /\ emitted # {} => SentUpTo(ordering, left, emitted)
  <2>1. /\ emitted \subseteq page.records /\ page.records \subseteq left
        /\ emitted = {} => left = {}
        /\ emitted # {} => SentUpTo(ordering, left, emitted)
    <3>1. PartSent(request, left, page, emitted)
      BY <1>1, <1>3, <1>4, PageEnds
    <3>2. QED BY <3>1 DEF PartSent
  <2>2. QED BY <1>3, <2>1
<1> DEFINE end == Lists!LastOf(ordering, emitted)
           key == Lists!KeyOf(end)
           cursor == Lists!NextCursor(request, page, emitted)
           scan == new(emitted)
<1>6. /\ emitted = left => cursor = None
      /\ emitted # left => cursor = Lists!Encode(Lists!ItemContext(db.store, db.generation, request),
                                                 Lists!ItemBoundary(key))
  BY <1>5 DEF Lists!NextCursor
<1>7. /\ sofar \in Lists!Scan
      /\ scan.cursor = cursor /\ scan.got = sofar.got \cup {Lists!IdOf(r) : r \in emitted}
      /\ scan.repeated = (sofar.repeated \/ \E r \in emitted : Lists!IdOf(r) \in sofar.got)
      /\ scan.request = sofar.request /\ scan.store = sofar.store
      /\ scan.generation = sofar.generation /\ scan.steady = sofar.steady
  BY DEF IsPageOf, Lists!Scan
<1>8. \A r \in left : /\ r \in Lists!Table /\ r \in Lists!Row
                      /\ Lists!IdOf(r) \in Lists!ItemIds /\ db.items[Lists!IdOf(r)] = r
  <2>1. left \subseteq Lists!Table
    BY <1>4
  <2>2. QED BY <2>1, TableOfRows DEF IsRows
<1>9. \A id \in sofar.steady :
         id \in sofar.got \/ (db.items[id] \in left /\ Lists!IdOf(db.items[id]) = id)
  <2> SUFFICES ASSUME NEW id \in sofar.steady, id \notin sofar.got
               PROVE  db.items[id] \in left /\ Lists!IdOf(db.items[id]) = id
    OBVIOUS
  <2>1. /\ id \in Lists!ItemIds /\ db.items[id] # None
        /\ Lists!Matches(PredicateOf(request), db.items[id])
        /\ after # None => Lists!Precedes(ordering, after, db.items[id])
    BY DEF IsPageOf, Lists!Scan
  <2>2. db.items[id] \in Lists!Table /\ Lists!IdOf(db.items[id]) = id
    BY <2>1, TableOfRows
  <2>3. QED BY <1>4, <2>1, <2>2
<1>10. ordering = "newest_first" => ~scan.repeated
  <2> SUFFICES ASSUME ordering = "newest_first", NEW r \in emitted, Lists!IdOf(r) \in sofar.got
               PROVE  FALSE
    BY <1>7 DEF IsPageOf
  <2>1. after # None /\ ~Lists!Precedes(ordering, after, r)
    BY <1>5, <1>8 DEF IsPageOf
  <2>2. QED BY <1>4, <1>5, <2>1
<1>11. CASE emitted = left
  <2>1. cursor = None /\ scan.steady \subseteq scan.got
    BY <1>6, <1>7, <1>9, <1>11
  <2>2. {Lists!IdOf(r) : r \in emitted} \subseteq Lists!ItemIds
    BY <1>5, <1>8
  <2>3. scan \in Lists!Scan
    BY <1>7, <2>1, <2>2 DEF Lists!Scan
  <2>4. KeptFor(scan, db)
    BY <1>7, <1>10, <2>1 DEF KeptFor, IsPageOf, IsStore
  <2>5. QED BY <1>2, <1>5, <1>7, <1>8, <2>3, <2>4
<1>12. CASE emitted # left
  <2>1. SentUpTo(ordering, left, emitted) /\ end \in left
    BY <1>5, <1>12 DEF SentUpTo
  <2>2. /\ key \in Lists!Key /\ key.sequence > 0
        /\ \A r \in left : Lists!Precedes(ordering, key, r) <=> Lists!Precedes(ordering, end, r)
    BY <1>1, <1>8, <2>1, KeyOfRow
  <2>3. cursor = Lists!Encode(Lists!ItemContext(db.store, db.generation, request), Lists!ItemBoundary(key))
    BY <1>6, <1>12
  <2> HIDE DEF end, key, cursor
  <2>4. /\ cursor \in Lists!Token /\ cursor # None /\ cursor.boundary.key = key
        /\ cursor.version = Lists!CursorVersion /\ cursor.kind = Lists!KindOf(ordering)
        /\ cursor.store = db.store /\ cursor.generation = db.generation
        /\ cursor.query = Lists!Fingerprint(db.store, request)
    <3>1. db.store \in Lists!Stores /\ db.generation \in Nat
      BY DEF IsStore
    <3>2. Lists!Fingerprint(db.store, request) \in
            {Lists!Fingerprint(store, asked) : store \in Lists!Stores, asked \in Requests}
      BY <3>1
    <3>3. cursor \in Lists!Token
      BY <2>2, <2>3, <3>1, <3>2
      DEF Lists!Token, Lists!Encode, Lists!ItemContext, Lists!ItemBoundary, Lists!KindOf, Lists!CursorVersion
    <3>4. None \notin Lists!Token
      BY ReadsAssumption DEF Lists!PagesAssumption
    <3>5. QED BY <2>3, <3>3, <3>4 DEF Lists!Encode, Lists!ItemContext, Lists!ItemBoundary
  <2>5. {Lists!IdOf(r) : r \in emitted} \subseteq Lists!ItemIds
    BY <1>5, <1>8
  <2>6. scan \in Lists!Scan
    BY <1>7, <2>4, <2>5 DEF Lists!Scan
  <2>7. Bound(scan) /\ Key(scan) = key
    BY <1>7, <2>2, <2>4 DEF Bound, Key, IsPageOf
  <2>8. Ahead(scan, db.items)
    <3> SUFFICES ASSUME NEW id \in scan.steady
                 PROVE  /\ db.items[id] # None
                        /\ Lists!Matches(PredicateOf(scan.request), db.items[id])
                        /\ id \in scan.got \/ Lists!Precedes(scan.request.ordering, Key(scan), db.items[id])
      BY DEF Ahead, PredicateOf
    <3>1. id \in sofar.steady /\ db.items[id] # None /\ Lists!Matches(PredicateOf(scan.request), db.items[id])
      BY <1>7 DEF IsPageOf
    <3>2. CASE db.items[id] \in emitted
      BY <1>7, <1>9, <3>1, <3>2
    <3>3. CASE db.items[id] \in left \ emitted
      <4>1. Lists!Precedes(ordering, key, db.items[id])
        BY <2>1, <2>2, <3>3 DEF SentUpTo, end
      <4>2. QED BY <1>7, <2>7, <3>1, <4>1 DEF IsPageOf
    <3>4. QED BY <1>7, <1>9, <3>1, <3>2, <3>3
  <2>9. Behind(scan, db.items)
    <3> SUFFICES ASSUME ordering = "newest_first", NEW id \in scan.got
                 PROVE  db.items[id] # None /\ ~Lists!Precedes(ordering, key, db.items[id])
      BY <1>7, <2>7 DEF Behind, IsPageOf
    <3>1. CASE id \in sofar.got
      <4>1. after # None /\ db.items[id] # None /\ ~Lists!Precedes(ordering, after, db.items[id])
        BY <3>1 DEF IsPageOf
      <4>2. Lists!Precedes(ordering, after, end)
        BY <1>4, <2>1, <4>1
      <4>3. ASSUME Lists!Precedes(ordering, end, db.items[id]) PROVE FALSE
        <5>1. IsKey(after) /\ IsKey(end) /\ IsKey(db.items[id])
          <6>1. id \in Lists!ItemIds
            BY <3>1, <1>7 DEF Lists!Scan
          <6>2. db.items[id] \in Lists!Row
            BY <4>1, <6>1 DEF IsStore
          <6>3. QED BY <1>8, <2>1, <4>1, <6>2, RowIsKey DEF IsKey, Lists!Key
        <5>2. QED BY <1>1, <4>1, <4>2, <4>3, <5>1, StrictOrder
      <4>4. Lists!Precedes(ordering, key, db.items[id]) <=> Lists!Precedes(ordering, end, db.items[id])
        <5>1. id \in Lists!ItemIds
          BY <3>1, <1>7 DEF Lists!Scan
        <5>2. db.items[id] \in Lists!Row
          BY <4>1, <5>1 DEF IsStore
        <5>3. QED BY <1>1, <1>8, <2>1, <5>2, KeyOfRow DEF key
      <4>5. QED BY <4>1, <4>3, <4>4
    <3>2. CASE \E r \in emitted : id = Lists!IdOf(r)
      <4>1. PICK r \in emitted : id = Lists!IdOf(r)
        BY <3>2
      <4>2. db.items[id] = r /\ r \in left
        BY <1>5, <1>8, <4>1
      <4>3. db.items[id] # None
        <5>1. None \notin Lists!Row
          BY ReadsAssumption DEF Lists!PagesAssumption
        <5>2. QED BY <1>8, <4>2, <5>1
      <4>4. ~Lists!Precedes(ordering, key, r)
        BY <2>1, <2>2, <4>1, <4>2 DEF SentUpTo, end
      <4>5. QED BY <4>2, <4>3, <4>4
    <3>3. QED BY <1>7, <3>1, <3>2
  <2>10. KeptFor(scan, db)
    BY <1>7, <1>10, <2>4, <2>7, <2>8, <2>9 DEF KeptFor, IsPageOf, IsStore
  <2>11. QED BY <1>2, <1>5, <1>7, <1>8, <2>6, <2>10
<1>13. QED BY <1>11, <1>12

-----------------------------------------------------------------------------
(* Writers and operators.                                                   *)

LEMMA CaptureKeeps ==
    ASSUME ListInv, NEW requester \in Requesters, NEW project \in Projects,
           NEW captured \in Times, NEW words \in Contents,
           Lists!Capture(requester, project, captured, words)
    PROVE  ListInv'
<1> USE ReadsAssumption DEF Lists!QueryAssumption, Lists!PagesAssumption
<1>1. /\ db \in [store : Lists!Stores, generation : Nat \ {0},
                 items : [Lists!ItemIds -> Lists!Row \cup {None}]]
      /\ Lists!IsTable(db.items)
  BY DEF ListInv, IsStore
<1>2. PICK n \in 0..MaxSequence : \A m \in 1..MaxSequence :
          db.items[<<requester, project, m>>] # None <=> m <= n
  BY <1>1 DEF Lists!IsTable
<1>3. MaxSequence \in Nat /\ MaxSequence <= MaxI64 /\ n \in Nat
  OBVIOUS
<1>4. Lists!Cardinality({m \in 1..MaxSequence : db.items[<<requester, project, m>>] # None}) = n
  <2>1. {m \in 1..MaxSequence : db.items[<<requester, project, m>>] # None} = 1..n
    BY <1>2, <1>3
  <2>2. 1 \in Int /\ n \in Int
    BY <1>3
  <2>3. Cardinality(1..n) = IF 1 > n THEN 0 ELSE n - 1 + 1
    BY <2>2, FS_Interval
  <2>4. Cardinality(1..n) = n
    BY <1>3, <2>3
  <2>5. QED BY <2>1, <2>4, SameListCardinality
<1> DEFINE id == <<requester, project, n + 1>>
           row == [captured |-> captured, priority |-> None, requester |-> requester,
                   project |-> project, sequence |-> n + 1, status |-> "proposed",
                   assignee |-> None, words |-> words]
<1>5. n + 1 <= MaxSequence /\ db' = [db EXCEPT !.items[id] = row] /\ UNCHANGED <<itemScan, itemAnswer>>
  BY <1>4 DEF Lists!Capture
<1>6. id \in Lists!ItemIds /\ db.items[id] = None
  BY <1>2, <1>3, <1>5 DEF Lists!ItemIds
<1>7. row \in Lists!Row /\ row # None /\ Lists!IdOf(row) = id
  <2>1. row \in Lists!Row
    BY <1>3, <1>5 DEF Lists!Row, Lists!Owner, Lists!Statuses
  <2>2. QED BY <2>1 DEF Lists!IdOf
<1> HIDE DEF id, row
<1>8. /\ db'.items = [db.items EXCEPT ![id] = row]
      /\ db'.store = db.store /\ db'.generation = db.generation
      /\ db' \in [store : Lists!Stores, generation : Nat \ {0},
                  items : [Lists!ItemIds -> Lists!Row \cup {None}]]
  BY <1>1, <1>5, <1>6, <1>7
<1>9. \A i \in Lists!ItemIds : db'.items[i] = IF i = id THEN row ELSE db.items[i]
  BY <1>1, <1>8
<1>10. Lists!IsTable(db'.items)
  <2>1. \A i \in Lists!ItemIds : db'.items[i] # None => Lists!IdOf(db'.items[i]) = i
    BY <1>1, <1>7, <1>9 DEF Lists!IsTable
  <2>2. ASSUME NEW r \in Requesters, NEW p \in Projects
        PROVE  \E k \in 0..MaxSequence : \A m \in 1..MaxSequence :
                  db'.items[<<r, p, m>>] # None <=> m <= k
    <3>1. \A m \in 1..MaxSequence : <<r, p, m>> \in Lists!ItemIds
      BY DEF Lists!ItemIds
    <3>2. CASE r = requester /\ p = project
      <4>1. \A m \in 1..MaxSequence : <<r, p, m>> = id <=> m = n + 1
        BY <3>2 DEF id
      <4>2. \A m \in 1..MaxSequence : db'.items[<<r, p, m>>] # None <=> m <= n + 1
        BY <1>2, <1>3, <1>7, <1>9, <3>1, <3>2, <4>1
      <4>3. n + 1 \in 0..MaxSequence
        BY <1>3, <1>5
      <4>4. QED BY <4>2, <4>3
    <3>3. CASE ~(r = requester /\ p = project)
      <4>1. \A m \in 1..MaxSequence : <<r, p, m>> # id
        BY <3>3 DEF id
      <4>2. PICK k \in 0..MaxSequence : \A m \in 1..MaxSequence :
                db.items[<<r, p, m>>] # None <=> m <= k
        BY <1>1 DEF Lists!IsTable
      <4>3. QED BY <1>9, <3>1, <4>1, <4>2
    <3>4. QED BY <3>2, <3>3
  <2>3. QED BY <1>8, <2>1, <2>2 DEF Lists!IsTable
<1>11. ASSUME itemScan # None PROVE itemScan' \in Lists!Scan /\ KeptFor(itemScan', db')
  <2>1. itemScan \in Lists!Scan /\ KeptFor(itemScan, db) /\ itemScan' = itemScan
    BY <1>5, <1>11 DEF ListInv
  <2>2. \A i \in Lists!ItemIds : db.items[i] # None => db'.items[i] = db.items[i]
    BY <1>6, <1>9
  <2>3. itemScan.steady \subseteq Lists!ItemIds /\ itemScan.got \subseteq Lists!ItemIds
    BY <2>1 DEF Lists!Scan
  <2>4. Ahead(itemScan, db.items) => Ahead(itemScan, db'.items)
    BY <2>2, <2>3 DEF Ahead
  <2>5. Behind(itemScan, db.items) => Behind(itemScan, db'.items)
    BY <2>2, <2>3 DEF Behind
  <2>6. QED BY <1>8, <2>1, <2>4, <2>5 DEF KeptFor
<1>12. QED BY <1>5, <1>8, <1>10, <1>11 DEF ListInv, IsStore

LEMMA ChangeKeeps ==
    ASSUME ListInv, NEW id \in Lists!ItemIds, NEW row \in Lists!Row,
           Lists!IdOf(row) = Lists!IdOf(db.items[id]), row.captured = db.items[id].captured,
           Lists!Change(id, row)
    PROVE  ListInv'
<1> USE ReadsAssumption DEF Lists!QueryAssumption, Lists!PagesAssumption
<1>1. /\ db \in [store : Lists!Stores, generation : Nat \ {0},
                 items : [Lists!ItemIds -> Lists!Row \cup {None}]]
      /\ Lists!IsTable(db.items)
  BY DEF ListInv, IsStore
<1>2. /\ db.items[id] # None /\ db' = [db EXCEPT !.items[id] = row]
      /\ itemScan' = Lists!Observed(id, db.items[id], row)
  BY DEF Lists!Change
<1>3. row # None /\ Lists!IdOf(row) = id /\ db.items[id] \in Lists!Row
  BY <1>1, <1>2 DEF Lists!IsTable
<1>4. /\ db'.items = [db.items EXCEPT ![id] = row]
      /\ db'.store = db.store /\ db'.generation = db.generation
      /\ db' \in [store : Lists!Stores, generation : Nat \ {0},
                  items : [Lists!ItemIds -> Lists!Row \cup {None}]]
  BY <1>1, <1>2
<1>5. \A i \in Lists!ItemIds : db'.items[i] = IF i = id THEN row ELSE db.items[i]
  BY <1>1, <1>4
<1>6. Lists!IsTable(db'.items)
  <2>1. \A i \in Lists!ItemIds : db'.items[i] # None <=> db.items[i] # None
    BY <1>2, <1>3, <1>5
  <2>2. \A i \in Lists!ItemIds : db'.items[i] # None => Lists!IdOf(db'.items[i]) = i
    BY <1>1, <1>3, <1>5 DEF Lists!IsTable
  <2>3. \A r \in Requesters, p \in Projects, m \in 1..MaxSequence : <<r, p, m>> \in Lists!ItemIds
    BY DEF Lists!ItemIds
  <2>4. \A r \in Requesters, p \in Projects : \E n \in 0..MaxSequence :
           \A m \in 1..MaxSequence : db'.items[<<r, p, m>>] # None <=> m <= n
    <3> SUFFICES ASSUME NEW r \in Requesters, NEW p \in Projects
                 PROVE  \E n \in 0..MaxSequence :
                          \A m \in 1..MaxSequence : db'.items[<<r, p, m>>] # None <=> m <= n
      OBVIOUS
    <3>1. PICK n \in 0..MaxSequence : \A m \in 1..MaxSequence : db.items[<<r, p, m>>] # None <=> m <= n
      BY <1>1 DEF Lists!IsTable
    <3>2. QED BY <2>1, <2>3, <3>1
  <2>5. QED BY <1>4, <2>2, <2>4 DEF Lists!IsTable
<1>7. ASSUME itemScan # None PROVE itemScan' \in Lists!Scan /\ KeptFor(itemScan', db')
  <2> DEFINE moves == Lists!Moves(db.items[id], row, itemScan.request)
  <2>1. itemScan \in Lists!Scan /\ KeptFor(itemScan, db)
    BY <1>7 DEF ListInv
  <2>2. itemScan' = [itemScan EXCEPT !.steady = {s \in @ : s = id => ~moves}]
    BY <1>2, <1>7 DEF Lists!Observed
  <2>3. /\ itemScan'.steady = {s \in itemScan.steady : s = id => ~moves}
        /\ itemScan'.request = itemScan.request /\ itemScan'.store = itemScan.store
        /\ itemScan'.generation = itemScan.generation /\ itemScan'.cursor = itemScan.cursor
        /\ itemScan'.got = itemScan.got /\ itemScan'.repeated = itemScan.repeated
        /\ itemScan' \in Lists!Scan
    BY <2>1, <2>2 DEF Lists!Scan
  <2>4. /\ itemScan.steady \subseteq Lists!ItemIds /\ itemScan.got \subseteq Lists!ItemIds
        /\ itemScan.request \in Requests
    BY <2>1 DEF Lists!Scan
  <2>5. itemScan.request.ordering \in Lists!Orderings
    BY <2>4 DEF Lists!Request
  <2>6. ASSUME itemScan.cursor # None, itemScan.generation = db.generation
        PROVE  Ahead(itemScan', db'.items) /\ Behind(itemScan', db'.items)
    <3>1. IsKey(Key(itemScan)) /\ IsKey(row) /\ IsKey(db.items[id])
      BY <1>3, <2>1, <2>6, RowIsKey DEF Lists!Scan, Lists!Token, Key, IsKey, Lists!Key
    <3>2. Ahead(itemScan, db.items) /\ Behind(itemScan, db.items)
      BY <2>1, <2>6 DEF KeptFor
    <3>3. Ahead(itemScan', db'.items)
      <4> SUFFICES ASSUME NEW i \in itemScan'.steady
                   PROVE  /\ db'.items[i] # None
                          /\ Lists!Matches(PredicateOf(itemScan.request), db'.items[i])
                          /\ i \in itemScan.got
                             \/ Lists!Precedes(itemScan.request.ordering, Key(itemScan), db'.items[i])
        BY <2>3 DEF Ahead, PredicateOf, Key
      <4>1. /\ db.items[i] # None
            /\ Lists!Matches(PredicateOf(itemScan.request), db.items[i])
            /\ i \in itemScan.got
               \/ Lists!Precedes(itemScan.request.ordering, Key(itemScan), db.items[i])
        BY <2>3, <3>2 DEF Ahead, PredicateOf
      <4>2. CASE i # id
        BY <1>5, <2>3, <2>4, <4>1, <4>2
      <4>3. CASE i = id
        <5>1. ~moves
          BY <2>3, <4>3
        <5>2. Lists!KeyOf(db.items[id]) = Lists!KeyOf(row) /\ Lists!Matches(PredicateOf(itemScan.request), row)
          BY <5>1 DEF Lists!Moves, PredicateOf
        <5>3. row.priority = db.items[id].priority
          BY <5>2 DEF Lists!KeyOf
        <5>4. Lists!OrderItems(itemScan.request.ordering, Key(itemScan), row) <=>
              Lists!OrderItems(itemScan.request.ordering, Key(itemScan), db.items[id])
          BY <5>2 DEF Lists!KeyOf, Lists!OrderItems
        <5>5. Lists!Precedes(itemScan.request.ordering, Key(itemScan), row) <=>
              Lists!Precedes(itemScan.request.ordering, Key(itemScan), db.items[id])
          BY <2>5, <3>1, <5>4, OrderIsV1s
        <5>6. QED BY <1>3, <1>5, <4>1, <4>3, <5>2, <5>5
      <4>4. QED BY <4>2, <4>3
    <3>4. Behind(itemScan', db'.items)
      <4> SUFFICES ASSUME itemScan.request.ordering = "newest_first", NEW i \in itemScan.got
                   PROVE  /\ db'.items[i] # None
                          /\ ~Lists!Precedes("newest_first", Key(itemScan), db'.items[i])
        BY <2>3 DEF Behind, Key
      <4>1. db.items[i] # None /\ ~Lists!Precedes("newest_first", Key(itemScan), db.items[i])
        BY <3>2 DEF Behind
      <4>2. Lists!OrderItems("newest_first", Key(itemScan), row) <=>
            Lists!OrderItems("newest_first", Key(itemScan), db.items[id])
        BY DEF Lists!OrderItems, Lists!IdOf
      <4>3. Lists!Precedes("newest_first", Key(itemScan), row) <=>
            Lists!Precedes("newest_first", Key(itemScan), db.items[id])
        BY <2>5, <3>1, <4>2, OrderIsV1s DEF Lists!Orderings
      <4>4. QED BY <1>3, <1>5, <2>4, <4>1, <4>3
    <3>5. QED BY <3>3, <3>4
  <2>7. Bound(itemScan) => Bound(itemScan')
    BY <2>3 DEF Bound, Key
  <2>8. QED BY <1>4, <2>1, <2>3, <2>6, <2>7 DEF KeptFor
<1>8. itemScan' # None => itemScan # None
  BY <1>2 DEF Lists!Observed
<1>9. QED BY <1>4, <1>6, <1>7, <1>8 DEF ListInv, IsStore

LEMMA WriteKeeps == ListInv /\ Lists!Write => ListInv'
<1> SUFFICES ASSUME ListInv, Lists!Write PROVE ListInv'
  OBVIOUS
<1> DEFINE Same(row, old) == row \in Lists!Row /\ Lists!IdOf(row) = Lists!IdOf(old)
                             /\ row.captured = old.captured
<1>1. \A id \in Lists!ItemIds : db.items[id] # None => db.items[id] \in Lists!Row
  BY DEF ListInv, IsStore
<1>2. ASSUME NEW id \in Lists!ItemIds, Lists!Transition(id) PROVE ListInv'
  <2>1. db.items[id] \in Lists!Row
    BY <1>1, <1>2 DEF Lists!Transition
  <2>2. PICK status \in Lists!Successors(db.items[id].status) :
            Lists!Change(id, [db.items[id] EXCEPT !.status = status])
    BY <1>2 DEF Lists!Transition
  <2>3. status \in Lists!Statuses
    BY <2>1, <2>2 DEF Lists!Successors, Lists!Statuses, Lists!Row
  <2>4. Same([db.items[id] EXCEPT !.status = status], db.items[id])
    BY <2>1, <2>3 DEF Lists!Row, Lists!IdOf
  <2>5. QED BY <2>2, <2>4, ChangeKeeps
<1>3. ASSUME NEW id \in Lists!ItemIds, Lists!Triage(id) PROVE ListInv'
  <2>1. db.items[id] \in Lists!Row
    BY <1>1, <1>3 DEF Lists!Triage
  <2>2. CASE \E priority \in Priorities \cup {None} :
                Lists!Change(id, [db.items[id] EXCEPT !.priority = priority])
    <3>1. PICK priority \in Priorities \cup {None} :
              Lists!Change(id, [db.items[id] EXCEPT !.priority = priority])
      BY <2>2
    <3>2. Same([db.items[id] EXCEPT !.priority = priority], db.items[id])
      BY <2>1, ReadsAssumption DEF Lists!PagesAssumption, Lists!Row, Lists!IdOf
    <3>3. QED BY <3>1, <3>2, ChangeKeeps
  <2>3. CASE \E assignee \in Assignees \cup {None} :
                Lists!Change(id, [db.items[id] EXCEPT !.assignee = assignee])
    <3>1. PICK assignee \in Assignees \cup {None} :
              Lists!Change(id, [db.items[id] EXCEPT !.assignee = assignee])
      BY <2>3
    <3>2. Same([db.items[id] EXCEPT !.assignee = assignee], db.items[id])
      BY <2>1, ReadsAssumption DEF Lists!PagesAssumption, Lists!Row, Lists!IdOf, Lists!Owner
    <3>3. QED BY <3>1, <3>2, ChangeKeeps
  <2>4. QED BY <1>3, <2>2, <2>3 DEF Lists!Triage
<1>4. QED BY <1>2, <1>3, CaptureKeeps DEF Lists!Write

LEMMA RestoreKeeps ==
    ASSUME ListInv, NEW b \in Backups, Lists!Restore(b)
    PROVE  ListInv'
<1>1. /\ db' = [store |-> b.store, generation |-> db.generation + 1, items |-> b.items]
      /\ itemScan' = itemScan
  BY DEF Lists!Restore
<1>2. Lists!IsTable(b.items)
  BY ReadsAssumption DEF Lists!PagesAssumption
<1>3. IsStore(db') /\ db'.generation = db.generation + 1 /\ db.generation \in Nat
  BY <1>1, <1>2 DEF ListInv, IsStore, Lists!IsTable, Lists!Stores
<1>4. ASSUME itemScan # None PROVE itemScan \in Lists!Scan /\ KeptFor(itemScan, db')
  <2>1. itemScan \in Lists!Scan /\ KeptFor(itemScan, db)
    BY <1>4 DEF ListInv
  <2>2. itemScan.generation \in Nat
    BY <2>1 DEF Lists!Scan
  <2>3. itemScan.generation <= db'.generation /\ itemScan.generation # db'.generation
    BY <1>3, <2>1, <2>2 DEF KeptFor
  <2>4. QED BY <2>1, <2>3 DEF KeptFor
<1>5. QED BY <1>1, <1>3, <1>4 DEF ListInv

-----------------------------------------------------------------------------
(* The client's own steps.                                                  *)

LEMMA ItemFirstPageKeeps ==
    ASSUME ListInv, NEW request \in Requests, Lists!FirstPage(request)
    PROVE  ListInv' /\ AnswerInv'
<1> DEFINE sofar == [request |-> request, store |-> db.store, generation |-> db.generation,
                     cursor |-> None, got |-> {}, repeated |-> FALSE,
                     steady |-> {Lists!IdOf(r) : r \in Lists!Candidates(Lists!Table, request, None)}]
           left == Lists!Candidates(Lists!Table, request, None)
<1>1. Lists!Deliver(request, None, sofar) /\ UNCHANGED db
  BY DEF Lists!FirstPage
<1>2. IsStore(db)
  BY DEF ListInv
<1>3. \A r \in left : /\ Lists!IdOf(r) \in Lists!ItemIds /\ db.items[Lists!IdOf(r)] = r
                      /\ Lists!Matches(PredicateOf(request), r) /\ r # None
  <2>1. left = {r \in Lists!Table : Lists!Matches(PredicateOf(request), r)}
    BY <1>2, CandidateRows
  <2>2. \A r \in Lists!Table : r # None
    BY ReadsAssumption, <1>2, TableOfRows DEF Lists!PagesAssumption, IsRows
  <2> HIDE DEF left
  <2>3. left \subseteq Lists!Table
    BY <2>1
  <2>4. QED BY <1>2, <2>1, <2>2, <2>3, TableOfRows
<1>4. sofar \in Lists!Scan
  <2>1. {Lists!IdOf(r) : r \in left} \subseteq Lists!ItemIds
    BY <1>3
  <2> HIDE DEF left
  <2>2. QED BY <1>2, <2>1 DEF Lists!Scan, IsStore, left
<1>5. IsPageOf(request, None, sofar)
  BY <1>2, <1>3, <1>4 DEF IsPageOf, IsStore, Lists!FirstPage
<1> HIDE DEF sofar
<1>6. /\ itemScan' \in Lists!Scan /\ KeptFor(itemScan', db)
      /\ \E rows \in SUBSET Lists!Row : itemAnswer' = Lists!Outcome(request, None, None, rows)
  BY <1>1, <1>2, <1>5, DeliverKeeps
<1>7. ListInv'
  BY <1>1, <1>2, <1>6 DEF ListInv
<1>8. AnswerInv'
  <2>1. PICK rows \in SUBSET Lists!Row : itemAnswer' = Lists!Outcome(request, None, None, rows)
    BY <1>6
  <2>2. None \notin Lists!Scan
    BY ReadsAssumption DEF Lists!PagesAssumption
  <2>3. itemAnswer' \in Lists!Answer /\ itemAnswer'.after = None /\ itemAnswer'.error = None
    BY <1>2, <2>1 DEF Lists!Outcome, Lists!Answer, IsStore
  <2>4. CursorIsHonouredInScope'
    BY <2>3 DEF CursorIsHonouredInScope, Lists!CursorIsHonouredInScope, Lists!ContinuationInScope,
       Lists!RefusalHasCause
  <2>5. QED BY <1>6, <2>2, <2>3, <2>4 DEF AnswerInv
<1>9. QED BY <1>7, <1>8

(* One predicate says what v1's raw predicates say.                         *)
LEMMA OneOwner ==
    ASSUME NEW a, NEW b
    PROVE  /\ Lists!AnyOwner # Lists!Unassigned /\ Lists!AnyOwner # Lists!Assigned(a)
           /\ Lists!Unassigned # Lists!Assigned(a)
           /\ Lists!Assigned(a) = Lists!Assigned(b) <=> a = b
BY DEF Lists!AnyOwner, Lists!Unassigned, Lists!Assigned

LEMMA OneViewStatus ==
    ASSUME NEW view \in Lists!Views, NEW me, NEW row \in Lists!Row
    PROVE  /\ Lists!LegacyView(view, me, row) <=>
                 row.status \in Lists!ViewStatuses(view) /\ (view = "mine" => row.assignee = me)
           /\ Lists!ViewStatuses(view) \subseteq Lists!Statuses
BY DEF Lists!Views, Lists!LegacyView, Lists!ViewStatuses, Lists!Row, Lists!Statuses

LEMMA OnePredicate ==
    ASSUME NEW request \in Requests, Lists!ValidFilters(request.filters), NEW row \in Lists!Row
    PROVE  Lists!Asks(request, row) <=> Lists!Matches(PredicateOf(request), row)
<1> USE ReadsAssumption DEF Lists!QueryAssumption, Lists!PagesAssumption
<1> DEFINE f == request.filters
           view == request.view
           me == request.me
           statuses == {s \in Lists!ViewStatuses(view) : f.status \in {None, s}}
           others == view = "mine" /\ Lists!Owners(f) \notin {Lists!AnyOwner, Lists!Assigned(me)}
           owners == IF view = "mine" THEN Lists!Assigned(me) ELSE Lists!Owners(f)
           p == PredicateOf(request)
<1>1. /\ view \in Lists!Views /\ me \in Nat /\ f \in Lists!Filters
      /\ None \notin Nat
  BY DEF Lists!Request
<1>2. row.status \in statuses <=>
        /\ row.status \in Lists!ViewStatuses(view)
        /\ Lists!Admits(f.status, row.status)
  BY DEF Lists!Admits
<1> DEFINE owned == /\ view = "mine" => row.assignee = me
                    /\ Lists!Admits(f.assignee, row.assignee)
                    /\ f.unassigned => row.assignee = None
           owns == CASE owners = Lists!AnyOwner -> TRUE
                     [] owners = Lists!Unassigned -> row.assignee = None
                     [] OTHER -> owners = Lists!Assigned(row.assignee)
<1>3. owned <=> ~others /\ owns
  <2>1. f.assignee = None \/ ~f.unassigned
    BY DEF Lists!ValidFilters
  <2>2. f.assignee \in Nat \cup {None} /\ f.unassigned \in BOOLEAN
    BY <1>1 DEF Lists!Filters, Lists!Owner
  <2>3. CASE f.unassigned
    BY <1>1, <2>1, <2>2, <2>3, OneOwner DEF Lists!Owners, Lists!Admits
  <2>4. CASE ~f.unassigned /\ f.assignee # None
    BY <1>1, <2>1, <2>2, <2>4, OneOwner DEF Lists!Owners, Lists!Admits
  <2>5. CASE ~f.unassigned /\ f.assignee = None
    BY <1>1, <2>1, <2>2, <2>5, OneOwner DEF Lists!Owners, Lists!Admits
  <2>6. QED BY <2>2, <2>3, <2>4, <2>5
<1>4. (f.text = None \/ Fold[f.text] \in row.words) <=>
         (Lists!FoldText(f.text) = None \/ Lists!FoldText(f.text) \in row.words)
  <2>1. f.text # None => Fold[f.text] \in Needles
    BY <1>1 DEF Lists!Filters
  <2>2. QED BY <2>1 DEF Lists!FoldText
<1>5. Lists!Asks(request, row) <=>
        /\ row.status \in statuses /\ owned
        /\ Lists!Admits(f.project, row.project) /\ Lists!Admits(f.requester, row.requester)
        /\ Lists!Admits(f.priority, row.priority)
        /\ f.text = None \/ Fold[f.text] \in row.words
  BY <1>1, <1>2, OneViewStatus DEF Lists!Asks, Lists!LegacyMatches
<1>6. p = IF statuses = {} \/ others THEN Lists!NoPredicate
          ELSE [statuses |-> statuses, project |-> f.project, requester |-> f.requester,
                owners |-> owners, priority |-> f.priority, text |-> Lists!FoldText(f.text)]
  BY DEF PredicateOf, Lists!Effective
<1> HIDE DEF statuses, others, owners, owned, p
<1>7. CASE statuses = {} \/ others
  BY <1>3, <1>5, <1>6, <1>7 DEF Lists!Matches, Lists!NoPredicate, p
<1>8. CASE ~(statuses = {} \/ others)
  <2>1. /\ p.statuses = statuses /\ p.project = f.project /\ p.requester = f.requester
        /\ p.owners = owners /\ p.priority = f.priority /\ p.text = Lists!FoldText(f.text)
    BY <1>6, <1>8
  <2>2. Lists!Matches(p, row) <=>
        /\ row.status \in statuses
        /\ Lists!Admits(f.project, row.project) /\ Lists!Admits(f.requester, row.requester)
        /\ owns
        /\ Lists!Admits(f.priority, row.priority)
        /\ Lists!FoldText(f.text) = None \/ Lists!FoldText(f.text) \in row.words
    BY <2>1 DEF Lists!Matches
  <2>3. QED BY <1>3, <1>4, <1>5, <1>8, <2>2 DEF p
<1>9. QED BY <1>7, <1>8

-----------------------------------------------------------------------------
(* Two predicates that the same rows match are the same, unless no row      *)
(* matches them.                                                            *)

IsPredicate(p) ==
    /\ p = [statuses |-> p.statuses, project |-> p.project, requester |-> p.requester,
            owners |-> p.owners, priority |-> p.priority, text |-> p.text]
    /\ p.statuses \subseteq Lists!Statuses
    /\ p.project # None => Projects \ {p.project} # {}
    /\ p.requester # None => Requesters \ {p.requester} # {}
    /\ p.owners \in {Lists!AnyOwner, Lists!Unassigned} \cup {Lists!Assigned(n) : n \in Nat}
    /\ p.owners = Lists!Unassigned => Assignees # {}
    /\ p.text # None => p.text \in {Fold[n] : n \in Needles}

(* p restricts whatever q does.                                             *)
AsStrict(p, q) ==
    /\ p.statuses \subseteq q.statuses
    /\ q.project # None => p.project = q.project
    /\ q.requester # None => p.requester = q.requester
    /\ q.owners # Lists!AnyOwner => p.owners = q.owners
    /\ q.priority # None => p.priority = q.priority
    /\ q.text # None => p.text = q.text

LEMMA ImpliedIsAsStrict ==
    ASSUME NEW p, NEW q, IsPredicate(p), IsPredicate(q),
           NEW w \in Lists!AnyRow, Lists!Matches(p, w), Lists!Matches(q, w),
           \A row \in Lists!AnyRow : Lists!Matches(p, row) => Lists!Matches(q, row)
    PROVE  AsStrict(p, q)
<1> USE ReadsAssumption DEF Lists!QueryAssumption, Lists!PagesAssumption
<1> USE DEF Lists!AnyRow, Lists!Admits
<1>1. p.statuses \subseteq q.statuses
  <2> SUFFICES ASSUME NEW s \in p.statuses PROVE s \in q.statuses
    OBVIOUS
  <2>1. [w EXCEPT !.status = s] \in Lists!AnyRow
    BY DEF IsPredicate
  <2>2. Lists!Matches(p, [w EXCEPT !.status = s])
    BY DEF Lists!Matches
  <2>3. QED BY <2>1, <2>2 DEF Lists!Matches
<1>2. q.project # None => p.project = q.project
  <2> SUFFICES ASSUME q.project # None, p.project # q.project PROVE FALSE
    OBVIOUS
  <2>1. q.project = w.project /\ p.project = None
    BY DEF Lists!Matches
  <2>2. PICK other \in Projects : other # q.project
    BY DEF IsPredicate
  <2>3. [w EXCEPT !.project = other] \in Lists!AnyRow
    OBVIOUS
  <2>4. Lists!Matches(p, [w EXCEPT !.project = other])
    BY <2>1 DEF Lists!Matches
  <2>5. QED BY <2>2, <2>3, <2>4 DEF Lists!Matches
<1>3. q.requester # None => p.requester = q.requester
  <2> SUFFICES ASSUME q.requester # None, p.requester # q.requester PROVE FALSE
    OBVIOUS
  <2>1. q.requester = w.requester /\ p.requester = None
    BY DEF Lists!Matches
  <2>2. PICK other \in Requesters : other # q.requester
    BY DEF IsPredicate
  <2>3. [w EXCEPT !.requester = other] \in Lists!AnyRow
    OBVIOUS
  <2>4. Lists!Matches(p, [w EXCEPT !.requester = other])
    BY <2>1 DEF Lists!Matches
  <2>5. QED BY <2>2, <2>3, <2>4 DEF Lists!Matches
<1>4. q.priority # None => p.priority = q.priority
  <2> SUFFICES ASSUME q.priority # None, p.priority # q.priority PROVE FALSE
    OBVIOUS
  <2>1. q.priority = w.priority /\ p.priority = None
    BY DEF Lists!Matches
  <2>2. [w EXCEPT !.priority = None] \in Lists!AnyRow
    OBVIOUS
  <2>3. Lists!Matches(p, [w EXCEPT !.priority = None])
    BY <2>1 DEF Lists!Matches
  <2>4. QED BY <2>2, <2>3 DEF Lists!Matches
<1>5. q.text # None => p.text = q.text
  <2> SUFFICES ASSUME q.text # None, p.text # q.text PROVE FALSE
    OBVIOUS
  <2> DEFINE words == IF p.text = None THEN {} ELSE {p.text}
  <2>1. words \in SUBSET {Fold[n] : n \in Needles} /\ q.text \notin words
    BY DEF IsPredicate
  <2>2. p.text = None \/ p.text \in words
    OBVIOUS
  <2> HIDE DEF words
  <2>3. [w EXCEPT !.words = words] \in Lists!AnyRow
    BY <2>1
  <2>4. Lists!Matches(p, [w EXCEPT !.words = words])
    BY <2>2 DEF Lists!Matches
  <2>5. QED BY <2>1, <2>3, <2>4 DEF Lists!Matches
<1>6. q.owners # Lists!AnyOwner => p.owners = q.owners
  <2> SUFFICES ASSUME q.owners # Lists!AnyOwner, p.owners # q.owners PROVE FALSE
    OBVIOUS
  <2>1. /\ w.assignee \in Assignees \cup {None} /\ Assignees \subseteq Nat /\ None \notin Nat
        /\ \A a \in Assignees \cup {None} : [w EXCEPT !.assignee = a] \in Lists!AnyRow
    OBVIOUS
  <2>2. p.owners = Lists!AnyOwner
    BY <2>1, OneOwner DEF Lists!Matches, IsPredicate
  <2>3. \A a \in Assignees \cup {None} : Lists!Matches(q, [w EXCEPT !.assignee = a])
    <3> SUFFICES ASSUME NEW a \in Assignees \cup {None}
                 PROVE  Lists!Matches(q, [w EXCEPT !.assignee = a])
      OBVIOUS
    <3> DEFINE row == [w EXCEPT !.assignee = a]
    <3>1. Lists!Matches(p, row)
      <4>1. /\ row.status = w.status /\ row.project = w.project /\ row.requester = w.requester
            /\ row.priority = w.priority /\ row.words = w.words
        OBVIOUS
      <4> HIDE DEF row
      <4>2. QED BY <2>2, <4>1, OneOwner DEF Lists!Matches
    <3>2. QED BY <2>1, <3>1
  <2>4. CASE q.owners = Lists!Unassigned
    <3>1. PICK a \in Assignees : TRUE
      BY <2>4 DEF IsPredicate
    <3>2. QED BY <2>1, <2>3, <2>4, <3>1, OneOwner DEF Lists!Matches
  <2>5. CASE q.owners # Lists!Unassigned
    <3>1. PICK n \in Nat : q.owners = Lists!Assigned(n)
      BY <2>5 DEF IsPredicate
    <3>2. q.owners = Lists!Assigned(None)
      BY <2>1, <2>3, <2>5 DEF Lists!Matches
    <3>3. QED BY <2>1, <3>1, <3>2 DEF Lists!Assigned
  <2>6. QED BY <2>4, <2>5
<1>7. QED BY <1>1, <1>2, <1>3, <1>4, <1>5, <1>6 DEF AsStrict

LEMMA PredicateShape ==
    ASSUME NEW request \in Requests, Lists!ValidFilters(request.filters)
    PROVE  IsPredicate(PredicateOf(request))
<1> USE ReadsAssumption DEF Lists!QueryAssumption, Lists!PagesAssumption
<1> DEFINE f == request.filters
           statuses == {s \in Lists!ViewStatuses(request.view) : f.status \in {None, s}}
           others == request.view = "mine"
                     /\ Lists!Owners(f) \notin {Lists!AnyOwner, Lists!Assigned(request.me)}
           owners == IF request.view = "mine" THEN Lists!Assigned(request.me) ELSE Lists!Owners(f)
           p == PredicateOf(request)
<1>1. /\ request.view \in Lists!Views /\ request.me \in Nat /\ f \in Lists!Filters
      /\ Lists!LeavesOut(f)
  BY DEF Lists!Request
<1>2. p = IF statuses = {} \/ others THEN Lists!NoPredicate
          ELSE [statuses |-> statuses, project |-> f.project, requester |-> f.requester,
                owners |-> owners, priority |-> f.priority, text |-> Lists!FoldText(f.text)]
  BY DEF PredicateOf, Lists!Effective
<1>3. statuses \subseteq Lists!Statuses
  BY <1>1 DEF Lists!Views, Lists!ViewStatuses, Lists!Statuses
<1>4. /\ owners \in {Lists!AnyOwner, Lists!Unassigned} \cup {Lists!Assigned(n) : n \in Nat}
      /\ owners = Lists!Unassigned => Assignees # {}
  <2>1. f.assignee \in Nat \cup {None}
    BY <1>1 DEF Lists!Filters, Lists!Owner
  <2>2. /\ Lists!Owners(f) \in {Lists!AnyOwner, Lists!Unassigned} \cup {Lists!Assigned(n) : n \in Nat}
        /\ Lists!Owners(f) = Lists!Unassigned => Assignees # {}
    BY <1>1, <2>1, OneOwner DEF Lists!Owners, Lists!LeavesOut
  <2>3. QED BY <1>1, <2>2, OneOwner
<1>5. Lists!FoldText(f.text) # None => Lists!FoldText(f.text) \in {Fold[n] : n \in Needles}
  BY <1>1 DEF Lists!FoldText, Lists!Filters
<1>6. /\ f.project # None => Projects \ {f.project} # {}
      /\ f.requester # None => Requesters \ {f.requester} # {}
  BY <1>1 DEF Lists!LeavesOut
<1> HIDE DEF statuses, others, owners, f
<1>7. CASE statuses = {} \/ others
  <2>1. p = Lists!NoPredicate
    BY <1>2, <1>7
  <2>2. /\ Lists!NoPredicate.statuses = {} /\ Lists!NoPredicate.project = None
        /\ Lists!NoPredicate.requester = None /\ Lists!NoPredicate.owners = Lists!AnyOwner
        /\ Lists!NoPredicate.priority = None /\ Lists!NoPredicate.text = None
    BY DEF Lists!NoPredicate
  <2>3. Lists!NoPredicate = [statuses |-> {}, project |-> None, requester |-> None,
                             owners |-> Lists!AnyOwner, priority |-> None, text |-> None]
    BY DEF Lists!NoPredicate
  <2>4. IsPredicate(Lists!NoPredicate)
    BY <2>2, <2>3, OneOwner DEF IsPredicate
  <2> HIDE DEF p
  <2>5. QED BY <2>1, <2>4 DEF p
<1>8. CASE ~(statuses = {} \/ others)
  <2>1. p = [statuses |-> statuses, project |-> f.project, requester |-> f.requester,
             owners |-> owners, priority |-> f.priority, text |-> Lists!FoldText(f.text)]
    BY <1>2, <1>8
  <2> HIDE DEF p
  <2>2. IsPredicate(p)
    BY <1>3, <1>4, <1>5, <1>6, <2>1 DEF IsPredicate
  <2>3. QED BY <2>2 DEF p
<1>9. QED BY <1>7, <1>8

LEMMA AnyRowIsRow == Lists!AnyRow \subseteq Lists!Row
<1>1. /\ Priorities \subseteq Lists!Ranks /\ Requesters \subseteq Nat /\ Projects \subseteq Nat
      /\ Assignees \subseteq Nat /\ 1 \in 1..MaxI64 /\ {Fold[n] : n \in Needles} \subseteq Needles
  BY ReadsAssumption DEF Lists!QueryAssumption, Lists!PagesAssumption
<1> SUFFICES ASSUME NEW row \in Lists!AnyRow PROVE row \in Lists!Row
  OBVIOUS
<1>2. /\ row.captured = 1 /\ row.priority \in Priorities \cup {None}
      /\ row.requester \in Requesters /\ row.project \in Projects /\ row.sequence = 1
      /\ row.assignee \in Assignees \cup {None} /\ row.status \in Lists!Statuses
  BY DEF Lists!AnyRow
<1>3. row.words \in SUBSET Needles
  BY <1>1 DEF Lists!AnyRow
<1>4. /\ row.captured \in Nat /\ row.priority \in Lists!Ranks \cup {None}
      /\ row.requester \in Nat /\ row.project \in Nat /\ row.sequence \in 1..MaxI64
      /\ row.assignee \in Nat \cup {None} /\ row.status \in Lists!Statuses
  <2>1. row.captured \in Nat /\ row.sequence \in 1..MaxI64
    BY <1>1, <1>2
  <2>2. row.priority \in Lists!Ranks \cup {None} /\ row.assignee \in Nat \cup {None}
    BY <1>1, <1>2
  <2>3. row.requester \in Nat /\ row.project \in Nat /\ row.status \in Lists!Statuses
    BY <1>1, <1>2
  <2>4. QED BY <2>1, <2>2, <2>3
<1>5. row = [captured |-> row.captured, priority |-> row.priority, requester |-> row.requester,
             project |-> row.project, sequence |-> row.sequence, status |-> row.status,
             assignee |-> row.assignee, words |-> row.words]
  BY DEF Lists!AnyRow
<1>6. QED BY <1>3, <1>4, <1>5 DEF Lists!Row, Lists!Owner

LEMMA TellsApart ==
    ASSUME NEW l \in Requests, NEW r \in Requests,
           Lists!ValidFilters(l.filters), Lists!ValidFilters(r.filters),
           \A row \in Lists!AnyRow : Lists!Asks(l, row) <=> Lists!Asks(r, row),
           NEW w \in Lists!AnyRow, Lists!Asks(r, w)
    PROVE  PredicateOf(l) = PredicateOf(r) /\ PredicateOf(r) # Lists!NoPredicate
<1> DEFINE p == PredicateOf(l)
           q == PredicateOf(r)
<1>1. Lists!AnyRow \subseteq Lists!Row
  BY AnyRowIsRow
<1>2. \A row \in Lists!AnyRow : /\ Lists!Asks(l, row) <=> Lists!Matches(p, row)
                                /\ Lists!Asks(r, row) <=> Lists!Matches(q, row)
  BY <1>1, OnePredicate
<1>3. IsPredicate(p) /\ IsPredicate(q)
  BY PredicateShape
<1> HIDE DEF p, q
<1>4. \A row \in Lists!AnyRow : Lists!Matches(p, row) <=> Lists!Matches(q, row)
  BY <1>2
<1>5. Lists!Matches(p, w) /\ Lists!Matches(q, w)
  BY <1>2
<1>6. AsStrict(p, q) /\ AsStrict(q, p)
  BY <1>3, <1>4, <1>5, ImpliedIsAsStrict
<1>7. p = q
  <2>1. /\ p.statuses = q.statuses /\ p.project = q.project /\ p.requester = q.requester
        /\ p.owners = q.owners /\ p.priority = q.priority /\ p.text = q.text
    BY <1>6 DEF AsStrict
  <2>2. QED BY <1>3, <2>1 DEF IsPredicate
<1>8. q # Lists!NoPredicate
  BY <1>5 DEF Lists!Matches, Lists!NoPredicate
<1>9. QED BY <1>7, <1>8 DEF p, q

(* What a cursor is bound to.                                               *)
LEMMA FingerprintsTell ==
    ASSUME NEW s, NEW t, NEW l, NEW r
    PROVE  /\ Lists!Fingerprint(s, l) = Lists!Fingerprint(t, r) =>
                 /\ s = t /\ l.projection = r.projection /\ l.ordering = r.ordering
                 /\ PredicateOf(l) = PredicateOf(r)
           /\ /\ l.projection = r.projection /\ l.ordering = r.ordering
              /\ PredicateOf(l) = PredicateOf(r) /\ PredicateOf(r) # Lists!NoPredicate
              => Lists!Fingerprint(s, l) = Lists!Fingerprint(s, r)
<1>1. Lists!Fingerprint(s, l) = Lists!Fingerprint(t, r) =>
         /\ s = t /\ l.projection = r.projection /\ l.ordering = r.ordering
         /\ PredicateOf(l) = PredicateOf(r)
  BY DEF Lists!Fingerprint, PredicateOf
<1>2. ASSUME l.projection = r.projection, l.ordering = r.ordering,
             PredicateOf(l) = PredicateOf(r), PredicateOf(r) # Lists!NoPredicate
      PROVE  Lists!Fingerprint(s, l) = Lists!Fingerprint(s, r)
  BY <1>2 DEF Lists!Fingerprint, PredicateOf, Lists!EmptyMine
<1>3. QED BY <1>1, <1>2

(* The client's own cursor decodes, and is refused for what it is bound to. *)
LEMMA OwnCursorIsBound ==
    ASSUME ListInv, itemScan # None, itemScan.cursor # None, NEW request \in Requests
    PROVE  Lists!CursorError(Lists!ItemContext(db.store, db.generation, request), itemScan.cursor)
           = IF itemScan.request.ordering # request.ordering THEN "wrong_kind"
             ELSE IF itemScan.store # db.store THEN "wrong_store"
             ELSE IF itemScan.generation # db.generation THEN "wrong_generation"
             ELSE IF Lists!Fingerprint(itemScan.store, itemScan.request) # Lists!Fingerprint(db.store, request)
                  THEN "wrong_query"
             ELSE None
<1> DEFINE token == itemScan.cursor
           context == Lists!ItemContext(db.store, db.generation, request)
<1>1. /\ itemScan \in Lists!Scan /\ Bound(itemScan) /\ itemScan.generation > 0
  BY DEF ListInv, KeptFor
<1>2. token \in Lists!Token /\ itemScan.request \in Requests /\ itemScan.generation \in Nat
  BY <1>1 DEF Lists!Scan
<1>3. Lists!ParseError(token) = None
  <2>1. token.type = "cursor" /\ token.boundary.type = "item" /\ token.kind \in {"list", "next"}
        /\ token.version = Lists!CursorVersion /\ token.generation \in Nat \ {0}
        /\ token.boundary.key.sequence > 0
    BY <1>1, <1>2 DEF Lists!Token, Bound, Key
  <2>2. token # Lists!Oversized /\ token # Lists!Garbled
    BY <2>1 DEF Lists!Oversized, Lists!Garbled
  <2>3. QED BY <2>1, <2>2 DEF Lists!ParseError, Lists!NoGeneration, Lists!BadGeneration,
              Lists!CanonicalKey, Lists!BoundaryFits
<1>4. itemScan.request.ordering \in Lists!Orderings /\ request.ordering \in Lists!Orderings
  BY <1>2, ReadsAssumption DEF Lists!PagesAssumption, Lists!Request
<1>5. token.kind # context.kind <=> itemScan.request.ordering # request.ordering
  BY <1>1, <1>4 DEF Bound, Lists!ItemContext, Lists!KindOf, Lists!Orderings
<1>6. QED BY <1>1, <1>3, <1>5 DEF Lists!CursorError, Lists!BindError, Bound, Lists!ItemContext

LEMMA SameQueryAsked ==
    ASSUME NEW l \in Requests, NEW r \in Requests,
           Lists!ValidFilters(l.filters), Lists!ValidFilters(r.filters),
           l.ordering = r.ordering, l.projection = r.projection, PredicateOf(l) = PredicateOf(r)
    PROVE  Lists!SameQuery(l, r)
<1>1. Lists!AnyRow \subseteq Lists!Row
  BY AnyRowIsRow
<1>2. \A row \in Lists!AnyRow : Lists!Asks(l, row) <=> Lists!Asks(r, row)
  BY <1>1, OnePredicate
<1>3. QED BY <1>2 DEF Lists!SameQuery

LEMMA NextPageHonoured ==
    ASSUME ListInv, NEW request \in Requests, Lists!NextPage(request),
           Lists!CursorError(Lists!ItemContext(db.store, db.generation, request), itemScan.cursor) = None
    PROVE  ListInv' /\ AnswerInv'
<1> DEFINE after == Key(itemScan)
<1>1. /\ itemScan # None /\ itemScan.cursor # None /\ Lists!ValidFilters(request.filters)
      /\ Lists!Deliver(request, after, itemScan) /\ UNCHANGED db
  BY DEF Lists!NextPage, Lists!Holding, Key
<1>2. IsStore(db) /\ itemScan \in Lists!Scan /\ KeptFor(itemScan, db)
  BY <1>1 DEF ListInv
<1>3. /\ itemScan.request.ordering = request.ordering /\ itemScan.store = db.store
      /\ itemScan.generation = db.generation
      /\ Lists!Fingerprint(itemScan.store, itemScan.request) = Lists!Fingerprint(db.store, request)
  <2>1. None \notin Lists!CursorErrors
    BY ReadsAssumption DEF Lists!PagesAssumption
  <2>2. None \notin {"wrong_kind", "wrong_store", "wrong_generation", "wrong_query"}
    BY <2>1 DEF Lists!CursorErrors
  <2>3. QED BY <1>1, <2>2, OwnCursorIsBound
<1>4. /\ PredicateOf(itemScan.request) = PredicateOf(request)
      /\ itemScan.request.projection = request.projection
  BY <1>3, FingerprintsTell
<1>5. after \in Lists!Key /\ after # None
  BY <1>1, <1>2, ReadsAssumption DEF Lists!PagesAssumption, Lists!Scan, Lists!Token, Key
<1>6. IsPageOf(request, after, itemScan)
  BY <1>1, <1>2, <1>3, <1>4, <1>5 DEF IsPageOf, KeptFor, Ahead, Behind, PredicateOf
<1> HIDE DEF after
<1>7. /\ itemScan' \in Lists!Scan /\ KeptFor(itemScan', db)
      /\ itemScan'.request = itemScan.request
      /\ itemScan'.store = itemScan.store /\ itemScan'.generation = itemScan.generation
      /\ \E rows \in SUBSET Lists!Row : itemAnswer' = Lists!Outcome(request, None, after, rows)
  BY <1>1, <1>2, <1>5, <1>6, DeliverKeeps
<1>8. ListInv'
  BY <1>1, <1>2, <1>7 DEF ListInv
<1>9. AnswerInv'
  <2>1. PICK rows \in SUBSET Lists!Row : itemAnswer' = Lists!Outcome(request, None, after, rows)
    BY <1>7
  <2>2. None \notin Lists!Scan
    BY ReadsAssumption DEF Lists!PagesAssumption
  <2>3. /\ itemAnswer' \in Lists!Answer /\ itemAnswer'.error = None
        /\ itemAnswer'.store = db.store /\ itemAnswer'.generation = db.generation
        /\ itemAnswer'.request = request
    BY <1>2, <1>5, <2>1 DEF Lists!Outcome, Lists!Answer, IsStore
  <2>4. Lists!SameQuery(request, itemScan.request)
    BY <1>1, <1>2, <1>3, <1>4, SameQueryAsked DEF KeptFor, Lists!Scan
  <2>5. CursorIsHonouredInScope'
    BY <1>3, <1>7, <2>3, <2>4 DEF CursorIsHonouredInScope, Lists!CursorIsHonouredInScope,
       Lists!ContinuationInScope, Lists!RefusalHasCause
  <2>6. QED BY <1>7, <2>2, <2>3, <2>5 DEF AnswerInv
<1>10. QED BY <1>8, <1>9

LEMMA ErrorsAreTold ==
    ASSUME NEW context, NEW token, Lists!CursorError(context, token) # None
    PROVE  Lists!CursorError(context, token) \in Lists!CursorErrors
BY DEF Lists!CursorError, Lists!CursorErrors, Lists!ParseError, Lists!BindError

LEMMA NextPageRefused ==
    ASSUME ListInv, NEW request \in Requests, Lists!NextPage(request),
           Lists!CursorError(Lists!ItemContext(db.store, db.generation, request), itemScan.cursor) # None
    PROVE  ListInv' /\ AnswerInv'
<1> DEFINE error == Lists!CursorError(Lists!ItemContext(db.store, db.generation, request), itemScan.cursor)
<1>1. /\ itemScan # None /\ itemScan.cursor # None /\ Lists!ValidFilters(request.filters)
      /\ itemAnswer' = Lists!Outcome(request, error, None, {}) /\ UNCHANGED <<db, itemScan>>
  BY DEF Lists!NextPage, Lists!Holding
<1>2. IsStore(db) /\ itemScan \in Lists!Scan /\ KeptFor(itemScan, db) /\ itemScan.request \in Requests
  BY <1>1 DEF ListInv, Lists!Scan
<1>3. ListInv'
  BY <1>1 DEF ListInv
<1>4. error = IF itemScan.request.ordering # request.ordering THEN "wrong_kind"
              ELSE IF itemScan.store # db.store THEN "wrong_store"
              ELSE IF itemScan.generation # db.generation THEN "wrong_generation"
              ELSE IF Lists!Fingerprint(itemScan.store, itemScan.request) # Lists!Fingerprint(db.store, request)
                   THEN "wrong_query"
              ELSE None
  BY <1>1, OwnCursorIsBound
<1>5. error \in Lists!CursorErrors /\ error # None
  BY ErrorsAreTold
<1> HIDE DEF error
<1>6. /\ itemAnswer' \in Lists!Answer /\ itemAnswer'.error = error /\ itemAnswer'.after = None
      /\ itemAnswer'.store = db.store /\ itemAnswer'.generation = db.generation
      /\ itemAnswer'.request = request
  BY <1>1, <1>2, <1>5 DEF Lists!Outcome, Lists!Answer, IsStore
<1>7. ASSUME error = "wrong_query", Lists!SameQuery(request, itemScan.request),
             NEW w \in Lists!AnyRow, Lists!Asks(itemScan.request, w)
      PROVE  FALSE
  <2>1. /\ PredicateOf(request) = PredicateOf(itemScan.request)
        /\ PredicateOf(itemScan.request) # Lists!NoPredicate
    BY <1>1, <1>2, <1>7, TellsApart DEF KeptFor, Lists!SameQuery
  <2>2. /\ request.ordering = itemScan.request.ordering
        /\ request.projection = itemScan.request.projection
    BY <1>7 DEF Lists!SameQuery
  <2>3. Lists!Fingerprint(db.store, itemScan.request) = Lists!Fingerprint(db.store, request)
    BY <2>1, <2>2, FingerprintsTell
  <2>4. /\ itemScan.store = db.store
        /\ Lists!Fingerprint(itemScan.store, itemScan.request) # Lists!Fingerprint(db.store, request)
    BY <1>4, <1>5, <1>7
  <2>5. QED BY <2>3, <2>4
<1>8. /\ error \in {"wrong_kind", "wrong_store", "wrong_generation", "wrong_query"}
      /\ error = "wrong_kind" => request.ordering # itemScan.request.ordering
      /\ error = "wrong_store" => db.store # itemScan.store
      /\ error = "wrong_generation" => db.store = itemScan.store /\ db.generation # itemScan.generation
      /\ error = "wrong_query" => \/ ~Lists!SameQuery(request, itemScan.request)
                                 \/ \A row \in Lists!AnyRow : ~Lists!Asks(itemScan.request, row)
  BY <1>4, <1>5, <1>7
<1>9. Lists!RefusalHasCause'
  BY <1>1, <1>6, <1>8 DEF Lists!RefusalHasCause
<1>10. Lists!ContinuationInScope'
  BY <1>6 DEF Lists!ContinuationInScope
<1>11. AnswerInv'
  BY <1>1, <1>6, <1>9, <1>10 DEF AnswerInv, CursorIsHonouredInScope, Lists!CursorIsHonouredInScope
<1>12. QED BY <1>3, <1>11

LEMMA StrangePageKeeps ==
    ASSUME ListInv, AnswerInv, NEW token \in Lists!StrangeTokens, Lists!StrangePage(token)
    PROVE  ListInv' /\ AnswerInv'
<1> DEFINE error == Lists!CursorError(Lists!ItemContext(db.store, db.generation, itemScan.request), token)
<1>1. /\ error # None /\ UNCHANGED <<db, itemScan>> /\ itemScan # None
      /\ itemAnswer' = [Lists!Outcome(itemScan.request, error, None, {}) EXCEPT !.strange = TRUE]
  BY DEF Lists!StrangePage, Lists!StrangeTokens, Lists!Holding
<1>2. ListInv' /\ IsStore(db) /\ itemScan.request \in Requests
  BY <1>1 DEF ListInv, Lists!Scan
<1>3. error \in Lists!CursorErrors
  BY <1>1, ErrorsAreTold
<1> HIDE DEF error
<1>4. itemAnswer' \in Lists!Answer /\ itemAnswer'.strange /\ itemAnswer'.after = None
  BY <1>1, <1>2, <1>3 DEF Lists!Outcome, Lists!Answer, IsStore
<1>5. CursorIsHonouredInScope'
  BY <1>4 DEF CursorIsHonouredInScope, Lists!CursorIsHonouredInScope, Lists!ContinuationInScope,
     Lists!RefusalHasCause
<1>6. QED BY <1>1, <1>2, <1>4, <1>5 DEF AnswerInv

(* Writers and operators leave the last answer, and what its scan began     *)
(* with, as they are.                                                       *)
LEMMA AnswerStays ==
    ASSUME AnswerInv, UNCHANGED itemAnswer,
           itemScan # None => /\ itemScan' # None /\ itemScan'.request = itemScan.request
                              /\ itemScan'.store = itemScan.store
                              /\ itemScan'.generation = itemScan.generation
    PROVE  AnswerInv'
<1>1. CASE itemAnswer = None
  BY <1>1 DEF AnswerInv
<1>2. CASE itemAnswer # None
  <2>1. /\ itemScan # None /\ itemAnswer \in Lists!Answer
        /\ Lists!ContinuationInScope /\ Lists!RefusalHasCause
    BY <1>2 DEF AnswerInv, CursorIsHonouredInScope, Lists!CursorIsHonouredInScope
  <2>2. Lists!ContinuationInScope'
    BY <2>1 DEF Lists!ContinuationInScope
  <2>3. Lists!RefusalHasCause'
    BY <2>1 DEF Lists!RefusalHasCause
  <2>4. QED BY <2>1, <2>2, <2>3 DEF AnswerInv, CursorIsHonouredInScope, Lists!CursorIsHonouredInScope
<1>3. QED BY <1>1, <1>2

LEMMA WriteAnswers == ListInv /\ AnswerInv /\ Lists!Write => AnswerInv'
<1> SUFFICES ASSUME ListInv, AnswerInv, Lists!Write PROVE AnswerInv'
  OBVIOUS
<1>1. ASSUME NEW requester \in Requesters, NEW project \in Projects, NEW captured \in Times,
             NEW words \in Contents, Lists!Capture(requester, project, captured, words)
      PROVE  AnswerInv'
  <2>1. UNCHANGED <<itemScan, itemAnswer>>
    BY <1>1 DEF Lists!Capture
  <2>2. QED BY <2>1, AnswerStays
<1>2. ASSUME NEW id \in Lists!ItemIds, NEW row, Lists!Change(id, row) PROVE AnswerInv'
  <2>1. UNCHANGED itemAnswer /\ itemScan' = Lists!Observed(id, db.items[id], row)
    BY <1>2 DEF Lists!Change
  <2>2. ASSUME itemScan # None
        PROVE  /\ itemScan' # None /\ itemScan'.request = itemScan.request
               /\ itemScan'.store = itemScan.store /\ itemScan'.generation = itemScan.generation
    <3>1. itemScan \in Lists!Scan
      BY <2>2 DEF ListInv
    <3> DEFINE steady == {s \in itemScan.steady : s = id =>
                                ~Lists!Moves(db.items[id], row, itemScan.request)}
    <3>2. itemScan' = itemScan \/ itemScan' = [itemScan EXCEPT !.steady = steady]
      BY <2>1 DEF Lists!Observed
    <3>3. steady \subseteq itemScan.steady
      OBVIOUS
    <3> HIDE DEF steady
    <3>4. [itemScan EXCEPT !.steady = steady] \in Lists!Scan
      BY <3>1, <3>3 DEF Lists!Scan
    <3>5. None \notin Lists!Scan
      BY ReadsAssumption DEF Lists!PagesAssumption
    <3>6. QED BY <3>1, <3>2, <3>4, <3>5 DEF Lists!Scan
  <2>3. QED BY <2>1, <2>2, AnswerStays
<1>3. QED BY <1>1, <1>2 DEF Lists!Write, Lists!Transition, Lists!Triage

ItemPagesInv == ListInv /\ AnswerInv

LEMMA ItemInit == Lists!Init => ItemPagesInv
<1> SUFFICES ASSUME Lists!Init PROVE ItemPagesInv
  OBVIOUS
<1>1. PICK b \in Backups : db = [store |-> b.store, generation |-> 1, items |-> b.items]
  BY DEF Lists!Init
<1>2. Lists!IsTable(b.items)
  BY ReadsAssumption DEF Lists!PagesAssumption
<1>3. IsStore(db)
  BY <1>1, <1>2 DEF IsStore, Lists!IsTable, Lists!Stores
<1>4. QED BY <1>3 DEF Lists!Init, ItemPagesInv, ListInv, AnswerInv

LEMMA ItemStep == ItemPagesInv /\ [Lists!Next]_(Lists!vars) => ItemPagesInv'
<1> SUFFICES ASSUME ListInv, AnswerInv, [Lists!Next]_(Lists!vars) PROVE ListInv' /\ AnswerInv'
  BY DEF ItemPagesInv
<1>1. CASE Lists!Write
  BY <1>1, WriteKeeps, WriteAnswers
<1>2. ASSUME NEW b \in Backups, Lists!Restore(b) PROVE ListInv' /\ AnswerInv'
  <2>1. UNCHANGED <<itemScan, itemAnswer>>
    BY <1>2 DEF Lists!Restore
  <2>2. QED BY <1>2, <2>1, RestoreKeeps, AnswerStays
<1>3. ASSUME NEW request \in Requests, Lists!FirstPage(request) PROVE ListInv' /\ AnswerInv'
  BY <1>3, ItemFirstPageKeeps
<1>4. ASSUME NEW request \in Requests, Lists!NextPage(request) PROVE ListInv' /\ AnswerInv'
  BY <1>4, NextPageHonoured, NextPageRefused
<1>5. ASSUME NEW token \in Lists!StrangeTokens, Lists!StrangePage(token) PROVE ListInv' /\ AnswerInv'
  BY <1>5, StrangePageKeeps
<1>6. CASE Lists!Abandon
  BY <1>6 DEF Lists!Abandon, ListInv, AnswerInv
<1>7. CASE UNCHANGED Lists!vars
  <2>1. UNCHANGED <<db, itemScan, itemAnswer>>
    BY <1>7 DEF Lists!vars
  <2>2. QED BY <2>1, AnswerStays DEF ListInv
<1>8. QED BY <1>1, <1>2, <1>3, <1>4, <1>5, <1>6, <1>7 DEF Lists!Next, Lists!Read

LEMMA ItemPartMoves == ReadsSpec => Lists!Init /\ [][Lists!Next]_(Lists!vars)
<1>1. ReadsInit => Lists!Init
  BY DEF ReadsInit
<1>2. [ReadsNext]_readsVars => [Lists!Next]_(Lists!vars)
  <2> SUFFICES ASSUME [ReadsNext]_readsVars PROVE [Lists!Next]_(Lists!vars)
    OBVIOUS
  <2>1. CASE PlayScene
    <3>1. part \in DOMAIN Scenes => Scenes[part].requests \subseteq Requests
      BY ReadsAssumption
    <3>2. QED BY <2>1, <3>1 DEF PlayScene, Lists!Next, Lists!Read
  <2>2. CASE UNCHANGED itemVars
    BY <2>2 DEF itemVars, Lists!vars
  <2>3. QED BY <2>1, <2>2 DEF ReadsNext, readsVars
<1>3. QED BY <1>1, <1>2, PTL DEF ReadsSpec

LEMMA ItemPagesAreKept == ReadsSpec => []ItemPagesInv
BY ItemInit, ItemStep, ItemPartMoves, PTL

(* However items are captured, moved and restored between its pages, a scan *)
(* misses no item that held still, and a newest-first list sends none twice *)
(* (projection_reads.rs, page_query).                                       *)
THEOREM ScansKeepTheirPromise == ReadsSpec => []ScanKeepsItsPromise
<1>1. ItemPagesInv => ScanKeepsItsPromise
  BY DEF ItemPagesInv, ListInv, KeptFor, ScanKeepsItsPromise, Lists!ScanKeepsItsPromise
<1>2. QED BY <1>1, ItemPagesAreKept, PTL

(* A cursor is honoured in the history and for the query it was made for,   *)
(* in every spelling of it, and refused for no other reason (cursors.rs).   *)
THEOREM CursorsAreHonouredInScope == ReadsSpec => []CursorIsHonouredInScope
<1>1. ItemPagesInv => CursorIsHonouredInScope
  BY DEF ItemPagesInv, AnswerInv, CursorIsHonouredInScope, Lists!CursorIsHonouredInScope,
     Lists!ContinuationInScope, Lists!RefusalHasCause
<1>2. QED BY <1>1, ItemPagesAreKept, PTL

-----------------------------------------------------------------------------
(* Pages by key and pages by offset.                                        *)

(* Of the rows from the n-th on, each is n places further in front.         *)
LEMMA RowsLeft ==
    ASSUME NEW ordering \in Lists!Orderings, NEW rows, IsRows(rows),
           NEW n \in Nat, n <= Cardinality(rows),
           NEW left, left = {r \in rows : Place(ordering, rows, r) >= n}
    PROVE  /\ IsRows(left)
           /\ \A r \in left : Place(ordering, left, r) = Place(ordering, rows, r) - n
<1> DEFINE place(r) == Place(ordering, rows, r)
           front == {r \in rows : place(r) < n}
           before(r) == Lists!Preceding(ordering, rows, r)
<1>1. /\ \A r \in rows : place(r) \in Nat /\ place(r) < Cardinality(rows)
      /\ \A l, r \in rows : Lists!Precedes(ordering, l, r) <=> place(l) < place(r)
      /\ \A l, r \in rows : place(l) = place(r) => l = r
  BY PlacesInOrder DEF PlacesAreInOrder
<1>2. IsRows(left)
  BY FS_Subset DEF IsRows
<1>3. \A r \in rows : before(r) \subseteq rows /\ IsFiniteSet(before(r)) /\ place(r) = Cardinality(before(r))
  <2> SUFFICES ASSUME NEW r \in rows
               PROVE  before(r) \subseteq rows /\ IsFiniteSet(before(r)) /\ place(r) = Cardinality(before(r))
    OBVIOUS
  <2>1. before(r) \subseteq rows
    BY DEF Lists!Preceding
  <2>2. QED BY <2>1, FS_Subset DEF IsRows, Place
<1>4. IsFiniteSet(front) /\ Cardinality(front) = n
  <2>1. CASE n = 0
    <3>1. front = {}
      BY <1>1, <2>1
    <3>2. QED BY <2>1, <3>1, FS_EmptySet
  <2>2. CASE n # 0
    <3>1. n - 1 \in Nat /\ n - 1 < Cardinality(rows)
      BY <2>2, FS_CardinalityType DEF IsRows
    <3>2. PICK k \in rows : place(k) = n - 1
      BY <3>1, EveryPlaceIsTaken
    <3>3. front = before(k) \cup {k}
      <4>1. \A r \in rows : place(r) < n <=> place(r) < place(k) \/ place(r) = place(k)
        <5> HIDE DEF place
        <5>1. QED BY <1>1, <3>2
      <4>2. \A r \in rows : place(r) < n <=> Lists!Precedes(ordering, r, k) \/ r = k
        BY <1>1, <3>2, <4>1
      <4>3. QED BY <3>2, <4>2 DEF Lists!Preceding
    <3>4. k \notin before(k)
      BY <3>2, RowOrder DEF Lists!Preceding
    <3>5. Cardinality(front) = Cardinality(before(k)) + 1 /\ IsFiniteSet(front)
      BY <1>3, <3>2, <3>3, <3>4, FS_AddElement
    <3>6. QED BY <1>3, <3>2, <3>5
  <2>3. QED BY <2>1, <2>2
<1>5. ASSUME NEW r \in left PROVE Place(ordering, left, r) = place(r) - n
  <2>1. r \in rows /\ place(r) >= n /\ place(r) \in Nat
    BY <1>1
  <2>2. Lists!Preceding(ordering, left, r) = before(r) \ front
    <3>1. \A x \in rows : x \in left <=> x \notin front
      <4> HIDE DEF place
      <4>1. \A x \in rows : place(x) \in Nat
        BY <1>1
      <4>2. QED BY <4>1 DEF place
    <3>2. QED BY <3>1 DEF Lists!Preceding
  <2>3. before(r) \cap front = front
    <3>1. \A x \in front : x \in rows /\ place(x) < place(r)
      <4> HIDE DEF place
      <4>1. QED BY <1>1, <2>1
    <3>2. QED BY <1>1, <2>1, <3>1 DEF Lists!Preceding
  <2>4. Cardinality(before(r) \ front) = Cardinality(before(r)) - Cardinality(before(r) \cap front)
    BY <1>3, <2>1, FS_Difference
  <2>5. QED BY <1>3, <1>4, <2>1, <2>2, <2>3, <2>4 DEF Place
<1>6. QED BY <1>2, <1>5

(* A page of them is the page at offset n, and says in the same cases that  *)
(* there is more.                                                           *)
SamePage(ordering, rows, left, n, limit) ==
    /\ Lists!Slice(ordering, left, 0, limit) = Lists!Slice(ordering, rows, n, limit)
    /\ left # Lists!Slice(ordering, left, 0, limit) <=>
          Lists!Slice(ordering, rows, n, limit + 1) # Lists!Slice(ordering, rows, n, limit)

LEMMA PageAtOffset ==
    ASSUME NEW ordering \in Lists!Orderings, NEW rows, IsRows(rows),
           NEW n \in Nat, n <= Cardinality(rows), NEW limit \in 1..100,
           NEW left, left = {r \in rows : Place(ordering, rows, r) >= n}
    PROVE  SamePage(ordering, rows, left, n, limit)
<1> DEFINE place(r) == Place(ordering, rows, r)
           size == Cardinality(rows)
           records == {r \in rows : place(r) \in n..(n + limit - 1)}
<1>1. size \in Nat /\ \A r \in rows : place(r) \in Nat /\ place(r) < size
  BY PlacesInOrder, FS_CardinalityType DEF PlacesAreInOrder, IsRows
<1>2. /\ \A m \in Nat : Lists!Slice(ordering, rows, n, m) = {r \in rows : place(r) \in n..(n + m - 1)}
      /\ Lists!Slice(ordering, left, 0, limit) = {r \in left : Place(ordering, left, r) \in 0..(limit - 1)}
  BY SameListCardinality DEF Lists!Slice, Place
<1> HIDE DEF place
<1>3. left = {r \in rows : place(r) >= n}
  BY DEF place
<1>4. \A r \in left : Place(ordering, left, r) = place(r) - n
  BY RowsLeft DEF place
<1>5. Lists!Slice(ordering, left, 0, limit) = records
  <2>1. \A r \in left : Place(ordering, left, r) \in 0..(limit - 1) <=> place(r) \in n..(n + limit - 1)
    BY <1>1, <1>3, <1>4
  <2>2. \A r \in rows : place(r) \in n..(n + limit - 1) => r \in left
    BY <1>1, <1>3
  <2>3. QED BY <1>2, <1>3, <2>1, <2>2
<1>6. Lists!Slice(ordering, rows, n, limit) = records
  BY <1>2
<1>7. Lists!Slice(ordering, rows, n, limit + 1) # records <=> \E r \in rows : place(r) = n + limit
  <2>1. Lists!Slice(ordering, rows, n, limit + 1) = {r \in rows : place(r) \in n..(n + limit)}
    <3>1. limit + 1 \in Nat /\ n + (limit + 1) - 1 = n + limit
      OBVIOUS
    <3>2. QED BY <1>2, <3>1
  <2>2. \A r \in rows : place(r) \in n..(n + limit) <=> place(r) \in n..(n + limit - 1) \/ place(r) = n + limit
    BY <1>1
  <2>3. \A r \in rows : place(r) = n + limit => place(r) \notin n..(n + limit - 1)
    BY <1>1
  <2>4. QED BY <2>1, <2>2, <2>3
<1>8. left # records <=> \E r \in rows : place(r) >= n + limit
  BY <1>1, <1>3
<1>9. ASSUME NEW r \in rows, place(r) >= n + limit PROVE \E x \in rows : place(x) = n + limit
  <2>1. n + limit \in Nat /\ n + limit < size
    BY <1>1, <1>9
  <2>2. QED BY <2>1, EveryPlaceIsTaken DEF place
<1>10. (\E r \in rows : place(r) >= n + limit) <=> \E r \in rows : place(r) = n + limit
  BY <1>1, <1>9
<1>11. QED BY <1>5, <1>6, <1>7, <1>8, <1>10 DEF SamePage

LEMMA SelectedRows ==
    ASSUME IsStore(db), NEW request \in Requests, Lists!ValidFilters(request.filters)
    PROVE  /\ IsRows(Lists!Selected(Lists!Table, request))
           /\ Cardinality(Lists!Selected(Lists!Table, request)) \in Nat
           /\ Cardinality(Lists!Selected(Lists!Table, request)) <= MaxI64 + 1
           /\ \A after \in Lists!Key \cup {None} :
                 Lists!Candidates(Lists!Table, request, after) =
                   {r \in Lists!Selected(Lists!Table, request) :
                       after # None => Lists!Precedes(request.ordering, after, r)}
<1> DEFINE rows == Lists!Selected(Lists!Table, request)
<1>1. rows = {r \in Lists!Table : Lists!Asks(request, r)}
  BY DEF Lists!Selected, Lists!Asks
<1>2. IsRows(Lists!Table)
  BY TableOfRows
<1> HIDE DEF rows
<1>3. rows \subseteq Lists!Table /\ IsRows(rows)
  <2>1. rows \subseteq Lists!Table
    BY <1>1
  <2>2. QED BY <1>2, <2>1, FS_Subset DEF IsRows
<1>4. Cardinality(rows) \in Nat /\ Cardinality(rows) <= MaxI64 + 1
  <2> DEFINE id == [r \in rows |-> Lists!IdOf(r)]
  <2>1. id \in Injection(rows, Lists!ItemIds)
    <3>1. id \in [rows -> Lists!ItemIds]
      BY <1>3, TableOfRows
    <3>2. \A l, r \in rows : id[l] = id[r] => l = r
      BY <1>3 DEF IsRows
    <3> HIDE DEF id
    <3>3. QED BY <3>1, <3>2 DEF Injection, IsInjective
  <2> HIDE DEF id
  <2>2. Cardinality(rows) <= Cardinality(Lists!ItemIds)
    BY <2>1, ItemsAreFinite, FS_Injection
  <2>3. Cardinality(Lists!ItemIds) <= MaxI64 + 1 /\ MaxI64 \in Nat
    BY ReadsAssumption, SameListCardinality DEF Lists!PagesAssumption, Lists!QueryAssumption
  <2>4. Cardinality(rows) \in Nat /\ Cardinality(Lists!ItemIds) \in Nat
    BY <1>3, ItemsAreFinite, FS_CardinalityType DEF IsRows
  <2>5. QED BY <2>2, <2>3, <2>4
<1>5. \A r \in Lists!Table : Lists!Asks(request, r) <=> Lists!Matches(PredicateOf(request), r)
  BY <1>2, OnePredicate DEF IsRows
<1>6. ASSUME NEW after \in Lists!Key \cup {None}
      PROVE  Lists!Candidates(Lists!Table, request, after) =
               {r \in rows : after # None => Lists!Precedes(request.ordering, after, r)}
  <2>1. Lists!Candidates(Lists!Table, request, after) =
          {r \in Lists!Table :
              /\ Lists!Matches(PredicateOf(request), r)
              /\ after # None => Lists!Precedes(request.ordering, after, r)}
    BY CandidateRows
  <2>2. QED BY <1>1, <1>5, <2>1
<1>7. QED BY <1>3, <1>4, <1>6 DEF rows

(* What v1's boundary, offset and comparator make of a selection.           *)
AtOffset(request, n, after) ==
    Lists!OffsetPage(Lists!Table, request, n) =
      [records |-> Lists!KeysetPage(Lists!Table, request, after).records,
       next |-> IF Lists!KeysetPage(Lists!Table, request, after).has_more
                THEN n + request.limit ELSE None]

AfterRows(request, n) ==
    LET rows == Lists!Selected(Lists!Table, request)
    IN  IF n = 0 THEN None
        ELSE Lists!KeyOf(CHOOSE r \in rows :
                Cardinality({o \in rows : Lists!OrderItems(request.ordering, o, r)}) = n - 1)

LEMMA PagesAreV1s ==
    ASSUME IsStore(db), NEW request \in Requests, Lists!ValidFilters(request.filters),
           NEW n \in 0..Cardinality(Lists!Selected(Lists!Table, request))
    PROVE  AtOffset(request, n, AfterRows(request, n))
<1> DEFINE rows == Lists!Selected(Lists!Table, request)
           after == AfterRows(request, n)
           ordering == request.ordering
           limit == request.limit
           left == Lists!Candidates(Lists!Table, request, after)
<1>1. /\ IsRows(rows) /\ Cardinality(rows) \in Nat /\ Cardinality(rows) <= MaxI64 + 1
      /\ \A k \in Lists!Key \cup {None} :
            Lists!Candidates(Lists!Table, request, k) =
              {r \in rows : k # None => Lists!Precedes(ordering, k, r)}
  BY SelectedRows
<1>0. /\ n \in 0..Cardinality(rows)
      /\ n = 0 => after = None
      /\ n # 0 => after = Lists!KeyOf(CHOOSE r \in rows :
                        Cardinality({o \in rows : Lists!OrderItems(ordering, o, r)}) = n - 1)
  BY DEF AfterRows
<1> HIDE DEF rows, after
<1>2. ordering \in Lists!Orderings /\ limit \in 1..100
  BY ReadsAssumption DEF Lists!PagesAssumption, Lists!Request
<1>3. /\ \A r \in rows : Place(ordering, rows, r) \in Nat /\ Place(ordering, rows, r) < Cardinality(rows)
      /\ \A l, r \in rows : Lists!Precedes(ordering, l, r) <=>
                              Place(ordering, rows, l) < Place(ordering, rows, r)
      /\ n \in Nat /\ n <= Cardinality(rows)
  BY <1>0, <1>1, <1>2, PlacesInOrder DEF PlacesAreInOrder
<1>4. left = {r \in rows : Place(ordering, rows, r) >= n}
  <2>1. CASE n = 0
    <3>1. left = rows
      BY <1>0, <1>1, <2>1
    <3>2. QED BY <1>3, <2>1, <3>1
  <2>2. CASE n # 0
    <3> DEFINE k == CHOOSE r \in rows :
                        Cardinality({o \in rows : Lists!OrderItems(ordering, o, r)}) = n - 1
    <3>1. \A r \in rows : Cardinality({o \in rows : Lists!OrderItems(ordering, o, r)})
                          = Place(ordering, rows, r)
      <4>1. \A l, r \in rows : Lists!Precedes(ordering, l, r) <=> Lists!OrderItems(ordering, l, r)
        BY <1>1, <1>2, RowIsKey, OrderIsV1s DEF IsRows
      <4>2. \A r \in rows : {o \in rows : Lists!OrderItems(ordering, o, r)} = Lists!Preceding(ordering, rows, r)
        BY <4>1 DEF Lists!Preceding
      <4>3. QED BY <4>2 DEF Place
    <3>2. \E r \in rows : Place(ordering, rows, r) = n - 1
      <4>1. n - 1 \in Nat /\ n - 1 < Cardinality(rows)
        BY <1>1, <1>3, <2>2
      <4>2. QED BY <1>1, <1>2, <4>1, EveryPlaceIsTaken
    <3>3. k \in rows /\ Place(ordering, rows, k) = n - 1
      BY <3>1, <3>2
    <3>4. after = Lists!KeyOf(k)
      BY <1>0, <2>2
    <3> HIDE DEF k
    <3>5. /\ after \in Lists!Key
          /\ \A r \in rows : Lists!Precedes(ordering, after, r) <=> Lists!Precedes(ordering, k, r)
      <4>1. k \in Lists!Row /\ rows \subseteq Lists!Row
        BY <1>1, <3>3 DEF IsRows
      <4>2. after \in Lists!Key
        BY <1>2, <3>4, <4>1, KeyOfRow
      <4>3. \A r \in rows : Lists!Precedes(ordering, after, r) <=> Lists!Precedes(ordering, k, r)
        BY <1>2, <3>4, <4>1, KeyOfRow
      <4>4. QED BY <4>2, <4>3
    <3>6. after # None
      BY <3>5, ReadsAssumption DEF Lists!PagesAssumption
    <3>7. left = {r \in rows : Lists!Precedes(ordering, k, r)}
      BY <1>1, <3>5, <3>6
    <3>8. \A r \in rows : Lists!Precedes(ordering, k, r) <=> Place(ordering, rows, r) >= n
      <4>1. \A r \in rows : Lists!Precedes(ordering, k, r) <=> n - 1 < Place(ordering, rows, r)
        BY <1>3, <3>3
      <4>2. QED BY <1>3, <4>1
    <3>9. QED BY <3>7, <3>8
  <2>3. QED BY <2>1, <2>2
<1> HIDE DEF left
<1> DEFINE page == Lists!KeysetPage(Lists!Table, request, after)
           records == Lists!Slice(ordering, rows, n, limit)
           more == Lists!Slice(ordering, rows, n, limit + 1) # records
<1>5. page.records = records /\ (page.has_more <=> more)
  <2>1. /\ page.records = Lists!Slice(ordering, left, 0, limit)
        /\ page.has_more <=> left # Lists!Slice(ordering, left, 0, limit)
    BY DEF Lists!KeysetPage, left
  <2>2. /\ Lists!Slice(ordering, left, 0, limit) = records
        /\ left # Lists!Slice(ordering, left, 0, limit) <=> more
    <3>1. SamePage(ordering, rows, left, n, limit)
      <4> HIDE DEF ordering, limit
      <4>1. QED BY <1>1, <1>2, <1>3, <1>4, PageAtOffset
    <3>2. QED BY <3>1 DEF SamePage
  <2>3. QED BY <2>1, <2>2
<1>6. Lists!OffsetPage(Lists!Table, request, n) =
        IF n > MaxI64 THEN [records |-> {}, next |-> None]
        ELSE [records |-> records, next |-> IF more THEN n + limit ELSE None]
  BY DEF Lists!OffsetPage, rows
<1>7. CASE ~(n > MaxI64)
  <2> HIDE DEF page, records, more
  <2>1. QED BY <1>5, <1>6, <1>7 DEF page, after, AtOffset
<1>8. CASE n > MaxI64
  <2>1. MaxI64 \in Nat
    BY ReadsAssumption DEF Lists!QueryAssumption
  <2>2. left = {}
    BY <1>1, <1>3, <1>4, <1>8, <2>1
  <2>3. page.records = {} /\ ~page.has_more
    BY <2>2 DEF Lists!KeysetPage, Lists!Slice, left
  <2> HIDE DEF page, records, more
  <2>4. QED BY <1>6, <1>8, <2>3 DEF page, after, AtOffset
<1>9. QED BY <1>7, <1>8

LEMMA BoundariesAreKept ==
    ASSUME IsStore(db), NEW request \in Requests, Lists!ValidFilters(request.filters),
           NEW row \in Lists!Table,
           NEW boundary \in {Lists!KeyOf(row), [Lists!KeyOf(row) EXCEPT !.sequence = MaxI64 + 1]}
    PROVE  Lists!Candidates(Lists!Table, request, boundary) =
             {r \in Lists!Selected(Lists!Table, request) :
                 Lists!OrderItems(request.ordering, boundary, r)}
<1> DEFINE rows == Lists!Selected(Lists!Table, request)
<1>1. row \in Lists!Row /\ MaxI64 \in Nat /\ request.ordering \in Lists!Orderings
  BY ReadsAssumption, TableOfRows DEF Lists!PagesAssumption, Lists!QueryAssumption, Lists!Request, IsRows
<1>2. Lists!KeyOf(row) \in Lists!Key
  BY <1>1, KeyOfRow
<1>3. boundary \in Lists!Key
  BY <1>1, <1>2 DEF Lists!Key
<1>4. IsKey(boundary) /\ boundary # None
  BY <1>3, ReadsAssumption DEF Lists!PagesAssumption, Lists!Key, IsKey
<1>5. /\ IsRows(rows)
      /\ Lists!Candidates(Lists!Table, request, boundary) =
           {r \in rows : Lists!Precedes(request.ordering, boundary, r)}
  BY <1>3, <1>4, SelectedRows
<1> HIDE DEF rows
<1>6. \A r \in rows : Lists!Precedes(request.ordering, boundary, r) <=>
                      Lists!OrderItems(request.ordering, boundary, r)
  BY <1>1, <1>4, <1>5, RowIsKey, OrderIsV1s DEF IsRows
<1>7. QED BY <1>5, <1>6 DEF rows

LEMMA TablesPageAsInV1 == IsStore(db) => Lists!PagesAreAsInV1
<1> SUFFICES ASSUME IsStore(db), NEW request \in Requests, Lists!ValidFilters(request.filters)
             PROVE
        LET rows == Lists!Selected(Lists!Table, request)
            Sorted(l, r) == Lists!OrderItems(request.ordering, l, r)
            Boundaries == UNION {{Lists!KeyOf(r), [Lists!KeyOf(r) EXCEPT !.sequence = MaxI64 + 1]} : r \in Lists!Table}
            KeyAt(n) == Lists!KeyOf(CHOOSE r \in rows : Lists!Cardinality({o \in rows : Sorted(o, r)}) = n - 1)
        IN  /\ \A l, r \in Lists!Table : Lists!Precedes(request.ordering, l, r) <=> Sorted(l, r)
            /\ \A boundary \in Boundaries :
                  Lists!Candidates(Lists!Table, request, boundary) = {r \in rows : Sorted(boundary, r)}
            /\ \A n \in 0..Lists!Cardinality(rows) :
                  LET page == Lists!KeysetPage(Lists!Table, request, IF n = 0 THEN None ELSE KeyAt(n))
                  IN  Lists!OffsetPage(Lists!Table, request, n) =
                        [records |-> page.records,
                         next |-> IF page.has_more THEN n + request.limit ELSE None]
  BY DEF Lists!PagesAreAsInV1
<1> DEFINE rows == Lists!Selected(Lists!Table, request)
           Sorted(l, r) == Lists!OrderItems(request.ordering, l, r)
           Boundaries == UNION {{Lists!KeyOf(r), [Lists!KeyOf(r) EXCEPT !.sequence = MaxI64 + 1]} : r \in Lists!Table}
           KeyAt(n) == Lists!KeyOf(CHOOSE r \in rows : Cardinality({o \in rows : Sorted(o, r)}) = n - 1)
<1>1. \A l, r \in Lists!Table : Lists!Precedes(request.ordering, l, r) <=> Sorted(l, r)
  <2>1. request.ordering \in Lists!Orderings
    BY ReadsAssumption DEF Lists!PagesAssumption, Lists!Request
  <2>2. QED BY <2>1, TableOfRows, RowIsKey, OrderIsV1s DEF IsRows
<1>2. \A boundary \in Boundaries :
         Lists!Candidates(Lists!Table, request, boundary) = {r \in rows : Sorted(boundary, r)}
  <2> SUFFICES ASSUME NEW boundary \in Boundaries
               PROVE  Lists!Candidates(Lists!Table, request, boundary) = {r \in rows : Sorted(boundary, r)}
    OBVIOUS
  <2>1. PICK row \in Lists!Table :
            boundary \in {Lists!KeyOf(row), [Lists!KeyOf(row) EXCEPT !.sequence = MaxI64 + 1]}
    OBVIOUS
  <2>2. QED BY <2>1, BoundariesAreKept
<1>3. ASSUME NEW n \in 0..Cardinality(rows)
      PROVE  LET page == Lists!KeysetPage(Lists!Table, request, IF n = 0 THEN None ELSE KeyAt(n))
             IN  Lists!OffsetPage(Lists!Table, request, n) =
                   [records |-> page.records,
                    next |-> IF page.has_more THEN n + request.limit ELSE None]
  <2> DEFINE after == IF n = 0 THEN None ELSE KeyAt(n)
  <2>1. AtOffset(request, n, AfterRows(request, n))
    BY PagesAreV1s
  <2>2. AfterRows(request, n) = after
    BY DEF AfterRows
  <2>3. QED BY <2>1, <2>2 DEF AtOffset
<1>4. QED BY <1>1, <1>2, <1>3, SameListCardinality

(* Of any table, in any order of requests, keyset pages are the pages that  *)
(* v1's predicates, comparator and offsets give (read_semantics.rs,         *)
(* projection_reads.rs).                                                    *)
THEOREM KeysetPagesAreV1s == ReadsSpec => []PagesAreAsInV1
<1>1. ItemPagesInv => PagesAreAsInV1
  BY TablesPageAsInV1 DEF ItemPagesInv, ListInv, PagesAreAsInV1
<1>2. QED BY <1>1, ItemPagesAreKept, PTL
=============================================================================
