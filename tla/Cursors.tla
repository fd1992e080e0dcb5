------------------------------ MODULE Cursors ------------------------------
(***************************************************************************)
(* Continuation cursors (application/cursors.rs): what a token carries, in *)
(* which order a received one is refused, and what it is bound to.  A      *)
(* token is an envelope as the wire format allows it, or one of two tokens *)
(* that do not decode to one.                                              *)
(***************************************************************************)
EXTENDS ReadQueries

CursorVersion == 1  \* also of the order and of the projection schema

KindOf(ordering) == IF ordering = "newest_first" THEN "list" ELSE "next"

(* A generation as written: absent, not a generation, or the n-th drawn.    *)
NoGeneration == 0
BadGeneration == -1

ItemBoundary(key) == [type |-> "item", key |-> key]
HistoryBoundary(key) == [type |-> "history", key |-> key]

Oversized == [type |-> "oversized"]     \* more than MAX_CURSOR_BYTES
Garbled == [type |-> "garbled"]         \* not hexadecimal JSON of the right shape
-----------------------------------------------------------------------------
(* CursorContext: expected kind, store, generation and query.               *)

ItemContext(store, generation, request) ==
    [kind |-> KindOf(request.ordering), store |-> store, generation |-> generation,
     query |-> Fingerprint(store, request)]

HistoryContext(store, generation, item) ==
    [kind |-> "history", store |-> store, generation |-> generation,
     query |-> <<"history", store, item>>]

Encode(context, boundary) ==
    [type |-> "cursor", version |-> CursorVersion, kind |-> context.kind,
     store |-> context.store, generation |-> context.generation,
     query |-> context.query, boundary |-> boundary]

-----------------------------------------------------------------------------
(* DecodedCursor::parse, without any context.                               *)

BoundaryFits(kind, boundary) == (kind = "history") <=> (boundary.type = "history")

(* RequesterId, ProjectId, ItemId and Revision refuse what is not canonical;*)
(* of a key's numbers that leaves sequence and revision, which are positive.*)
CanonicalKey(boundary) ==
    IF boundary.type = "item" THEN boundary.key.sequence > 0
    ELSE boundary.key.revision > 0

ParseError(token) ==
    IF token = Oversized THEN "oversized"
    ELSE IF token = Garbled THEN "malformed"
    ELSE IF token.version # CursorVersion THEN "unsupported_version"
    ELSE IF token.generation = NoGeneration THEN "generation_missing"
    ELSE IF token.generation = BadGeneration \/ ~CanonicalKey(token.boundary) THEN "malformed"
    ELSE IF ~BoundaryFits(token.kind, token.boundary) THEN "wrong_kind"
    ELSE None

\* Mutant: the generation is not compared.
BindErrorAnyGeneration(context, cursor) ==
    IF cursor.kind # context.kind THEN "wrong_kind"
    ELSE IF cursor.store # context.store THEN "wrong_store"
    ELSE IF cursor.query # context.query THEN "wrong_query"
    ELSE None

(* CursorContext::bind *)
BindError(context, cursor) ==
    IF cursor.kind # context.kind THEN "wrong_kind"
    ELSE IF cursor.store # context.store THEN "wrong_store"
    ELSE IF cursor.generation # context.generation THEN "wrong_generation"
    ELSE IF cursor.query # context.query THEN "wrong_query"
    ELSE None

CursorErrors == {"oversized", "malformed", "unsupported_version", "generation_missing",
                 "wrong_kind", "wrong_store", "wrong_generation", "wrong_query"}

CursorError(context, token) ==
    IF ParseError(token) # None THEN ParseError(token) ELSE BindError(context, token)
=============================================================================
