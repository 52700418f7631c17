------------------------------ MODULE Migration ------------------------------
(***************************************************************************)
(* One streamed generation as the mixed router carries it from worker to   *)
(* worker: MigrationState (infera/router/migration.py) fed by generate()   *)
(* and _resume_elsewhere() (infera/router/mixed.py), over NATS.            *)
(*                                                                         *)
(* A token is its place in the generation.  A worker goes on from what it  *)
(* was given: handed n tokens, the next one it produces is n + 1, so a     *)
(* continuation that leaves out what the client has read makes it read     *)
(* that again.  A line of the stream is one of                             *)
(*   text     a token as plain text                                        *)
(*   other    a token as part of a tool call or of reasoning (chat only)   *)
(*   quiet    no output: a role, a finish reason, the usage                *)
(*   several  a chunk with more than one choice                            *)
(*   garbage  data that is not JSON                                        *)
(***************************************************************************)
EXTENDS Naturals, Sequences

CONSTANTS
    Kinds,              \* the kinds of lines the engines send
    Budget,             \* max_tokens of the request
    Migrations,         \* migration_limit
    LateBreaks          \* may a stream break after its sentinel was read?

ASSUME MigrationConfig ==
    /\ Kinds \subseteq {"text", "other", "quiet", "several", "garbage"}
    /\ Budget \in Nat \ {0}
    /\ Migrations \in Nat
    /\ LateBreaks \in BOOLEAN

VARIABLES
    body,       \* the request: shape of its prompt, chat-only fields
    seen,       \* what the client has read
    text,       \* _text
    ids,        \* _output_ids
    prompt,     \* _prompt_ids is known
    covers,     \* _ids_cover_output
    poisoned,
    left,       \* migrations_left
    cur,        \* the worker that is streaming
    closed,     \* the client has read the [DONE] sentinel
    pc

stateVars == <<text, ids, prompt, covers, poisoned>>
migrationVars == <<body, seen, text, ids, prompt, covers, poisoned, left, cur, closed, pc>>

Bodies == [shape : {"chat", "string", "ids"}, chatOnly : BOOLEAN, several : BOOLEAN]
Streaming == [given : Nat, budget : Nat, asked : BOOLEAN, chat : BOOLEAN, over : BOOLEAN]
Ends == {"ended", "failed", "crashed"}

MigrationTypeOK ==
    /\ body \in Bodies
    /\ seen \in Seq(Nat) /\ text \in Seq(Nat) /\ ids \in Seq(Nat)
    /\ prompt \in BOOLEAN /\ covers \in BOOLEAN /\ poisoned \in BOOLEAN
    /\ left \in 0..Migrations
    /\ cur \in Streaming
    /\ closed \in BOOLEAN
    /\ pc \in {"peek", "open"} \cup Ends

\* The first line is being awaited (peek); a failure before it is not carried
\* but retried.  _attempt asks for ids where the engine supports them on this endpoint.
\* A request for several completions is poisoned up front.
MigrationInit ==
    /\ body \in Bodies
    /\ body.chatOnly => body.shape = "chat"
    /\ seen = <<>> /\ text = <<>> /\ ids = <<>>
    /\ prompt = FALSE
    /\ covers = TRUE
    /\ poisoned = body.several
    /\ left = Migrations
    /\ \E asked \in BOOLEAN :
         cur = [given |-> 0, budget |-> Budget, asked |-> asked,
                chat |-> body.shape = "chat", over |-> FALSE]
    /\ closed = FALSE
    /\ pc = "peek"

-----------------------------------------------------------------------------
(* MigrationState *)

has_exact_output == covers /\ ids # <<>>
produced_tokens == IF has_exact_output THEN Len(ids) ELSE Len(text)
is_exact == prompt /\ has_exact_output
can_migrate == ~poisoned /\ left > 0
convertible == body.shape # "chat" \/ ~body.chatOnly
Add(seq, token, wanted) == IF wanted THEN Append(seq, token) ELSE seq

Poison == poisoned' = TRUE

\* Mutant: text without ids does not end the id path.
record_textKeepsIds(token, withIds) ==
    IF ~withIds /\ body.shape = "ids"
    THEN Poison /\ UNCHANGED <<text, ids, covers>>
    ELSE /\ text' = Append(text, token)
         /\ ids' = Add(ids, token, withIds)
         /\ UNCHANGED <<covers, poisoned>>

\* _record, for a chunk with plain text.
record_text(token, withIds) ==
    IF ~withIds /\ body.shape = "ids"
    THEN Poison /\ UNCHANGED <<text, ids, covers>>
    ELSE /\ text' = Append(text, token)
         /\ ids' = Add(ids, token, withIds)
         /\ covers' = (covers /\ withIds)
         /\ UNCHANGED poisoned

\* _record, for a chunk of a tool call or of reasoning.
record_other(token, withIds) ==
    /\ IF withIds THEN UNCHANGED poisoned ELSE Poison
    /\ ids' = Add(ids, token, withIds)
    /\ UNCHANGED <<text, covers>>

\* Mutant: what cannot be parsed is skipped.
observeSkips(kind, token, withIds, withPrompt) ==
    IF poisoned \/ kind \in {"several", "garbage"}
    THEN UNCHANGED stateVars
    ELSE /\ prompt' = (prompt \/ withPrompt)
         /\ \/ kind = "text" /\ record_text(token, withIds)
            \/ kind = "other" /\ record_other(token, withIds)
            \/ kind = "quiet" /\ UNCHANGED <<text, ids, covers, poisoned>>

\* observe(): once poisoned nothing is recorded any more.
observe(kind, token, withIds, withPrompt) ==
    IF poisoned \/ kind \in {"several", "garbage"}
    THEN Poison /\ UNCHANGED <<text, ids, prompt, covers>>
    ELSE /\ prompt' = (prompt \/ withPrompt)
         /\ \/ kind = "text" /\ record_text(token, withIds)
            \/ kind = "other" /\ record_other(token, withIds)
            \/ kind = "quiet" /\ UNCHANGED <<text, ids, covers, poisoned>>

-----------------------------------------------------------------------------
(* generate() *)

\* A line of the stream is recorded and passed on.  Only a worker that was
\* asked for ids reports them, and it need not.
chunk(kind, withIds, withPrompt) ==
    /\ pc \in {"peek", "open"}
    /\ pc' = "open"
    /\ ~cur.over
    /\ kind = "other" => cur.chat
    /\ withIds \/ withPrompt => cur.asked
    /\ withIds => kind \in {"text", "other"}
    /\ observe(kind, cur.given + 1, withIds, withPrompt)
    /\ IF kind = "quiet" THEN UNCHANGED <<seen, cur>>
       ELSE /\ cur.budget > 0
            /\ seen' = Append(seen, cur.given + 1)
            /\ cur' = [given |-> cur.given + 1, budget |-> cur.budget - 1,
                       asked |-> cur.asked, chat |-> cur.chat, over |-> FALSE]
    /\ UNCHANGED <<body, left, closed>>

\* The engine has finished: the sentinel passes through.
sentinel ==
    /\ pc = "open"
    /\ ~cur.over
    /\ closed' = TRUE
    /\ cur' = [cur EXCEPT !.over = TRUE]
    /\ UNCHANGED <<body, seen, stateVars, left, pc>>

\* The done frame.
finish ==
    /\ pc = "open"
    /\ cur.over
    /\ pc' = "ended"
    /\ UNCHANGED <<body, seen, stateVars, left, cur, closed>>

MayBreak == pc = "open" /\ (cur.over => LateBreaks)

\* The stream breaks, or is handed back by a draining worker, and cannot be
\* carried: it is poisoned or moved too often, or no worker takes it.
end_visibly ==
    /\ MayBreak
    /\ pc' = "failed"
    /\ UNCHANGED <<body, seen, stateVars, left, cur, closed>>

AtLeastOne(n) == IF n < 1 THEN 1 ELSE n

\* Mutant: a moved generation gets its whole budget again.
base_budgetFull == Budget

\* _base_body: the budget less what was produced, never below one.
base_budget ==
    AtLeastOne(IF produced_tokens < Budget THEN Budget - produced_tokens ELSE 0)

\* next_continuation() on another worker, which is not asked for ids again.
exact_continuation ==
    /\ MayBreak
    /\ can_migrate
    /\ is_exact /\ convertible
    /\ left' = left - 1
    /\ cur' = [given |-> Len(ids), budget |-> base_budget, asked |-> FALSE,
               chat |-> FALSE, over |-> FALSE]
    /\ UNCHANGED <<body, seen, stateVars, closed, pc>>

text_continuation ==
    /\ MayBreak
    /\ can_migrate
    /\ ~(is_exact /\ convertible)
    /\ left' = left - 1
    /\ IF body.shape = "ids"
       THEN pc' = "crashed" /\ UNCHANGED cur
       ELSE /\ cur' = [given |-> Len(text), budget |-> base_budget, asked |-> FALSE,
                       chat |-> body.shape = "chat", over |-> FALSE]
            /\ UNCHANGED pc
    /\ UNCHANGED <<body, seen, stateVars, closed>>

MigrationNext ==
    \/ \E kind \in Kinds, i, p \in BOOLEAN : chunk(kind, i, p)
    \/ sentinel
    \/ finish
    \/ end_visibly
    \/ exact_continuation
    \/ text_continuation

MigrationSpec == MigrationInit /\ [][MigrationNext]_migrationVars
-----------------------------------------------------------------------------
(* Properties. *)

\* Exact ids are a record of the whole output: as long as the id path is not
\* abandoned, the ids are those of everything the client has read, through
\* tool calls, reasoning, several migrations and chunks without ids.
IdsCoverRead == (~poisoned /\ covers) => ids = seen

streamStatus ==
    IF closed THEN "done" ELSE IF pc \in {"failed", "crashed"} THEN "failed" ELSE "open"

Promise == INSTANCE ClientStream WITH out <- seen, status <- streamStatus

\* "The client sees one uninterrupted stream": what it reads is the generation
\* in order, none of it twice, until one sentinel or a visible error.
OneUninterruptedStream == Promise!Spec

\* The reduced budget adds up: over all its workers a generation produces at
\* most max_tokens, and one more for each migration (never below 1).
BudgetKept == Len(seen) + cur.budget <= Budget + (Migrations - left)
=============================================================================
