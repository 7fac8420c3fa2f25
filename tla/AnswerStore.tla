---------------------------- MODULE AnswerStore ----------------------------
(***************************************************************************)
(* The `answers` table of the local store (store.py): what each method of  *)
(* Store does to one row.  Every method is one SQLite transaction          *)
(* (Store._tx), so each operator below is applied by one atomic step of    *)
(* the modules that use it; what happens between two of them is theirs.    *)
(*                                                                         *)
(* A payload is the built LLMAnswer, of which only this is kept:           *)
(*   kind  what it says: an answer, or which pass or phase failed          *)
(*   inv   the invocation of the program that built it, its identity       *)
(*   p1    the invocation whose Pass-1 text it carries, 0 if it has none   *)
(*   fmt   the invocation whose Pass-1 text the Pass-2 reply was asked     *)
(*         to format, 0 if Pass 2 was not reached                          *)
(***************************************************************************)
EXTENDS Naturals

\* The error answers a later run should compute again (the callers mark
\* their rows 'failed'), and those that are final.
ProviderErrors == {"p1_error", "p2_error"}
FinalErrors    == {"no_ocr", "p1_lost", "parse_error"}

Kinds == {"answer", "dummy"} \union ProviderErrors \union FinalErrors

Payload == [kind : Kinds, inv : Nat, p1 : Nat, fmt : Nat]

NoPayload == [kind |-> "none", inv |-> 0, p1 |-> 0, fmt |-> 0]

\* mapping.payload_is_error: the payloads counted in cells_error.
IsError(payload) == payload.kind \in ProviderErrors \union FinalErrors

Statuses == {"absent", "done", "posted", "failed", "pass1_done"}

Row == [status : Statuses, payload : Payload \union {NoPayload}, posted : BOOLEAN]

\* No row in the table.
NoRow == [status |-> "absent", payload |-> NoPayload, posted |-> FALSE]

---------------------------------------------------------------------------
(* Writes.  (A definition called a variant is a plausible mistake in the   *)
(* one it precedes; the properties are tried on it.)                       *)

\* INSERT OR REPLACE: a whole new row, so posted_at is NULL again.
SaveAnswer(payload) == [status |-> "done", payload |-> payload, posted |-> FALSE]

SavePass1(payload) == [status |-> "pass1_done", payload |-> payload, posted |-> FALSE]

\* Variant: the second transaction is forgotten.
MarkFailedForgotten(row) == row

\* An UPDATE: a row that does not exist stays so, and posted_at is kept.
MarkFailed(row) ==
    IF row.status = "absent" THEN row ELSE [row EXCEPT !.status = "failed"]

\* Delivery is recorded whatever the status; only 'done' becomes 'posted'.
MarkPosted(row) ==
    IF row.status = "absent"
    THEN row
    ELSE [row EXCEPT !.posted = TRUE,
                     !.status = IF @ = "done" THEN "posted" ELSE @]

\* An UPDATE of payload and status; posted_at is kept.
UpdateReformatted(row, payload) ==
    IF row.status = "absent"
    THEN row
    ELSE [row EXCEPT !.status = "done", !.payload = payload]

---------------------------------------------------------------------------
(* Queries.                                                                *)

\* Variant: a failed cell counts as settled.
ShouldSkipFailed(row) == row.status \in {"done", "posted", "failed"}

ShouldSkip(row) == row.status \in {"done", "posted"}

\* Variant: delivery is told from the status, as it was before posted_at.
UnpostedByStatus(row) == row.status = "done" /\ row.payload # NoPayload

\* get_unposted: what `run` still owes to SEER.
Unposted(row) ==
    /\ ~row.posted
    /\ row.status \in {"done", "failed"}
    /\ row.payload # NoPayload

\* Variant: `repost` sends only what is not marked delivered.
PostableUndelivered(row) ==
    /\ ~row.posted
    /\ row.status \in {"done", "posted", "failed"}
    /\ row.payload # NoPayload

\* get_postable: what `repost` sends.
Postable(row) ==
    /\ row.status \in {"done", "posted", "failed"}
    /\ row.payload # NoPayload

\* finished_cells: the rows the progress counters start from.
Finished(row) ==
    /\ row.payload # NoPayload
    /\ row.status # "pass1_done"

\* get_reformattable_rows.
Reformattable(row) ==
    /\ row.status \in {"done", "posted"}
    /\ row.payload # NoPayload
=============================================================================
