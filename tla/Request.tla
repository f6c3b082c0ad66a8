------------------------------ MODULE Request ------------------------------
(***************************************************************************)
(* The body of a request as a handler sees it (serve.rs): req.read, the    *)
(* accessors of the whole body, and what valid_query, valid_params and     *)
(* valid_body give to lur.validate.try.  A body is the sequence of its     *)
(* bytes; what it decodes to is part of the request.                       *)
(***************************************************************************)
EXTENDS Listing

CONSTANTS
    Bytes,    \* what a body is made of
    Nothing,  \* nil, and a key that is not there
    Raises,   \* an error that is not an abort
    Panic     \* a slice out of bounds

ASSUME OutcomeAssumption ==
    {Nothing, Panic} \cap (Seq(Bytes) \cup {Raises}) = {} /\ Nothing # Panic

(* BodyStream, but for the body. *)
Unread == [cursor |-> 0, streamed |-> FALSE]

(* &body[from..to], which panics out of bounds. *)
Slice(body, from, to) ==
    IF 0 <= from /\ from <= to /\ to <= Len(body) THEN SubSeq(body, from + 1, to) ELSE Panic

(* An operation leaves st and returns out. *)
Leaves(st, out) == [st |-> st, out |-> out]

(* req.read(): the rest, which does not count as streaming. *)
ReadRest(body, st) ==
    Leaves([st EXCEPT !.cursor = Len(body)], Slice(body, st.cursor, Len(body)))

AtMost(n, most) == IF n <= most THEN n ELSE most

(* Mutant: the cursor moves by what was asked for. *)
ReadBeyond(body, st, n) ==
    IF st.cursor >= Len(body) /\ n > 0
    THEN Leaves([st EXCEPT !.streamed = TRUE], Nothing)
    ELSE Leaves([cursor |-> st.cursor + n, streamed |-> TRUE],
                Slice(body, st.cursor, AtMost(st.cursor + n, Len(body))))

(* req.read(n): nil once the body is exhausted. *)
ReadSome(body, st, n) ==
    IF st.cursor >= Len(body) /\ n > 0
    THEN Leaves([st EXCEPT !.streamed = TRUE], Nothing)
    ELSE LET end == AtMost(st.cursor + n, Len(body)) IN
         Leaves([cursor |-> end, streamed |-> TRUE], Slice(body, st.cursor, end))

(* req.body, and the body that json, form and valid_body decode. *)
WholeBody(body, st) == Leaves(st, IF st.streamed THEN Raises ELSE body)

Does(body, st, op) ==
    CASE op.call = "rest" -> ReadRest(body, st)
      [] op.call = "whole" -> WholeBody(body, st)
      [] op.call = "some" -> ReadSome(body, st, op.n)

(* One more operation of a handler, after those that returned s.outs. *)
Handles(body, s, op) ==
    LET did == Does(body, s.st, op) IN
    [st |-> did.st, outs |-> Append(s.outs, did.out)]

(* The operations of a handler one after another, with what each returned. *)
Handled(body, ops) ==
    LET after[n \in 0 .. Len(ops)] ==
            IF n = 0 THEN [st |-> Unread, outs |-> <<>>] ELSE Handles(body, after[n - 1], ops[n]) IN
    after[Len(ops)]

-----------------------------------------------------------------------------
(* last_table and all_table, over pairs in their order. *)
Put(t, k, v) == [x \in DOMAIN t \cup {k} |-> IF x = k THEN v ELSE t[x]]
NoFields == [x \in {} |-> Nothing]

LastTable(pairs) ==
    LET t[n \in 0 .. Len(pairs)] ==
            IF n = 0 THEN NoFields ELSE Put(t[n - 1], pairs[n][1], pairs[n][2]) IN
    t[Len(pairs)]

ListAt(t, k) == IF k \in DOMAIN t THEN t[k] ELSE <<>>

AllTable(pairs) ==
    LET t[n \in 0 .. Len(pairs)] ==
            IF n = 0
            THEN NoFields
            ELSE Put(t[n - 1], pairs[n][1], Append(ListAt(t[n - 1], pairs[n][1]), pairs[n][2])) IN
    t[Len(pairs)]

(* lists are the names list_field_names finds in the schema. *)
FeedLists(source, lists, all) ==
    [x \in DOMAIN source \cup (lists \cap DOMAIN all) |->
        IF x \in lists /\ x \in DOMAIN all THEN all[x] ELSE source[x]]

Ready(input, empty_json) == [ready |-> TRUE, input |-> input, empty_json |-> empty_json]
Abort(status) == [abort |-> status]
Rejected(error) == [ready |-> FALSE, error |-> error]

(* BodyReq::read: the body as the input of try, or the error that rejects  *)
(* it.  decodes is what json.decode makes of it: blank, bad, a memory      *)
(* error, or a value.                                                      *)
BodyInput(req, lists) ==
    CASE req.type = "json" /\ req.decodes = "blank" -> Ready(Nothing, TRUE)
      [] req.type = "json" /\ req.decodes = "bad" -> Rejected(Abort(400))
      [] req.type = "json" /\ req.decodes = "oom" -> Rejected(Raises)
      [] req.type = "json" /\ req.decodes \notin {"blank", "bad", "oom"} -> Ready(req.decodes, FALSE)
      [] req.type = "form" -> Ready(FeedLists(LastTable(req.pairs), lists, AllTable(req.pairs)), FALSE)
      [] OTHER -> Rejected(Abort(415))

(* valid_body: accepts says what try makes of an input. *)
ValidBody(req, st, lists, accepts, fail_status) ==
    LET read == BodyInput(req, lists) IN
    IF st.streamed THEN Raises
    ELSE IF ~read.ready THEN read.error
    ELSE IF accepts[read.input] THEN [value |-> read.input]
    ELSE Abort(IF read.empty_json THEN 400 ELSE fail_status)

(* valid_query; valid_params has no lists to feed. *)
ValidQuery(pairs, lists) == FeedLists(LastTable(pairs), lists, AllTable(pairs))

-----------------------------------------------------------------------------
(* What read and read(n) gave, one chunk after another. *)
Chunks(ops, outs) ==
    LET given[n \in 0 .. Len(ops)] ==
            IF n = 0
            THEN <<>>
            ELSE IF ops[n].call = "whole" \/ outs[n] = Nothing
            THEN given[n - 1]
            ELSE given[n - 1] \o outs[n] IN
    given[Len(ops)]

(* However a handler mixes the ways to read a body, the chunks it was      *)
(* given are the body from its start, no byte twice and none left out, and *)
(* an accessor of the whole body never answers with a part of it: it       *)
(* raises from the first read(n) on (serve.rs:1090-1110, 1521-1522).       *)
BodyReadOnce(body, ops) ==
    LET h == Handled(body, ops) IN
    /\ \A i \in 1 .. Len(ops) : h.outs[i] # Panic
    /\ h.st.cursor <= Len(body)
    /\ Chunks(ops, h.outs) = SubSeq(body, 1, h.st.cursor)
    /\ \A i \in 1 .. Len(ops) :
          ops[i].call = "whole" =>
              h.outs[i] = IF \E j \in 1 .. i - 1 : ops[j].call = "some" THEN Raises ELSE body

(* The pairs of a key, in their order. *)
Sent(pairs, k) == Unlisted(pairs, {p \in Range(pairs) : p[1] # k})

(* A field of the input is the last value of its key, and a list field all *)
(* of them in their order, whether they came in the query or in a form; a  *)
(* key that was not sent is not there (serve.rs:1301-1303, 1461-1462).     *)
EveryValueFed(pairs, lists) ==
    LET input == ValidQuery(pairs, lists)
        form == [type |-> "form", pairs |-> pairs] IN
    /\ DOMAIN input = {pairs[i][1] : i \in DOMAIN pairs}
    /\ \A k \in DOMAIN input :
          LET sent == Sent(pairs, k) IN
          IF k \in lists
          THEN input[k] = [i \in DOMAIN sent |-> sent[i][2]]
          ELSE input[k] = sent[Len(sent)][2]
    /\ ValidBody(form, Unread, lists, [x \in {input} |-> TRUE], 422) = [value |-> input]
=============================================================================
