----------------------------- MODULE ShellResult -----------------------------
(***************************************************************************)
(* From the bytes a shell command writes to the outcome row of its tool:   *)
(* the two drains of the workstation (execution.rs), the evidence and the  *)
(* bounded result the tool service makes of them                           *)
(* (tool_execution_service.rs), and the checks of the store that decide    *)
(* whether the definite outcome is committed (stage8.rs, stage8_codec.rs). *)
(*                                                                         *)
(* A byte is its role: "a" plain, "c" a control character JSON escapes,    *)
(* "n" NUL, "l" and "t" the lead and the trail of a two-byte character.    *)
(* A text is a sequence of characters: "a", "c", "n", "lt" and "R", the    *)
(* replacement character that from_utf8_lossy puts for a broken one.       *)
(***************************************************************************)
EXTENDS Integers, Sequences, SequencesExt, FiniteSetsExt

CONSTANTS Bytes,         \* the bytes a command writes in this instance
          ReadBuffer,    \* READ_BUFFER_BYTES
          HeadBytes, TailBytes, \* EXECUTION_STREAM_PROJECTION_HEAD_BYTES, _TAIL_BYTES
          CaptureLimit,  \* stdout_capture_bytes, stderr_capture_bytes
          PerStream,     \* per_stream_projection_bytes
          Inline,        \* inline_model_result_bytes
          ChunkBytes,    \* bytes of one field of projected text
          FixedJson,     \* JSON bytes of everything but the projected text
          KeyJson,       \* JSON bytes of one more field, without its text
          MaxJson,       \* MAX_TOOL_RESULT_JSON_BYTES
          MaxWritten     \* bound: the bytes written to each stream

VARIABLES written,  \* every byte read from the stream so far
          first,    \* drain_stream: the first Projection bytes
          tail,     \* drain_stream: the last TailBytes bytes
          captured, \* bytes kept in the artifact
          ended,    \* the streams whose drain has been joined
          outcome   \* what the tool service and the store made of it

vars == <<written, first, tail, captured, ended, outcome>>

Stream == {"stdout", "stderr"}
Projection == HeadBytes + TailBytes
NoOutcome == [state |-> "none"]

\* What the configuration has to satisfy, and what the code's constants do.
ValidLimits ==
    /\ \A s \in Stream : PerStream <= CaptureLimit[s]
    /\ 2 * PerStream <= Inline
    /\ PerStream <= Projection
    /\ ChunkBytes >= 3 /\ ReadBuffer > 0 /\ FixedJson <= MaxJson

Width == [a |-> 1, c |-> 1, n |-> 1, lt |-> 2, R |-> 3]
JsonWidth == [a |-> 1, c |-> 6, n |-> 6, lt |-> 2, R |-> 3]
Sum(widths, text) ==
    LET upto[i \in 0..Len(text)] == IF i = 0 THEN 0 ELSE upto[i - 1] + widths[text[i]]
    IN upto[Len(text)]
Size(text) == Sum(Width, text)

Least(m, n) == Min({m, n})
SatSub(m, n) == Max({0, m - n})

\* String::from_utf8_lossy on these bytes: a trail belongs to the lead before it.
from_utf8_lossy(bytes) ==
    LET paired(i) == bytes[i] = "t" /\ i > 1 /\ bytes[i - 1] = "l"
        whole(i) == bytes[i] = "l" /\ i < Len(bytes) /\ bytes[i + 1] = "t"
        char(i) == IF whole(i) THEN "lt"
                   ELSE IF bytes[i] \in {"l", "t"} THEN "R" ELSE bytes[i]
        starts == SelectSeq([i \in 1..Len(bytes) |-> i], LAMBDA i : ~paired(i))
    IN [k \in DOMAIN starts |-> char(starts[k])]

LastOf(seq, n) == SubSeq(seq, SatSub(Len(seq), n) + 1, Len(seq))
-------------------------------------------------------------------------------
(* The drains *)

retain_tail(old, chunk) ==
    IF Len(chunk) >= TailBytes THEN LastOf(chunk, TailBytes)
    ELSE SubSeq(old, SatSub(Len(old) + Len(chunk), TailBytes) + 1, Len(old)) \o chunk

\* One read of drain_stream: whatever the command has written, up to the buffer.
Read(s) ==
    /\ s \notin ended
    /\ \E n \in 1..Least(ReadBuffer, MaxWritten[s] - Len(written[s])) :
         \E chunk \in [1..n -> Bytes] :
           /\ written' = [written EXCEPT ![s] = @ \o chunk]
           /\ captured' = [captured EXCEPT ![s] = Least(CaptureLimit[s], @ + n)]
           /\ first' = [first EXCEPT ![s] =
                           @ \o SubSeq(chunk, 1, Least(SatSub(Projection, Len(@)), n))]
           /\ tail' = [tail EXCEPT ![s] = retain_tail(@, chunk)]
    /\ UNCHANGED <<ended, outcome>>

\* The read of zero bytes: the drain finalizes its capture and is joined.
DrainEnds(s) ==
    /\ s \notin ended
    /\ ended' = ended \cup {s}
    /\ UNCHANGED <<written, first, tail, captured, outcome>>

\* The command is not spawned: both captures are finalized empty.
finalize_empty ==
    /\ ended = {} /\ \A s \in Stream : written[s] = <<>>
    /\ ended' = Stream
    /\ UNCHANGED <<written, first, tail, captured, outcome>>

\* The bytes drain_stream projects, and the ExecutionStreamResult it returns.
projection_bytes(s) ==
    IF Len(written[s]) <= Projection THEN first[s]
    ELSE SubSeq(first[s], 1, Least(HeadBytes, Len(first[s]))) \o tail[s]

drain_stream(s) ==
    [projection |-> from_utf8_lossy(projection_bytes(s)),
     observed |-> Len(written[s]), captured |-> captured[s]]
-------------------------------------------------------------------------------
(* The result *)

\* The longest prefix that ends at a character boundary within max bytes.
truncate_utf8(text, max) ==
    SubSeq(text, 1, Max({k \in 0..Len(text) : Size(SubSeq(text, 1, k)) <= max}))

stream_evidence(result, remaining) ==
    LET text == truncate_utf8(result.projection, Least(PerStream, remaining))
    IN [text |-> text, observed |-> result.observed, captured |-> result.captured,
        returned |-> Size(text), omitted |-> SatSub(result.observed, Size(text))]

\* The sizes of the fields a text is cut into, each ending at a character boundary.
insert_projection_chunks(text) ==
    FoldLeft(LAMBDA chunks, ch :
               IF chunks # <<>> /\ Last(chunks) + Width[ch] <= ChunkBytes
               THEN [chunks EXCEPT ![Len(chunks)] = @ + Width[ch]]
               ELSE Append(chunks, Width[ch]),
             <<>>, text)

Json(texts) ==
    FixedJson + FoldLeft(LAMBDA n, text : n + Sum(JsonWidth, text)
                                + KeyJson * Len(insert_projection_chunks(text)), 0, texts)
fits(texts) == Json(texts) <= MaxJson

build(stdout, stderr, budget) ==
    LET out == truncate_utf8(stdout, Least(Size(stdout), budget))
        err == truncate_utf8(stderr, Least(Size(stderr), SatSub(budget, Size(out))))
    IN <<out, err>>

\* The binary search for a budget; what it returns fits, or there is no result.
bounded_shell_result_fields(stdout, stderr) ==
    LET maximum == Size(stdout) + Size(stderr)
        search[range \in (0..maximum) \X (0..maximum)] ==
            LET low == range[1]
                high == range[2]
                midpoint == low + (high - low + 1) \div 2
            IN IF low >= high THEN low
               ELSE IF fits(build(stdout, stderr, midpoint)) THEN search[<<midpoint, high>>]
               ELSE search[<<low, midpoint - 1>>]
    IN IF fits(<<stdout, stderr>>) THEN <<stdout, stderr>>
       ELSE build(stdout, stderr, search[<<0, maximum>>])

\* The counts left as they were before the result was bounded.
stale_stream_projection_counts(counts, returned) == counts

update_stream_projection_counts(counts, returned) ==
    [counts EXCEPT !.returned = returned, !.omitted = SatSub(counts.observed, returned)]
-------------------------------------------------------------------------------
(* The store *)

validate_stream_counts(counts) ==
    /\ counts.observed >= counts.captured
    /\ counts.captured >= counts.returned
    /\ counts.omitted = counts.observed - counts.returned

\* No field is longer than the store takes, none holds NUL, and the row fits.
encode_tool_result(texts) ==
    /\ \A i \in DOMAIN texts : "n" \notin ToSet(texts[i])
    /\ fits(texts)

\* A definite result: evidence of both streams, bounded, and offered to the store.
finish_run_shell ==
    /\ ended = Stream /\ outcome = NoOutcome
    /\ LET out == stream_evidence(drain_stream("stdout"), Inline)
           err == stream_evidence(drain_stream("stderr"), SatSub(Inline, Size(out.text)))
           texts == bounded_shell_result_fields(out.text, err.text)
           stdout == update_stream_projection_counts(out, Size(texts[1]))
           stderr == update_stream_projection_counts(err, Size(texts[2]))
           counts == {stdout, stderr}
       IN outcome' =
            [state |-> IF /\ fits(texts) /\ encode_tool_result(texts)
                          /\ \A c \in counts : validate_stream_counts(c)
                       THEN "committed" ELSE "refused",
             text |-> [s \in Stream |-> IF s = "stdout" THEN texts[1] ELSE texts[2]],
             truncated |-> \E c \in counts : c.observed > c.captured \/ c.omitted > 0]
    /\ UNCHANGED <<written, first, tail, captured, ended>>

Init ==
    /\ written = [s \in Stream |-> <<>>]
    /\ first = written /\ tail = written
    /\ captured = [s \in Stream |-> 0]
    /\ ended = {}
    /\ outcome = NoOutcome

Next ==
    \/ \E s \in Stream : Read(s) \/ DrainEnds(s)
    \/ finalize_empty
    \/ finish_run_shell

Spec == Init /\ [][Next]_vars
-------------------------------------------------------------------------------
(* The drains hold what they are sized for, and the artifact its limit. *)
TypeOK ==
    /\ \A s \in Stream : /\ written[s] \in Seq(Bytes)
                         /\ Len(first[s]) <= Projection /\ Len(tail[s]) <= TailBytes
                         /\ captured[s] \in 0..CaptureLimit[s]
    /\ ended \subseteq Stream
    /\ outcome.state \in {"none", "committed", "refused"}

(* drain_stream: however the pipe cuts the output into reads, the projection *)
(* is the whole output when that fits and its head and tail when it does not. *)
ProjectionFaithful ==
    \A s \in Stream :
       projection_bytes(s) = IF Len(written[s]) <= Projection THEN written[s]
                             ELSE SubSeq(written[s], 1, HeadBytes) \o LastOf(written[s], TailBytes)

IsText(bytes) == ToSet(from_utf8_lossy(bytes)) \cap {"R", "n"} = {}
TextOnly == \A s \in Stream : IsText(written[s])

(* finish_run_shell: the definite outcome of a command whose output is text  *)
(* is committed, whatever the cuts at the projection's head and tail, at the *)
(* per-stream limit and at the JSON ceiling did to the counts.               *)
TextOutcomeCommits ==
    outcome.state # "none" /\ TextOnly => outcome.state = "committed"

(* finish_run_shell: a result of text that is not marked truncated shows the *)
(* model every byte the command wrote to either stream.                      *)
TruncationIsTold ==
    (outcome.state = "committed" /\ TextOnly) =>
      (outcome.truncated \/ \A s \in Stream : outcome.text[s] = from_utf8_lossy(written[s]))

(* The definite outcome of a command is committed whatever bytes it wrote:   *)
(* what run_shell_maps_definite_result_classes_without_retry expects of its  *)
(* mocked output with a NUL, and what projecting lossily is for.             *)
DefiniteOutcomeCommits == outcome.state # "refused"
===============================================================================
