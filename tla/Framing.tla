------------------------------ MODULE Framing ------------------------------
(***************************************************************************)
(* How a snapshot travels over the stream: writeSSE cuts it into lines, and*)
(* the browser's EventSource puts them together again.  A text is a        *)
(* sequence of tokens: "CR" and "LF" end lines, "data:" and "event:" begin *)
(* fields, any other token is a piece of text.                             *)
(***************************************************************************)
EXTENDS SequencesExt

\* ReplaceAll: CRLF becomes LF, then CR becomes LF.
UniformLineEnds(text) ==
    LET Add(done, i) ==
            CASE text[i] = "CR" -> Append(done, "LF")
              [] text[i] = "LF" /\ i > 1 /\ text[i - 1] = "CR" -> done
              [] OTHER -> Append(done, text[i])
    IN FoldLeft(Add, <<>>, [i \in 1..Len(text) |-> i])

\* strings.Split at every line feed.
Split(text) ==
    LET Add(lines, token) ==
            IF token = "LF" THEN Append(lines, <<>>)
            ELSE [lines EXCEPT ![Len(lines)] = Append(@, token)]
    IN FoldLeft(Add, << <<>> >>, text)

\* Mutation of normalized: the data is split as it is.
AsItIs(data) == data

normalized(data) == UniformLineEnds(data)

writeSSE(event, data) ==
    LET lines == Split(normalized(data)) IN
       <<"event:", " ", event, "LF">>
    \o FlattenSeq([i \in DOMAIN lines |-> <<"data:", " ">> \o lines[i] \o <<"LF">>])
    \o <<"LF">>

-----------------------------------------------------------------------------
(* EventSource: every kind of line end counts, one space after the colon   *)
(* does not, unknown fields are ignored, and an empty line ends the event. *)

Value(line) ==
    IF Len(line) > 1 /\ line[2] = " " THEN SubSeq(line, 3, Len(line)) ELSE Tail(line)

Joined(lines) == Tail(FlattenSeq([i \in DOMAIN lines |-> <<"LF">> \o lines[i]]))

Empty == [type |-> <<>>, data |-> <<>>]

\* The events a client reads from what was written.
EventSource(wire) ==
    LET Add(state, line) ==
            CASE line = <<>> ->
                   [events |-> IF state.event.data = <<>> THEN state.events
                               ELSE Append(state.events, [state.event EXCEPT !.data = Joined(@)]),
                    event  |-> Empty]
              [] line # <<>> /\ Head(line) = "data:" ->
                   [state EXCEPT !.event.data = Append(@, Value(line))]
              [] line # <<>> /\ Head(line) = "event:" ->
                   [state EXCEPT !.event.type = Value(line)]
              [] OTHER -> state
    IN FoldLeft(Add, [events |-> <<>>, event |-> Empty],
                Front(Split(UniformLineEnds(wire)))).events
=============================================================================
