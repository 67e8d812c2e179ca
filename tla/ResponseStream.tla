--------------------------- MODULE ResponseStream ---------------------------
(***************************************************************************)
(* The way of one Claude Web answer to the client: transform_response      *)
(* (types/claude_web/response.rs) reads the service's events, appends the  *)
(* links to files and settles the session; materialize_explicit_response   *)
(* (claude_web_state/chat.rs) buffers it for a session; the layers         *)
(* apply_stop_sequences and add_usage_info or to_oai (middleware/claude)   *)
(* rewrite it.                                                             *)
(*                                                                         *)
(* The layers are streams that pull: without a session an event is read    *)
(* only when the client wants the next one, and what the layers stop       *)
(* pulling is dropped.  Text is a sequence of letters; the letter File     *)
(* names a file under the output directory.                                *)
(***************************************************************************)
EXTENDS Integers, Sequences, SequencesExt, FiniteSets

CONSTANTS
    Modes,      \* [explicit, stream: BOOLEAN, api: {"claude", "openai"}, stops: sets of texts]
    Pieces,     \* texts of one delta of the service
    File,
    Links,      \* the text with the links to the named files
    MaxDeltas,  \* bound: deltas the service sends
    MaxBlocks   \* bound: content blocks the service sends

\* Texts are sequences, and the links and the stop sequences are not empty.
ASSUME TextAssumption ==
    /\ \A s \in Pieces \cup {Links} : s \in Seq(Range(s))
    /\ Links # <<>>
    /\ \A m \in Modes :
          /\ m.explicit \in BOOLEAN /\ m.stream \in BOOLEAN
          /\ \A q \in m.stops : q \in Seq(Range(q)) /\ q # <<>>

VARIABLES
    mode,
    up,      \* the service: its open block, the blocks and deltas it has sent
    reader,  \* transform_response: what it has gathered, and where it stands
    life,    \* the session's turn: "none", "open", "committed" or "uncertain"
    digest,  \* history: the answer the turn was committed with
    usage,   \* output lengths returned to the Cookie pool
    body,    \* events that transform_response has yielded and no layer has read
    search,  \* stop_stream
    blocks,  \* normalize_stream: thinking blocks started and stopped
    fed,     \* history: the text the layers have read
    out      \* what the client has been sent

vars == <<mode, up, reader, life, digest, usage, body, search, blocks, fed, out>>
layers == <<search, blocks, fed, out>>

Event(type, index, text) == [type |-> type, index |-> index, text |-> text]
TextDelta(i, s) == Event("text", i, s)
Mark(type) == Event(type, 0, <<>>)

\* event_text: the deltas of text blocks and completions of the raw rendering.
EventText(e) == IF e.type \in {"text", "completion"} THEN e.text ELSE <<>>

\* What a client makes of events: the deltas, or the text of the whole answer.
TextOf(e) == IF e.type = "whole" THEN e.text ELSE EventText(e)

Texts(events) == FlattenSeq([i \in DOMAIN events |-> TextOf(events[i])])

NamesFile(text) == mode.explicit /\ File \in Range(text)

-----------------------------------------------------------------------------
(* The service                                                             *)

StartOf == [text |-> "text_start", thinking |-> "thinking_start"]

\* A block has its start, its deltas and its stop.  The start of a thinking block
\* may be missing, not the delta after it, and summaries may come late.
Sends(e) ==
    LET i == up.next
        delta == up.deltas < MaxDeltas
    IN  \/ /\ up.open = "before" /\ e = Mark("message_start")
           /\ up' = [up EXCEPT !.open = "none"]
        \/ /\ up.open = "none" /\ i < MaxBlocks
           /\ \E kind \in {"text", "thinking"} :
                /\ e = Event(StartOf[kind], i, <<>>)
                /\ up' = [up EXCEPT !.open = kind]
        \/ /\ up.open = "none" /\ i < MaxBlocks /\ delta
           /\ e = Event("summary", i, <<>>)
           /\ up' = [up EXCEPT !.open = "thinking", !.deltas = @ + 1]
        \/ /\ up.open = "text" /\ delta
           /\ \E s \in Pieces : e = TextDelta(i, s)
           /\ up' = [up EXCEPT !.deltas = @ + 1]
        \/ /\ up.open = "thinking" /\ delta
           /\ e = Event("summary", i, <<>>)
           /\ up' = [up EXCEPT !.deltas = @ + 1]
        \/ /\ up.open = "none" /\ delta
           /\ \E j \in up.thought : e = Event("summary", j, <<>>)
           /\ up' = [up EXCEPT !.deltas = @ + 1]
        \/ /\ up.open \in {"text", "thinking"}
           /\ e = Event("block_stop", i, <<>>)
           /\ up' = [up EXCEPT !.open = "none", !.next = @ + 1,
                               !.thought = IF up.open = "thinking" THEN @ \cup {i} ELSE @]
        \/ /\ up.open = "none" /\ e = Mark("message_delta")
           /\ up' = [up EXCEPT !.open = "last"]
        \/ /\ up.open = "last" /\ e = Mark("message_stop")
           /\ up' = [up EXCEPT !.open = "after"]

\* Without streaming the service is asked for the raw rendering.
Completes(e) ==
    \/ /\ up.open \in {"before", "none"} /\ up.deltas < MaxDeltas
       /\ \E s \in Pieces : e = Event("completion", 0, s)
       /\ up' = [up EXCEPT !.open = "none", !.deltas = @ + 1]
    \/ /\ up.open = "none" /\ e = Mark("message_stop")
       /\ up' = [up EXCEPT !.open = "after"]

-----------------------------------------------------------------------------
(* transform_response                                                      *)

NoBlock == -1

\* Faulty variant: the text starts over with every block.
GatheredByBlock(e) ==
    [reader EXCEPT !.acc = (IF e.type = "text_start" THEN <<>> ELSE @) \o EventText(e)]
\* Bookkeeping for one event, before it is passed on.
Gathered(e) ==
    [reader EXCEPT
        !.acc = @ \o EventText(e),
        !.next = IF e.type \in {"text_start", "thinking_start", "block_stop"} /\ e.index >= @
                 THEN e.index + 1 ELSE @,
        !.active = CASE e.type = "text_start" -> e.index
                     [] e.type = "block_stop" /\ e.index = @ -> NoBlock
                     [] OTHER -> @]

\* Faulty variant: always into the block the next one would be.
LinkEventsInOne(r) == <<TextDelta(r.next, Links)>>
\* The links go into the open text block, or into one of their own.
LinkEvents(r) ==
    IF ~NamesFile(r.acc) THEN <<>>
    ELSE IF r.active # NoBlock THEN <<TextDelta(r.active, Links)>>
    ELSE <<Event("text_start", r.next, <<>>), TextDelta(r.next, Links),
           Event("block_stop", r.next, <<>>)>>

Stands(place) == reader' = [reader EXCEPT !.at = place]

Settle(acc) ==
    IF mode.explicit THEN life' = "committed" /\ digest' = acc
    ELSE UNCHANGED <<life, digest>>

Received ==
    {Mark(k) : k \in {"message_start", "message_delta", "message_stop"}}
        \cup {Event(k, i, <<>>) : i \in 0..MaxBlocks, k \in
                  {"text_start", "thinking_start", "summary", "block_stop"}}
        \cup {TextDelta(i, s) : i \in 0..MaxBlocks, s \in Pieces}

\* One event is read, and with message_stop the session's turn is committed
\* before the event is passed on; when the commit fails it is not.
Receive ==
    /\ mode.stream /\ reader.at = "reading"
    /\ mode.explicit \/ body = <<>>
    /\ \E e \in Received :
        /\ Sends(e)
        /\ IF e.type # "message_stop"
           THEN /\ reader' = Gathered(e)
                /\ body' = Append(body, e)
                /\ UNCHANGED <<life, digest>>
           ELSE \/ /\ reader' = Gathered(e)
                   /\ body' = body \o LinkEvents(reader) \o <<e>>
                   /\ Settle(reader.acc)
                \/ /\ mode.explicit
                   /\ Stands("failed")
                   /\ body' = body \o LinkEvents(reader)
                   /\ UNCHANGED <<life, digest>>
    /\ UNCHANGED <<mode, usage, layers>>

\* Faulty variant: the end of the stream counts as its message_stop.
EndAccepted ==
    /\ mode.stream /\ reader.at = "reading" /\ (mode.explicit \/ body = <<>>)
    /\ Stands("counting")
    /\ IF life = "open" THEN Settle(reader.acc) ELSE UNCHANGED <<life, digest>>
    /\ UNCHANGED <<mode, up, usage, body, layers>>
\* The connection closes.  A turn that was not committed is uncertain.
End ==
    /\ mode.stream /\ reader.at = "reading" /\ (mode.explicit \/ body = <<>>)
    /\ IF life = "open" THEN Stands("failed") /\ life' = "uncertain"
       ELSE Stands("counting") /\ UNCHANGED life
    /\ UNCHANGED <<mode, up, digest, usage, body, layers>>

\* The connection breaks, or a session's answer exceeds MAX_EXPLICIT_RESPONSE_BYTES:
\* the turn stays in flight, or committed if message_stop has come.  Only
\* without streaming it is marked.
Break ==
    /\ reader.at = "reading"
    /\ Stands("failed")
    /\ life' = IF ~mode.stream /\ mode.explicit THEN "uncertain" ELSE life
    /\ UNCHANGED <<mode, up, digest, usage, body, layers>>

\* The service, when it is asked and answers (enable_web_count_tokens), counts the
\* text it sent.  Here the text gathered from a stream is counted, without
\* streaming that of the response, which has the links.
Counts ==
    {Len(reader.acc)}
        \cup (IF mode.stream \/ ~NamesFile(reader.acc) THEN {} ELSE {Len(reader.acc \o Links)})
\* The output is counted, by the service or here, and the Cookie goes back with
\* it.  A request without a session has no Cookie here, its attempts use clones,
\* and its output is not recorded.
Count ==
    /\ reader.at = "counting"
    /\ Stands("ended")
    /\ \E n \in Counts : usage' = IF mode.explicit THEN Append(usage, n) ELSE usage
    /\ UNCHANGED <<mode, up, life, digest, body, layers>>

\* Without streaming: merge_sse reads the whole answer.
Merge ==
    /\ ~mode.stream /\ reader.at = "reading"
    /\ \/ \E e \in {Mark("message_stop")} \cup {Event("completion", 0, s) : s \in Pieces} :
            /\ Completes(e)
            /\ reader' = Gathered(e)
            /\ UNCHANGED <<life, digest, body>>
       \/ /\ UNCHANGED up
          /\ IF mode.explicit /\ up.open # "after"
             THEN /\ Stands("failed") /\ life' = "uncertain"
                  /\ UNCHANGED <<digest, body>>
             ELSE \/ /\ mode.explicit /\ Stands("failed")     \* the commit fails
                     /\ UNCHANGED <<life, digest, body>>
                  \/ /\ Stands("counting")
                     /\ body' = <<Event("whole", 0, IF NamesFile(reader.acc)
                                                    THEN reader.acc \o Links ELSE reader.acc)>>
                     /\ Settle(reader.acc)
    /\ UNCHANGED <<mode, usage, layers>>

\* Faulty variant: it is handed on when the turn is committed.
ReadableCommitted == body # <<>> /\ (mode.explicit => life = "committed")
\* The response becomes a whole that the layers read when it is complete.
Readable == body # <<>> /\ (mode.explicit \/ ~mode.stream => reader.at = "ended")

-----------------------------------------------------------------------------
(* stop_stream                                                             *)

Searching == [partial |-> {<<>>}, passed |-> <<>>, hit |-> FALSE]

\* Next letter: every begun match goes on or dies, and a new one may begin.
Searched(st, c) ==
    LET grown == {Append(p, c) : p \in st.partial}
    IN  IF st.hit THEN st
        ELSE [partial |-> {<<>>} \cup {g \in grown : \E q \in mode.stops : IsStrictPrefix(g, q)},
              passed |-> Append(st.passed, c),
              hit |-> grown \cap mode.stops # {}]

SearchFrom(st, text) ==
    LET found[k \in 0..Len(text)] ==
            IF k = 0 THEN st ELSE Searched(found[k - 1], text[k])
    IN  found[Len(text)]

\* Faulty variant: a new search for every delta misses what two deltas share.
SearchAfresh(text) == SearchFrom(Searching, text)
Search(text) == SearchFrom([search EXCEPT !.passed = <<>>], text)

\* What the stop layer makes of an event: what it yields, and its next state.
Stopped(e) ==
    LET found == Search(e.text)
    IN  IF e.type # "text" \/ mode.stops = {}
        THEN [events |-> <<e>>, search |-> search]
        ELSE [search |-> found,
              events |-> IF ~found.hit THEN <<e>>
                         ELSE <<TextDelta(e.index, found.passed), Event("block_stop", e.index, <<>>),
                                Mark("message_delta"), Mark("message_stop")>>]

-----------------------------------------------------------------------------
(* normalize_stream and transform_stream                                   *)

StartMissing(st, e) == e.type = "summary" /\ e.index \notin st.started

\* thinking_summary_delta becomes thinking_delta; a missing start is supplied,
\* and summaries of a block that has stopped are dropped.
Normalized(st, e) ==
    LET i == e.index
        started == IF e.type \in {"thinking_start", "summary"} THEN st.started \cup {i} ELSE st.started
        new == IF e.type = "summary" THEN Event("thinking", i, <<>>) ELSE e
        start == IF StartMissing(st, e) THEN <<Event("thinking_start", i, <<>>)>> ELSE <<>>
    IN  IF e.type = "summary" /\ i \in st.stopped THEN st
        ELSE [started |-> started,
              stopped |-> IF e.type = "block_stop" /\ i \in started
                          THEN st.stopped \cup {i} ELSE st.stopped,
              events |-> st.events \o start \o <<new>>]

NormalizedAll(events) ==
    LET after[k \in 0..Len(events)] ==
            IF k = 0 THEN [blocks EXCEPT !.events = <<>>] ELSE Normalized(after[k - 1], events[k])
    IN  after[Len(events)]

\* The OpenAI format has deltas of content and of reasoning only.
DeltaOf(e) ==
    CASE e.type = "text" -> <<e>>
      [] e.type = "summary" -> <<Event("thinking", e.index, <<>>)>>
      [] OTHER -> <<>>
Converted(events) == FlattenSeq([j \in DOMAIN events |-> DeltaOf(events[j])])

\* The layers take one event.  When a stop sequence is found the stream below is
\* dropped, without a session that is transform_response itself.
Deliver ==
    LET s == Stopped(Head(body))
        n == NormalizedAll(s.events)
    IN  /\ Readable
        /\ ~search.hit /\ reader.at # "gone"
        /\ search' = s.search
        /\ IF mode.api = "openai" \/ ~mode.stream
           THEN /\ out' = out \o (IF mode.stream THEN Converted(s.events) ELSE s.events)
                /\ UNCHANGED blocks
           ELSE out' = out \o n.events /\ blocks' = [n EXCEPT !.events = <<>>]
        /\ fed' = fed \o EventText(Head(body))
        /\ IF s.search.hit
           THEN /\ body' = <<>>
                /\ IF reader.at = "reading" THEN Stands("gone") ELSE UNCHANGED reader
           ELSE body' = Tail(body) /\ UNCHANGED reader
        /\ UNCHANGED <<mode, up, life, digest, usage>>

\* The client goes away: the handler or the body is dropped, and with it a
\* lifecycle that is not finalized.
Leave ==
    /\ reader.at # "gone"
    /\ Stands("gone")
    /\ life' = IF life = "open" /\ reader.at = "reading" THEN "uncertain" ELSE life
    /\ body' = <<>>
    /\ UNCHANGED <<mode, up, digest, usage, layers>>

Init ==
    /\ mode \in Modes
    /\ up = [open |-> "before", next |-> 0, deltas |-> 0, thought |-> {}]
    /\ reader = [at |-> "reading", acc |-> <<>>, active |-> NoBlock, next |-> 0]
    /\ life = IF mode.explicit THEN "open" ELSE "none"
    /\ digest = <<>> /\ usage = <<>> /\ body = <<>> /\ fed = <<>> /\ out = <<>>
    /\ search = Searching
    /\ blocks = [started |-> {}, stopped |-> {}, events |-> <<>>]

Next == Receive \/ End \/ Break \/ Count \/ Merge \/ Deliver \/ Leave

Spec == Init /\ [][Next]_vars

-----------------------------------------------------------------------------
(* Properties                                                              *)

Shown == Texts(out)

\* An event stream for a client of the Claude API is well formed, whatever the
\* service leaves out, the links add and the stop layer cuts off: a block is
\* started once, has its deltas and its stop after that and nothing after its
\* stop, no two blocks are open at a time, and message_stop comes last.
Starts(i) == {j \in DOMAIN out : out[j].index = i /\ out[j].type \in {"text_start", "thinking_start"}}
Stops(i) == {j \in DOMAIN out : out[j].index = i /\ out[j].type = "block_stop"}
WellFormed ==
    mode.api = "claude" /\ mode.stream =>
        /\ \A j \in DOMAIN out :
            LET e == out[j]
            IN  /\ e.type \in {"text_start", "thinking_start"} =>
                        /\ Starts(e.index) = {j}
                        /\ \A i \in 0..MaxBlocks, k \in 1..j - 1 :
                              k \in Starts(i) => \E l \in Stops(i) : l < j
                /\ e.type \in {"text", "thinking", "block_stop"} =>
                        /\ \E k \in Starts(e.index) : k < j
                        /\ \A k \in Stops(e.index) : k >= j
                /\ e.type = "message_stop" =>
                        /\ j = Len(out)
                        /\ \A i \in 0..MaxBlocks : Starts(i) # {} => Stops(i) # {}

\* The text a streaming client is shown ends with the first occurrence of a stop
\* sequence in the text of the answer, wherever the deltas divide it, and has
\* nothing missing before that (stop_stream).
EndsAt(text, k) == \E q \in mode.stops : IsSuffix(q, SubSeq(text, 1, k))
UpToFirstStop(text) ==
    LET ends == {k \in DOMAIN text : EndsAt(text, k)}
    IN  IF ends = {} THEN text
        ELSE SubSeq(text, 1, CHOOSE k \in ends : \A l \in ends : k <= l)
ShownUpToFirstStop == mode.stream => Shown = UpToFirstStop(fed)

\* "message_stop is the commit boundary; EOF or downstream drop is uncertain"
\* (types/claude_web/response.rs:169): the client of a session is sent nothing
\* of an answer before its turn is committed, and a turn is committed only when
\* the service has ended its message, with the whole text of it.
AnsweredIsCommitted ==
    /\ mode.explicit /\ out # <<>> => life = "committed"
    /\ life = "committed" => up.open = "after" /\ digest = reader.acc

\* The session's turn is recorded with the text its client was shown, which the
\* client repeats in its next request, unless links were added or a stop
\* sequence cut the text off.
RecordedAsShown ==
    mode.explicit /\ out # <<>> /\ body = <<>> /\ reader.at = "ended"
        /\ ~search.hit /\ ~NamesFile(reader.acc)
            => Shown = digest

\* The tokens of a session's answer are counted once, and before the client has
\* any of it, so that no way of leaving avoids the count: all the text the
\* service sent and nothing else, but for the links of a whole answer, which
\* clewdr made and counts when the service does not count for it.
CountedOnce ==
    /\ Len(usage) <= 1
    /\ mode.explicit /\ out # <<>> =>
        \/ usage = <<Len(reader.acc)>>
        \/ /\ ~mode.stream /\ NamesFile(reader.acc)
           /\ usage = <<Len(reader.acc) + Len(Links)>>
=============================================================================
