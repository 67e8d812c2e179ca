---------------------------- MODULE TurnPlanning ----------------------------
(***************************************************************************)
(* Where a request continues a session (explicit_session.rs: plan,         *)
(* plan_turns, validate_timeline, parent_timeline) and what is then staged *)
(* and sent (chat.rs: try_explicit_chat_once).                             *)
(*                                                                         *)
(* A message is its digest; a timeline is a sequence of digests, and the   *)
(* sets Users and Assistants tell the roles.  "nodes" is the upstream      *)
(* conversation: each answer with the messages it was given after.  Only   *)
(* user messages after the parent are sent to continue a conversation, and *)
(* the system prompt only with the message that begins one.                *)
(* The requests of one session run one at a time (OperationLock).          *)
(***************************************************************************)
EXTENDS Integers, Sequences, SequencesExt, FiniteSets

CONSTANTS
    Users, Assistants,  \* digests of messages
    Systems,            \* digests of system prompts
    NoSystem,           \* that of a request without one
    Answers,            \* what the service answers: digests in Assistants, or NoText
    NoText,             \* the digest of an answer without text
    NoSession,
    MaxLength,          \* bound: messages of a request
    MaxNodes            \* bound: answers of one conversation

ASSUME RolesDiffer == Users \cap Assistants = {} /\ Answers \subseteq Assistants \cup {NoText}

VARIABLES
    session,  \* the record: its state, system digest and turns
    nodes     \* the upstream conversation of the record

vars == <<session, nodes>>

Timelines == UNION {[1..k -> Users \cup Assistants] : k \in 1..MaxLength}

\* digest_messages refuses a request without a user message.
Requests == {r \in Timelines : \E i \in DOMAIN r : r[i] \in Users}

UserIn(m) == IF m \in Users THEN <<m>> ELSE <<>>

UsersOf(timeline) == FlattenSeq([i \in DOMAIN timeline |-> UserIn(timeline[i])])

AnswerIn(text) == IF text = NoText THEN <<>> ELSE <<text>>

-----------------------------------------------------------------------------
(* plan                                                                    *)

Refused == [kind |-> "refused", from |-> 0]

\* User messages of the turns before turn i.
Before(turns, i) == Len(FlattenSeq([j \in 1..i - 1 |-> turns[j].users]))

Committed(turns) == FlattenSeq([i \in DOMAIN turns |-> turns[i].users])

\* The first turn that a request does not repeat.
ForksAt(turns, users, i) ==
    LET repeats(j) == LET s == Before(turns, j) IN
            SubSeq(users, s + 1, s + Len(turns[j].users)) = turns[j].users
    IN  ~repeats(i) /\ \A j \in 1..i - 1 : repeats(j)

\* Faulty variant: more user messages replace the last turn.
PlanTurnsEarly(turns, users) ==
    IF turns = <<>> \/ Len(users) <= Len(Committed(turns)) THEN Refused
    ELSE [kind |-> "fork", from |-> Len(turns)]

\* The first turn, which began the conversation, is never forked.
Fork(turns, users) ==
    IF \E i \in DOMAIN turns \ {1} : ForksAt(turns, users, i)
    THEN [kind |-> "fork", from |-> CHOOSE i \in DOMAIN turns \ {1} : ForksAt(turns, users, i)]
    ELSE Refused

\* "from" is the turn the answer will be: one past the last for an append.
PlanTurns(turns, users) ==
    LET past == Committed(turns)
    IN  IF turns = <<>> \/ Len(users) < Len(past) THEN Refused
        ELSE IF users = past THEN [kind |-> "regenerate", from |-> Len(turns)]
        ELSE IF IsStrictPrefix(past, users) THEN [kind |-> "append", from |-> Len(turns) + 1]
        ELSE Fork(turns, users)

\* Faulty variant: without the answer of the last turn.
ParentTimelineUnanswered(turns, p) ==
    IF p.kind = "append" THEN Last(turns).request ELSE turns[p.from].parentTimeline

\* The messages up to the selected parent.
ParentTimeline(turns, p) ==
    IF p.kind = "append"
    THEN Last(turns).request \o AnswerIn(Last(turns).answer)
    ELSE turns[p.from].parentTimeline

Suffix(turns, p, users) == SubSeq(users, Before(turns, p.from) + 1, Len(users))

\* Faulty variant: only prefill is refused.
ValidUnlessPrefill(turns, p, request) == Last(request) \in Users
Valid(turns, p, request) ==
    request = ParentTimeline(turns, p) \o Suffix(turns, p, UsersOf(request))

Plan(s, system, request) ==
    LET p == PlanTurns(s.turns, UsersOf(request))
    IN  IF s.state = "Committed" /\ s.system = system /\ p # Refused /\ Valid(s.turns, p, request)
        THEN p ELSE Refused

-----------------------------------------------------------------------------
(* The upstream conversation                                               *)

\* The parent of turn i: the answer of the turn before it, or the root.
ParentOf(turns, p) ==
    IF p.kind = "append" THEN Last(turns).node ELSE turns[p.from].parent

PathOf(upstream, parent) ==
    IF parent = 0 THEN <<>> ELSE upstream[parent].after \o AnswerIn(upstream[parent].answer)

\* The system prompt is part of the message that began the conversation: an
\* answer that hangs from the root and not from that message has none.
SystemOf(upstream, parent) == IF parent = 0 THEN NoSystem ELSE upstream[parent].system

\* The answer that the messages from the root to answer number id begin with.
FirstOf(upstream, parent, id) == IF parent = 0 THEN id ELSE upstream[parent].first

Node(after, first, system, request, asked, a) ==
    [after |-> after, first |-> first, system |-> system,
     request |-> request, asked |-> asked, answer |-> a]

\* PendingExplicitTurn as commit_explicit_turn makes it a turn.
Turn(parent, users, parentTimeline, request, id, a) ==
    [parent |-> parent, users |-> users, parentTimeline |-> parentTimeline,
     request |-> request, node |-> id, answer |-> a]

\* Faulty variant: the turn is appended, whatever it replaces.
WithTurnKept(turns, from, t) == Append(turns, t)
WithTurn(turns, from, t) == Append(SubSeq(turns, 1, from - 1), t)

\* The whole request is sent to a new conversation.
Create(request, system) ==
    /\ session = NoSession
    /\ \E a \in Answers :
        /\ nodes' = <<Node(request, 1, system, request, system, a)>>
        /\ session' = [state |-> "Committed", system |-> system,
                       turns |-> <<Turn(0, UsersOf(request), <<>>, request, 1, a)>>]

\* Append, regenerate and fork: the suffix is sent after the parent, and nothing
\* else, also when the first turn is taken again and its parent is the root.  An
\* answer that is not read to its end is upstream, and the session uncertain.
Continue(request, system) ==
    LET turns == session.turns
        p == Plan(session, system, request)
        parent == ParentOf(turns, p)
        users == Suffix(turns, p, UsersOf(request))
        id == Len(nodes) + 1
    IN  /\ session # NoSession /\ Len(nodes) < MaxNodes
        /\ p # Refused
        /\ \E a \in Answers :
            /\ nodes' = Append(nodes,
                    Node(PathOf(nodes, parent) \o users, FirstOf(nodes, parent, id),
                         SystemOf(nodes, parent), request, system, a))
            /\ \/ session' = [session EXCEPT !.turns = WithTurn(turns, p.from,
                        Turn(parent, users, ParentTimeline(turns, p), request, id, a))]
               \/ session' = [session EXCEPT !.state = "Uncertain"]

\* A record that a request cannot reuse is reset, and the request creates
\* (recoverable_explicit_error, explicit_recovery_still_needed).
Recover ==
    /\ session # NoSession
    /\ {r \in Requests : \E system \in Systems : Plan(session, system, r) = Refused} # {}
    /\ session' = NoSession /\ nodes' = <<>>

\* tombstone_explicit: the upstream conversation or its Cookie is gone.
Expire ==
    /\ session # NoSession
    /\ session' = [session EXCEPT !.state = "Tombstoned"]
    /\ UNCHANGED nodes

Init == session = NoSession /\ nodes = <<>>

Next ==
    \/ \E r \in Requests, system \in Systems : Create(r, system) \/ Continue(r, system)
    \/ Recover
    \/ Expire

Spec == Init /\ [][Next]_vars

-----------------------------------------------------------------------------
(* Properties                                                              *)

\* Every answer is given to exactly the request that asked for it: the messages
\* that lead to it upstream, with the parts that were not sent again, are the
\* messages of the request, in order, under its system prompt.  The exception is
\* the system prompt of a first turn that was taken again and of the turns after
\* it: these have none.
AnsweredAsAsked ==
    \A i \in DOMAIN nodes :
        LET n == nodes[i]
        IN  /\ n.after = n.request
            /\ n.system # n.asked => n.system = NoSystem /\ n.first # 1

\* The record is a path of the upstream conversation: each turn hangs from the
\* turn before it and says of its parent what is upstream, so that a later fork
\* or regeneration there is validated against the truth.
OnPath(upstream, turns, i) ==
    LET t == turns[i]
    IN  /\ t.parent = IF i = 1 THEN 0 ELSE turns[i - 1].node
        /\ t.parentTimeline = PathOf(upstream, t.parent)
        /\ t.request = upstream[t.node].request /\ t.answer = upstream[t.node].answer

RecordIsPath ==
    session # NoSession => \A i \in DOMAIN session.turns : OnPath(nodes, session.turns, i)

\* The request is the timeline and then user messages only.
Extends(request, past) ==
    /\ IsStrictPrefix(past, request)
    /\ \A k \in Len(past) + 1..Len(request) : request[k] \in Users

\* Reference: the places in a session after which the rest of a request could be
\* sent, which is user messages only.
Places(turns, request) ==
    {i \in 0..Len(turns) :
        Extends(request, IF i = 0 THEN <<>> ELSE turns[i].request \o AnswerIn(turns[i].answer))}

\* A request that is planned is continued at the last place it can be, so that
\* no message that is upstream is sent again; one that is refused cannot be
\* continued, or drops messages of the session, or differs in its first turn.
PlansLastPlace ==
    session # NoSession /\ session.state = "Committed" =>
        \A r \in Requests :
            LET p == Plan(session, session.system, r)
                places == Places(session.turns, r)
                last == CHOOSE i \in places : \A j \in places : j <= i
            IN  p # Refused => places # {} /\ p.from = last + 1

\* A client that repeats its request and the answer, and adds user messages,
\* continues its conversation, with any other answer in its place it does not;
\* one that repeats its request regenerates the answer.  The exception is a first
\* turn with answers in it that the service has not given.
EchoContinues ==
    session # NoSession /\ session.state = "Committed" =>
        LET t == Last(session.turns)
            own == t.parentTimeline \o t.users = t.request
            Kind(r) == Plan(session, session.system, r).kind
        IN  /\ \A r \in Requests :
                /\ Extends(r, t.request \o AnswerIn(t.answer)) => Kind(r) = "append"
                /\ t.answer # NoText =>
                    \A x \in Assistants \ {t.answer} :
                        Extends(r, t.request \o <<x>>) => Kind(r) = "refused"
            /\ own => Kind(t.request) = "regenerate"
=============================================================================
