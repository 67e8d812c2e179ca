---------------------------- MODULE ImplicitChat ----------------------------
(***************************************************************************)
(* Chats without a session id (src/src/claude_web_state): the retry loop   *)
(* of try_chat, the reuse of an upstream conversation by comparing hashes  *)
(* of user messages (diff.rs), and the implicit part of the conversation   *)
(* cache with its snapshot file.                                           *)
(*                                                                         *)
(* A request is the sequence of hashes of its user messages; the system    *)
(* prompt and the first user message are the cache key, so here the key is *)
(* the first message.  The upstream service is the sequence "nodes" of the *)
(* assistant messages it has produced, each with the conversation it is in *)
(* and the user messages on the path that leads to it.                     *)
(***************************************************************************)
EXTENDS Integers, Sequences, SequencesExt, FiniteSets

CONSTANTS
    Tasks,        \* handlers of requests, each serves one request at a time
    Requests,     \* requests, non-empty sequences of message hashes
    Cookies,
    Accounts,     \* the Cookies, each with what bootstrap may find: pro or not
    MaxRetries,   \* CLEWDR_CONFIG.max_retries
    MaxNodes,     \* bound: assistant messages the service produces
    MaxFaults,    \* bound: lost answers, failed snapshots, cancels, restarts
    NoRecord,
    NoCookie

ASSUME RequestsAreNotEmpty == Requests \subseteq Seq(UNION {Range(r) : r \in Requests}) \ {<<>>}
ASSUME BoundsAreNatural == {MaxRetries, MaxNodes, MaxFaults} \subseteq Nat
ASSUME AccountsAssumption == Accounts \subseteq Cookies \X BOOLEAN

VARIABLES
    task,      \* [Tasks -> the request handler and its ClaudeWebState]
    cache,     \* [Keys -> CachedConversation or NoRecord]
    disk,      \* the snapshot file
    nodes,     \* the upstream service
    poisoned,  \* history: conversations this process has seen an attempt fail in
    misplaced, \* history: messages recorded after turns they were not planned on
    faults

vars == <<task, cache, disk, nodes, poisoned, misplaced, faults>>

Key(r) == Head(r)
Keys == {Key(r) : r \in Requests}

Fault == faults < MaxFaults /\ faults' = faults + 1

-----------------------------------------------------------------------------
(* diff_messages                                                           *)

\* Position in the request before the first message of turn i.
StartOf(turns, i) == Len(FlattenSeq([j \in 1..i - 1 |-> turns[j].users]))

Matches(turns, i, users) ==
    LET s == StartOf(turns, i)
    IN  \A j \in DOMAIN turns[i].users :
            s + j <= Len(users) /\ users[s + j] = turns[i].users[j]

\* The request ends inside turn i before it differs from it.
Exhausted(turns, i, users) ==
    LET s == StartOf(turns, i)
    IN  \A j \in DOMAIN turns[i].users :
            s + j <= Len(users) => users[s + j] = turns[i].users[j]

Rebuild == [kind |-> "rebuild", from |-> 1]

\* "from" is the turn the request replaces: one past the last for an append.
Diff(turns, users) ==
    LET differ == {i \in DOMAIN turns : ~Matches(turns, i, users)}
        first == CHOOSE i \in differ : \A j \in differ : i <= j
        fresh == Len(turns) + 1
    IN  CASE turns = <<>> -> Rebuild
          [] turns # <<>> /\ differ = {} ->
                IF StartOf(turns, fresh) < Len(users)
                THEN [kind |-> "append", from |-> fresh] ELSE Rebuild
          [] differ # {} ->
                IF first = 1 \/ Exhausted(turns, first, users)
                THEN Rebuild ELSE [kind |-> "fork", from |-> first]

\* Faulty variant: what the request shares with the replaced turn is left out.
SuffixUnrewound(turns, from, users) ==
    LET s == StartOf(turns, from)
        same == {j \in s + 1..Len(users) : from <= Len(turns)
                    /\ j - s <= Len(turns[from].users)
                    /\ \A i \in s + 1..j : users[i] = turns[from].users[i - s]}
    IN  SubSeq(users, s + Cardinality(same) + 1, Len(users))
\* The part of the request that is sent: from the start of the replaced turn.
Suffix(turns, from, users) == SubSeq(users, StartOf(turns, from) + 1, Len(users))

-----------------------------------------------------------------------------
(* The cache and its snapshot                                              *)

Messages == UNION {Range(r) : r \in Requests}

\* CachedConversation: old is TRUE once the record is 25 days old.
Records == [valid : BOOLEAN, old : BOOLEAN, conv : Nat, cookie : Cookies, pro : BOOLEAN,
            turns : Seq([users : Seq(Messages), id : Nat])]
ASSUME SentinelAssumption == NoRecord \notin Records

Retained(c) == c # NoRecord /\ c.valid /\ ~c.old

Invalid(c) == IF c = NoRecord THEN c ELSE [c EXCEPT !.valid = FALSE]

\* A snapshot is taken after every change; a failed write is only logged.
Persist == \/ disk' = cache' /\ UNCHANGED faults
           \/ Fault /\ UNCHANGED disk

Keep == UNCHANGED <<cache, disk, faults>>

Invalidate(k) ==
    IF cache[k] = NoRecord THEN Keep
    ELSE cache' = [cache EXCEPT ![k] = Invalid(@)] /\ Persist

InvalidateByCookie(c) ==
    LET bound == {k \in Keys : cache[k] # NoRecord /\ cache[k].cookie = c}
    IN  IF bound = {} THEN Keep
        ELSE /\ cache' = [k \in Keys |-> IF k \in bound THEN Invalid(cache[k]) ELSE cache[k]]
             /\ Persist

Turn(x) == [users |-> x.sent, id |-> x.node]

NewRecord(x) == [valid |-> TRUE, old |-> FALSE, conv |-> nodes[x.node].conv,
                 cookie |-> x.cookie, pro |-> x.pro, turns |-> <<Turn(x)>>]

\* What a record keeps below the new turn: an append all of it, also what came
\* since the plan; a fork the turns before the fork, as many as there are.
Kept(c, x) ==
    IF x.plan.kind = "append" \/ Len(c.turns) < x.plan.from THEN c.turns
    ELSE SubSeq(c.turns, 1, x.plan.from - 1)

\* Faulty variant: a fork does not take the replaced turns away.
WithTurnKept(c, x) == [c EXCEPT !.turns = Append(@, Turn(x))]
\* The record found under the key takes the turn, whichever conversation it is.
WithTurn(c, x) == [c EXCEPT !.turns = Append(Kept(c, x), Turn(x))]

\* The turns the plan of a request was made on.
Planned(x) == SubSeq(x.base.turns, 1, x.plan.from - 1)

CommitCacheWrite(x) ==
    LET k == Key(x.req)
    IN  IF x.plan.kind = "rebuild"
        THEN cache' = [cache EXCEPT ![k] = NewRecord(x)] /\ Persist /\ UNCHANGED misplaced
        ELSE IF cache[k] = NoRecord THEN Keep /\ UNCHANGED misplaced
        ELSE /\ cache' = [cache EXCEPT ![k] = WithTurn(@, x)] /\ Persist
             /\ misplaced' = misplaced \cup {n \in {x.node} : Kept(cache[k], x) # Planned(x)}

-----------------------------------------------------------------------------
(* A request                                                               *)

Idle == [pc |-> "idle", req |-> <<>>, tries |-> 0, cookie |-> NoCookie, pro |-> FALSE,
         base |-> NoRecord, plan |-> Rebuild, sent |-> <<>>, node |-> 0, refused |-> FALSE]

Goto(t, pc) == task' = [task EXCEPT ![t].pc = pc]

Init ==
    /\ task = [t \in Tasks |-> Idle]
    /\ cache = [k \in Keys |-> NoRecord]
    /\ disk = [k \in Keys |-> NoRecord]
    /\ nodes = <<>>
    /\ poisoned = {}
    /\ misplaced = {}
    /\ faults = 0

Begin(t) ==
    /\ task[t].pc = "idle" /\ Len(nodes) < MaxNodes
    /\ \E r \in Requests : task' = [task EXCEPT ![t] = [Idle EXCEPT !.pc = "cookie", !.req = r]]
    /\ UNCHANGED <<cache, disk, nodes, poisoned, misplaced, faults>>

\* A fresh clone of the state for every attempt, and any Cookie for it, also one
\* that was refused before: CookiePool says how the actor chooses.
Attempt(x) == [Idle EXCEPT !.pc = "bootstrap", !.req = x.req, !.tries = x.tries + 1]
MayTry(x) == x.tries < MaxRetries + 1

RequestCookie(t) ==
    /\ task[t].pc = "cookie"
    /\ \/ /\ MayTry(task[t])
          /\ \E c \in Cookies : task' = [task EXCEPT ![t] = [Attempt(@) EXCEPT !.cookie = c]]
       \/ task' = [task EXCEPT ![t] = Idle]
    /\ UNCHANGED <<cache, disk, nodes, poisoned, misplaced, faults>>

\* Before anything is sent last_params is unset: a failure here invalidates
\* the slot of fingerprint 0, which holds nothing.
Bootstrap(t) ==
    /\ task[t].pc = "bootstrap"
    /\ \/ \E p \in BOOLEAN :
            /\ <<task[t].cookie, p>> \in Accounts
            /\ task' = [task EXCEPT ![t].pc = "plan", ![t].pro = p]
       \/ task' = [task EXCEPT ![t].pc = "return", ![t].refused = TRUE]
       \/ task' = [task EXCEPT ![t] = Idle]
    /\ UNCHANGED <<cache, disk, nodes, poisoned, misplaced, faults>>

Belongs(c, x) == c.cookie = x.cookie /\ c.pro = x.pro

\* get returns a copy; the comparison works on it while the record may change.
Plan(t) ==
    /\ task[t].pc = "plan"
    /\ LET x == task[t]
           c == cache[Key(x.req)]
           d == IF Retained(c) /\ Belongs(c, x) THEN Diff(c.turns, x.req) ELSE Rebuild
       IN  IF ~Retained(c) THEN Goto(t, "full")
           ELSE IF d = Rebuild THEN Goto(t, "drop")
           ELSE task' = [task EXCEPT ![t].pc = "reuse", ![t].base = c, ![t].plan = d,
                                     ![t].sent = Suffix(c.turns, d.from, x.req)]
    /\ UNCHANGED <<cache, disk, nodes, poisoned, misplaced, faults>>

\* The conversation an attempt was made in.
AttemptedIn(x) == (IF x.base = NoRecord THEN {} ELSE {x.base.conv})
                    \cup {nodes[n].conv : n \in {x.node} \ {0}}

\* The record does not fit, or its reuse failed: a full request instead.
Drop(t) ==
    /\ task[t].pc = "drop"
    /\ task' = [task EXCEPT ![t].pc = "full", ![t].base = NoRecord]
    /\ Invalidate(Key(task[t].req))
    /\ poisoned' = poisoned \cup AttemptedIn(task[t])
    /\ UNCHANGED <<nodes, misplaced>>

\* The service answers after a message of the same conversation only.
SendReuse(t) ==
    LET x == task[t]
        parent == nodes[x.base.turns[x.plan.from - 1].id]
        answer == [conv |-> x.base.conv, users |-> parent.users \o x.sent]
    IN  /\ x.pc = "reuse"
        /\ \/ /\ parent.conv = x.base.conv /\ Len(nodes) < MaxNodes
              /\ nodes' = Append(nodes, answer)
              /\ \/ /\ task' = [task EXCEPT ![t].pc = "transform", ![t].node = Len(nodes) + 1]
                    /\ UNCHANGED faults
                 \/ Fault /\ Goto(t, "drop")
           \/ Goto(t, "drop") /\ UNCHANGED <<nodes, faults>>
        /\ UNCHANGED <<cache, disk, poisoned, misplaced>>

\* A new conversation gets the whole request as its first turn.
SendFull(t) ==
    LET x == [task[t] EXCEPT !.plan = Rebuild, !.sent = task[t].req]
        id == Len(nodes) + 1
        answer == [conv |-> id, users |-> x.req]
    IN  /\ x.pc = "full"
        /\ \/ /\ id <= MaxNodes
              /\ nodes' = Append(nodes, answer)
              /\ \/ /\ task' = [task EXCEPT ![t] = [x EXCEPT !.pc = "transform", !.node = id]]
                    /\ UNCHANGED faults
                 \/ /\ Fault
                    /\ task' = [task EXCEPT ![t] = [x EXCEPT !.pc = "failed"]]
           \/ /\ \E refused \in BOOLEAN :
                    task' = [task EXCEPT ![t] = [x EXCEPT !.pc = "failed", !.refused = refused]]
              /\ UNCHANGED <<nodes, faults>>
        /\ UNCHANGED <<cache, disk, poisoned, misplaced>>

\* transform_response: a stream is handed on at once, a whole answer is read.
TransformResponse(t) ==
    /\ task[t].pc = "transform"
    /\ Goto(t, "commit") \/ Goto(t, "failed")
    /\ UNCHANGED <<cache, disk, nodes, poisoned, misplaced, faults>>

Commit(t) ==
    /\ task[t].pc = "commit"
    /\ CommitCacheWrite(task[t])
    /\ task' = [task EXCEPT ![t] = Idle]
    /\ UNCHANGED <<nodes, poisoned>>

\* Faulty variant: the record stays.
FailedKept(t) ==
    /\ task[t].pc = "failed"
    /\ IF task[t].refused THEN Goto(t, "return") ELSE task' = [task EXCEPT ![t] = Idle]
    /\ poisoned' = poisoned \cup AttemptedIn(task[t])
    /\ UNCHANGED <<cache, disk, nodes, misplaced, faults>>
Failed(t) ==
    /\ task[t].pc = "failed"
    /\ IF task[t].refused THEN Goto(t, "return") ELSE task' = [task EXCEPT ![t] = Idle]
    /\ Invalidate(Key(task[t].req))
    /\ poisoned' = poisoned \cup AttemptedIn(task[t])
    /\ UNCHANGED <<nodes, misplaced>>

\* A refused Cookie goes back with its reason and the next attempt begins.
ReturnCookie(t) ==
    /\ task[t].pc = "return"
    /\ Goto(t, "cookie")
    /\ InvalidateByCookie(task[t].cookie)
    /\ UNCHANGED <<nodes, poisoned, misplaced>>

-----------------------------------------------------------------------------
(* What happens around it                                                  *)

\* The client goes away: the future is dropped at one of its awaits.
Cancel(t) ==
    /\ task[t].pc # "idle" /\ Fault
    /\ task' = [task EXCEPT ![t] = Idle]
    /\ UNCHANGED <<cache, disk, nodes, poisoned, misplaced>>

\* 25 days pass for one record.
Age(k) ==
    /\ Retained(cache[k]) /\ Fault
    /\ cache' = [cache EXCEPT ![k].old = TRUE]
    /\ disk' = [disk EXCEPT ![k] = IF @ = NoRecord \/ @.conv # cache[k].conv
                                   THEN @ ELSE [@ EXCEPT !.old = TRUE]]
    /\ UNCHANGED <<task, nodes, poisoned, misplaced>>

\* The hourly cleanup forgets what get would not return any more.
Cleanup ==
    LET kept == [k \in Keys |-> IF Retained(cache[k]) THEN cache[k] ELSE NoRecord]
    IN  /\ kept # cache
        /\ cache' = kept
        /\ Persist
        /\ UNCHANGED <<task, nodes, poisoned, misplaced>>

Restart ==
    /\ Fault
    /\ task' = [t \in Tasks |-> Idle]
    /\ cache' = [k \in Keys |-> IF Retained(disk[k]) THEN disk[k] ELSE NoRecord]
    /\ poisoned' = {}
    /\ UNCHANGED <<disk, nodes, misplaced>>

TryChat(t) ==
    \/ RequestCookie(t) \/ Bootstrap(t) \/ Plan(t) \/ Drop(t) \/ SendReuse(t)
    \/ SendFull(t) \/ TransformResponse(t) \/ Commit(t) \/ Failed(t) \/ ReturnCookie(t)

Next ==
    \/ \E t \in Tasks : Begin(t) \/ TryChat(t) \/ Cancel(t)
    \/ \E k \in Keys : Age(k)
    \/ Cleanup
    \/ Restart

Spec == Init /\ [][Next]_vars

-----------------------------------------------------------------------------
(* Properties                                                              *)

\* An answer is given in the context of the request: the user messages on its
\* path upstream are the request's own, none missing, none foreign, although
\* reuse sends only a suffix after a parent taken from the cache
\* (try_reuse_conversation, diff_messages, append_turn, fork_and_append).  The
\* exception: a turn that the suffix follows had been recorded after turns it was
\* not planned on, since another request of the key committed in between.
AnswersInContext ==
    \A t \in Tasks : task[t].pc \in {"transform", "commit"} =>
        \/ nodes[task[t].node].users = task[t].req
        \/ \E i \in 1..task[t].plan.from - 1 : task[t].base.turns[i].id \in misplaced

\* What the cache, or the snapshot a restart would load, says of a conversation
\* is so upstream: each turn's message is in that conversation, after exactly
\* the user messages of the turns before it, up to the first turn that was
\* recorded after turns it was not planned on.
RecordIsReal(c) ==
    Retained(c) => \A i \in DOMAIN c.turns :
        LET n == nodes[c.turns[i].id]
        IN  (\A j \in 1..i : c.turns[j].id \notin misplaced) =>
                /\ n.conv = c.conv
                /\ n.users = FlattenSeq([j \in 1..i |-> c.turns[j].users])
RecordsAreReal == \A k \in Keys : RecordIsReal(cache[k]) /\ RecordIsReal(disk[k])

\* "Failed implicit requests cannot be reused on the next retry" (chat.rs:336):
\* no request plans on a conversation in which an attempt has failed, however
\* many requests of the key are under way.
FailedNotReused ==
    [][\A t \in Tasks : task[t].pc = "plan" /\ task'[t].pc = "reuse"
                           => task'[t].base.conv \notin poisoned]_vars

\* "Concurrent turns for the same conversation cannot interleave"
\* (conversation_cache.rs:522): every answer is in the context of its request.
TurnsDoNotInterleave ==
    \A t \in Tasks : task[t].pc \in {"transform", "commit"}
                        => nodes[task[t].node].users = task[t].req
=============================================================================
