----------------------------- MODULE CodeClient -----------------------------
(***************************************************************************)
(* The Claude Code client (src/src/claude_code_state): chats, streams and  *)
(* token counts that run on copies of a Cookie's record, the OAuth tokens  *)
(* kept in the record, and the usage counters that are written back to it. *)
(*                                                                         *)
(* The Cookie actor is kept to the record of each Cookie and where it is;  *)
(* CookiePool has its queue and its configuration.  A copy is overwritten, *)
(* not merged, when it comes back.  Of the usage only what the properties  *)
(* need is kept: "total" counts the answers in lifetime_usage; for each    *)
(* kind of usage window (session, weekly and weekly_sonnet, which share    *)
(* one look at the service) "oldest" is the window of the service that the *)
(* oldest answer in its counters was added in.                             *)
(***************************************************************************)
EXTENDS Integers, Sequences, FiniteSets

CONSTANTS
    Tasks,         \* handlers of requests, each serves one at a time
    Cookies,
    Windows,       \* the kinds of usage window
    SonnetOnly,    \* those that count the answers of one family of models only
    Permitted,     \* the Cookies whose account may count tokens
    Ops,           \* the operations that clients ask for
    WebCounts,     \* CLEWDR_CONFIG.enable_web_count_tokens
    MaxRetries,    \* CLEWDR_CONFIG.max_retries
    MaxRequests,   \* bound: requests that begin
    MaxWindows,    \* bound: usage windows of a kind that follow each other
    MaxFaults,     \* bound: errors of the upstream service, cancelled requests
    NoRecord, NoCookie

ASSUME OpsAreKnown == Ops \subseteq {"chat", "stream", "count", "web", "status"}
ASSUME ParametersAreTyped ==
    /\ SonnetOnly \subseteq Windows
    /\ Permitted \subseteq Cookies /\ NoCookie \notin Cookies /\ WebCounts \in BOOLEAN
    /\ {MaxRetries, MaxRequests, MaxWindows, MaxFaults} \subseteq Nat

VARIABLES
    valid,      \* [Cookies -> the record the actor hands out, or NoRecord]
    limited,    \* [Cookies -> the record that waits for its reset time]
    useless,    \* the Cookies given up
    grants,     \* the OAuth tokens issued upstream
    window,     \* [Cookies -> [Windows -> the number of the service's current window]]
    task,       \* [Tasks -> a request and its ClaudeCodeState]
    overlapped, \* history: Cookies that two requests have had copies of at once
    blind,      \* history: <<Cookie, kind>> with usage added before it was known to be limited
    outrun,     \* history: <<Cookie, kind>> with a window of the service that ended early
    settled,    \* history: [Cookies -> the answers whose usage was added]
    requests, faults

actor == <<valid, limited, useless>>
bounds == <<requests, faults>>
history == <<overlapped, blind, outrun, settled>>
vars == <<actor, grants, window, task, history, bounds>>

Fault == faults < MaxFaults /\ faults' = faults + 1 /\ UNCHANGED requests

-----------------------------------------------------------------------------
(* Records                                                                 *)

\* One kind of usage window of a record: whether the service gives it an end
\* (has_reset), the oldest answer in its counters (0: none), and the windows of
\* the service that the local boundary was set in and lies at the end of.
WindowStates == [has : {"unknown", "yes", "no"}, oldest : Nat, start : Nat, ends : Nat]

Records == [token : Nat, total : Nat, windows : [Windows -> WindowStates],
            allowed : {"unknown", "yes", "no"}]
ASSUME SentinelAssumption == NoRecord \notin Records

NewWindowState == [has |-> "unknown", oldest |-> 0, start |-> 0, ends |-> 0]
NewRecord == [token |-> 0, total |-> 0, windows |-> [w \in Windows |-> NewWindowState],
              allowed |-> "unknown"]

Unknown(r) == {w \in Windows : r.windows[w].has = "unknown"}
Due(r, c) == {w \in Windows : r.windows[w].has = "yes" /\ window[c][w] > r.windows[w].ends}

\* reset_window_usage
Cleared(r) == [r EXCEPT !.windows = [w \in Windows |-> [r.windows[w] EXCEPT !.oldest = 0]]]

\* The counters of the windows that are due are cleared, their next boundary is
\* one window length from now, which may be within the next window of the service.
Begun(s, n, e) == [s EXCEPT !.oldest = 0, !.start = n, !.ends = e]
Guess(r, c, late) ==
    [r EXCEPT !.windows = [w \in Windows |->
        IF w \notin Due(r, c) THEN r.windows[w]
        ELSE Begun(r.windows[w], window[c][w], window[c][w] + (IF w \in late THEN 1 ELSE 0))]]

\* refresh_usage_windows, of one record.
Refreshed(r, c) == IF r = NoRecord THEN {r} ELSE {Guess(r, c, late) : late \in SUBSET Windows}

\* What the service says of one kind of window sets its boundary, due or not;
\* only the counters of those that were due are cleared.
Bounded(s, due, given, n) ==
    CASE s.has = "no" -> s
      [] s.has # "no" /\ ~given -> [s EXCEPT !.has = "no", !.oldest = IF due THEN 0 ELSE @,
                                             !.start = 0, !.ends = 0]
      [] OTHER -> [has |-> "yes", oldest |-> IF due THEN 0 ELSE s.oldest, start |-> n, ends |-> n]
\* Faulty variant: the counters of the old window are kept.
BoundaryOnly(r, c, due, given) ==
    [r EXCEPT !.windows = [w \in Windows |->
        Bounded(r.windows[w], FALSE, w \in given, window[c][w])]]
\* One look serves every kind of window.
Boundary(r, c, due, given) ==
    [r EXCEPT !.windows = [w \in Windows |->
        Bounded(r.windows[w], w \in due, w \in given, window[c][w])]]

\* add_and_bucket_usage
Counting(sonnet) == IF sonnet THEN Windows ELSE Windows \ SonnetOnly
Added(r, c, counting) ==
    [r EXCEPT !.total = @ + 1,
              !.windows = [w \in Windows |->
                  IF w \in counting /\ r.windows[w].oldest = 0
                  THEN [r.windows[w] EXCEPT !.oldest = window[c][w]] ELSE r.windows[w]]]

\* Faulty variant: the usage of the copy is added to that of the record.
ReturnMerged(c, r) ==
    /\ valid' = IF valid[c] = NoRecord THEN valid
                ELSE [valid EXCEPT ![c] = [r EXCEPT !.total = @ + valid[c].total]]
    /\ UNCHANGED <<limited, useless>>
\* return_cookie(None): the copy replaces the record, if it is still handed out.
Return(c, r) ==
    /\ valid' = IF valid[c] = NoRecord THEN valid ELSE [valid EXCEPT ![c] = r]
    /\ UNCHANGED <<limited, useless>>

ReturnLimited(c, r) ==
    /\ valid' = [valid EXCEPT ![c] = NoRecord]
    /\ limited' = IF limited[c] # NoRecord THEN limited
                  ELSE [limited EXCEPT ![c] = Cleared(r)]
    /\ UNCHANGED useless

ReturnUseless(c) ==
    /\ valid' = [valid EXCEPT ![c] = NoRecord]
    /\ useless' = useless \cup {c}
    /\ UNCHANGED limited

-----------------------------------------------------------------------------
(* Tokens                                                                  *)

\* A token is fresh, then aging for its last five minutes, in which it is
\* still accepted, then expired; spent is TRUE once it has been refreshed.
Grant(g) == grants' = Append(g, [age |-> "fresh", spent |-> FALSE])
NextGrant == Len(grants) + 1

IsExpired(k) == grants[k].age # "fresh"

TokenStatus(r) == IF r.token = 0 THEN "none"
                  ELSE IF IsExpired(r.token) THEN "expired" ELSE "valid"

-----------------------------------------------------------------------------
(* A request                                                               *)
(* Steps between which the code does not wait are one action: what follows *)
(* an answer of the service up to the next question, and the message to    *)
(* the actor that is sent on the way.                                      *)

Idle == [pc |-> "idle", op |-> "none", tries |-> 0, cookie |-> NoCookie, copy |-> NewRecord,
         kept |-> NoRecord, due |-> {}, early |-> TRUE, outcome |-> "pending", hurt |-> FALSE]

Init ==
    /\ valid = [c \in Cookies |-> NewRecord]
    /\ limited = [c \in Cookies |-> NoRecord]
    /\ useless = {} /\ grants = <<>>
    /\ window = [c \in Cookies |-> [w \in Windows |-> 1]]
    /\ task = [t \in Tasks |-> Idle]
    /\ overlapped = {} /\ blind = {} /\ outrun = {}
    /\ settled = [c \in Cookies |-> 0]
    /\ requests = 0 /\ faults = 0

\* What is left of a request that has ended.
Ended(x, outcome) ==
    [Idle EXCEPT !.outcome = IF outcome = "failed" /\ ~x.hurt THEN "failed" ELSE "pending"]
End(t, outcome) == task' = [task EXCEPT ![t] = Ended(@, outcome)]

\* The token is for the request itself, not for a look at the usage.
ForRequest(x) == x.op # "status" /\ x.kept = NoRecord

\* check_token.  (early is history: the token had five minutes left then.)
Checked(x) ==
    [x EXCEPT !.pc = CASE TokenStatus(x.copy) = "none" -> "authorize"
                       [] TokenStatus(x.copy) = "expired" -> "refresh"
                       [] OTHER -> IF ForRequest(x) THEN "send" ELSE "metrics",
            !.early = x.copy.token # 0 => grants[x.copy.token].age = "fresh"]

InUse(c) == {t \in Tasks : task[t].cookie = c}
Take(t, x, c, r) ==
    /\ task' = [task EXCEPT ![t] = Checked([x EXCEPT !.cookie = c, !.copy = r])]
    /\ overlapped' = IF InUse(c) = {} THEN overlapped ELSE overlapped \cup {c}

Begin(t) ==
    /\ task[t].pc = "idle" /\ requests < MaxRequests
    /\ requests' = requests + 1
    /\ \E op \in Ops \ {"status"} :
        task' = [task EXCEPT ![t] = [Idle EXCEPT !.pc = "take", !.op = op]]
    /\ UNCHANGED <<actor, grants, window, history, faults>>

\* api_get_cookies: the status of the actor, and for each usable or limited
\* Cookie a client with the record just reported.
BeginStatus(t) ==
    /\ task[t].pc = "idle" /\ requests < MaxRequests /\ "status" \in Ops
    /\ requests' = requests + 1
    /\ \E c \in Cookies :
        /\ valid[c] # NoRecord \/ limited[c] # NoRecord
        /\ \E v \in Refreshed(valid[c], c), l \in Refreshed(limited[c], c) :
            /\ valid' = [valid EXCEPT ![c] = v]
            /\ limited' = [limited EXCEPT ![c] = l]
            /\ Take(t, [Idle EXCEPT !.op = "status"], c, IF v # NoRecord THEN v ELSE l)
    /\ UNCHANGED <<useless, grants, window, blind, outrun, settled, faults>>

\* One attempt, with a fresh clone of the state.  A Cookie that may not count
\* tokens, or a web request when these are off, is answered by an estimate.
RequestCookie(t) ==
    LET x == task[t]
        Local(r) == \/ x.op \in {"count", "web"} /\ r.allowed = "no"
                    \/ x.op = "web" /\ ~WebCounts
        usable == {c \in Cookies : valid[c] # NoRecord}
    IN  /\ x.pc = "take"
        /\ \/ /\ x.tries > MaxRetries
              /\ End(t, "failed") /\ UNCHANGED overlapped
           \/ /\ x.tries <= MaxRetries /\ usable = {}
              /\ End(t, "noCookie") /\ UNCHANGED overlapped
           \/ /\ x.tries <= MaxRetries
              /\ \E c \in usable :
                    IF Local(valid[c]) THEN End(t, "served") /\ UNCHANGED overlapped
                    ELSE Take(t, [x EXCEPT !.tries = @ + 1], c, valid[c])
        /\ UNCHANGED <<actor, grants, window, blind, outrun, settled, bounds>>

\* An error of the service ends the request.  A failed look at the usage is no
\* error: a status returns its copy all the same, and what a chat has used is
\* added to the copy from before, without the token that may have been got;
\* the windows that were due then begin at the time of the look.
Fail(t) ==
    LET x == [task[t] EXCEPT !.hurt = TRUE]
    IN  \/ /\ ForRequest(x)
           /\ task' = [task EXCEPT ![t] = Ended(x, "failed")]
           /\ UNCHANGED actor
        \/ /\ x.op = "status"
           /\ End(t, "served") /\ Return(x.cookie, x.copy)
        \/ /\ x.op # "status" /\ x.kept # NoRecord
           /\ task' = [task EXCEPT ![t] = [x EXCEPT !.pc = "add", !.copy = x.kept,
                                                  !.kept = NoRecord, !.due = {}]]
           /\ UNCHANGED actor

\* The Cookie goes back with the reason and the next attempt begins.
GiveUp(t, reason, hurt) ==
    LET x == task[t]
    IN  /\ IF reason = "limited" THEN ReturnLimited(x.cookie, x.copy) ELSE ReturnUseless(x.cookie)
        /\ task' = [task EXCEPT ![t] = [Idle EXCEPT !.pc = "take", !.op = x.op,
                                            !.tries = x.tries, !.hurt = hurt]]

\* The service refuses the Cookie; to a look at the usage that is any error.
Refuse(t) ==
    \E reason \in {"limited", "useless"} :
        IF ForRequest(task[t]) THEN GiveUp(t, reason, TRUE) ELSE Fail(t)

WithToken(x, k) == [x EXCEPT !.copy.token = k, !.early = TRUE,
                             !.pc = IF ForRequest(x) THEN "publish" ELSE "metrics"]

\* get_organization, exchange_code and exchange_token: nothing is shared
\* between them, so they are one step.
Authorize(t) ==
    /\ task[t].pc = "authorize"
    /\ \/ /\ Grant(grants)
          /\ task' = [task EXCEPT ![t] = WithToken(@, NextGrant)]
          /\ UNCHANGED <<actor, bounds>>
       \/ Fault /\ Fail(t) /\ UNCHANGED grants
       \/ Fault /\ Refuse(t) /\ UNCHANGED grants
    /\ UNCHANGED <<window, overlapped, blind, outrun, settled>>

\* refresh_token: the service takes a refresh token once.  After invalid_grant
\* the token is cleared and the client authorizes itself anew.
Renewed(t, k) ==
    /\ ~grants[k].spent
    /\ Grant([grants EXCEPT ![k].spent = TRUE])

\* Faulty variant: a spent token is a failure.
RefreshSpentFails(t) ==
    LET k == task[t].copy.token
    IN  /\ task[t].pc = "refresh"
        /\ \/ Renewed(t, k) /\ task' = [task EXCEPT ![t] = WithToken(@, NextGrant)]
           \/ grants[k].spent /\ End(t, "failed") /\ UNCHANGED grants
        /\ UNCHANGED <<actor, window, history, bounds>>
Refresh(t) ==
    LET k == task[t].copy.token
    IN  /\ task[t].pc = "refresh"
        /\ \/ /\ Renewed(t, k)
              /\ \/ /\ task' = [task EXCEPT ![t] = WithToken(@, NextGrant)]
                    /\ UNCHANGED <<actor, bounds>>
                 \/ Fault /\ Fail(t)                    \* the answer is lost
           \/ /\ grants[k].spent
              /\ task' = [task EXCEPT ![t].pc = "authorize", ![t].copy.token = 0]
              /\ UNCHANGED <<actor, grants, bounds>>
           \/ Fault /\ Fail(t) /\ UNCHANGED grants
        /\ UNCHANGED <<window, history>>

\* The new token is made known before it is used.
Publish(t) ==
    /\ task[t].pc = "publish"
    /\ task' = [task EXCEPT ![t].pc = "send"]
    /\ Return(task[t].cookie, task[t].copy)
    /\ UNCHANGED <<grants, window, history, bounds>>

\* persist_count_tokens_allowed
PersistAllowed(x, flag) ==
    IF x.copy.allowed = flag THEN UNCHANGED actor
    ELSE Return(x.cookie, [x.copy EXCEPT !.allowed = flag])

CountTokens(t) ==
    LET x == task[t]
        permitted == x.cookie \in Permitted
    IN  /\ x.op \in {"count", "web"}
        /\ PersistAllowed(x, IF permitted THEN "yes" ELSE "no")
        /\ End(t, IF permitted \/ x.op = "web" THEN "served" ELSE "denied")

\* An expired token is refused with 401, which check_claude takes for a refusal
\* of the Cookie.
Send(t) ==
    LET x == task[t]
        accepted == grants[x.copy.token].age # "expired"
    IN  /\ x.pc = "send"
        /\ \/ /\ accepted /\ x.op \in {"chat", "stream"}
              /\ task' = [task EXCEPT ![t].pc = "read"]
              /\ UNCHANGED <<actor, bounds>>
           \/ accepted /\ CountTokens(t) /\ UNCHANGED bounds
           \/ ~accepted /\ GiveUp(t, "useless", x.hurt) /\ UNCHANGED bounds
           \/ Fault /\ Fail(t)
           \/ Fault /\ Refuse(t)
        /\ UNCHANGED <<grants, window, history>>

\* A whole answer is read, or a stream is read to its message_stop, when a task
\* of its own records the usage; the client of a stream may stop before.  When
\* any usage window is over or unknown, update_cookie_boundaries_if_due looks at
\* the usage with a state of its own; "kept" is the record to go on with if the
\* look fails, "due" are the windows that are over when it begins.
Read(t) ==
    LET x == task[t]
        due == Due(x.copy, x.cookie)
    IN  /\ x.pc = "read"
        /\ \/ /\ IF Unknown(x.copy) \cup due = {} THEN task' = [task EXCEPT ![t].pc = "add"]
                 ELSE \E r \in Refreshed(x.copy, x.cookie) :
                        task' = [task EXCEPT ![t] = Checked([x EXCEPT !.kept = r, !.due = due])]
              /\ UNCHANGED <<actor, bounds>>
           \/ Fault /\ IF x.op = "stream" THEN End(t, "served") /\ UNCHANGED actor ELSE Fail(t)
        /\ UNCHANGED <<grants, window, history>>

\* fetch_usage_metrics is done: the state returns its copy.  A chat then sets
\* the boundaries in the copy that it will return with the usage; "given" are
\* the windows that the account has, by the answer.
Metrics(t) ==
    LET x == task[t]
    IN  /\ x.pc = "metrics"
        /\ \/ /\ Return(x.cookie, x.copy) /\ UNCHANGED bounds
              /\ \/ x.op = "status" /\ End(t, "served")
                 \/ /\ x.op # "status"
                    /\ \E given \in SUBSET Windows :
                        task' = [task EXCEPT ![t] = [x EXCEPT
                            !.pc = "add", !.kept = NoRecord, !.due = {},
                            !.copy = Boundary(x.copy, x.cookie, x.due, given)]]
           \/ Fault /\ Fail(t)
        /\ UNCHANGED <<grants, window, history>>

\* persist_usage_totals
AddUsage(t) ==
    LET x == task[t]
    IN  /\ x.pc = "add"
        /\ \E sonnet \in BOOLEAN :
            /\ Return(x.cookie, Added(x.copy, x.cookie, Counting(sonnet)))
            /\ blind' = blind \cup {<<x.cookie, w>> : w \in Unknown(x.copy) \cap Counting(sonnet)}
        /\ settled' = [settled EXCEPT ![x.cookie] = @ + 1]
        /\ End(t, "served")
        /\ UNCHANGED <<grants, window, overlapped, outrun, bounds>>

\* The client goes away and the future is dropped; the answer of a stream has
\* already been handed over when it is read.
Cancel(t) ==
    /\ task[t].pc # "idle" /\ Fault
    /\ task[t].op = "stream" => task[t].pc \notin {"read", "add"} /\ task[t].kept = NoRecord
    /\ task' = [task EXCEPT ![t] = Idle]
    /\ UNCHANGED <<actor, grants, window, history>>

-----------------------------------------------------------------------------
(* Time                                                                    *)

\* A request takes less than the five minutes between its look at the token
\* and its use.
Copies == {task[t].copy : t \in Tasks} \cup {task[t].kept : t \in Tasks}
Held == {r.token : r \in (Copies \cup {valid[c] : c \in Cookies}
                                 \cup {limited[c] : c \in Cookies}) \ {NoRecord}}

Age(k) ==
    /\ k \in Held
    /\ \/ /\ grants[k].age = "fresh"
          /\ grants' = [grants EXCEPT ![k].age = "aging"]
       \/ /\ grants[k].age = "aging"
          /\ \A t \in Tasks : task[t].copy.token = k /\ task[t].early
                               => task[t].pc \notin {"publish", "send"}
          /\ grants' = [grants EXCEPT ![k].age = "expired"]
    /\ UNCHANGED <<actor, window, task, history, bounds>>

\* A window of the service ends.  That is early for a record whose boundary was
\* guessed to lie beyond it, and for a request that is looking at the usage.
RecordsOf(c) == {valid[c], limited[c]} \cup {task[t].copy : t \in InUse(c)}
                                       \cup {task[t].kept : t \in InUse(c)}
EndsEarly(c, w) ==
    \/ \E r \in RecordsOf(c) \ {NoRecord} : r.windows[w].ends > window[c][w]
    \/ \E t \in InUse(c) : task[t].kept # NoRecord

NewWindow(c, w) ==
    /\ window[c][w] < MaxWindows
    /\ window' = [window EXCEPT ![c][w] = @ + 1]
    /\ outrun' = IF EndsEarly(c, w) THEN outrun \cup {<<c, w>>} ELSE outrun
    /\ UNCHANGED <<actor, grants, task, overlapped, blind, settled, bounds>>

\* The timer of the actor, for one Cookie.
CheckReset(c) ==
    /\ \E v \in Refreshed(valid[c], c), l \in Refreshed(limited[c], c) :
        /\ valid' = [valid EXCEPT ![c] = v]
        /\ limited' = [limited EXCEPT ![c] = l]
    /\ UNCHANGED <<useless, grants, window, task, history, bounds>>

\* The reset time of a limited Cookie has passed.
Reset(c) ==
    /\ limited[c] # NoRecord
    /\ limited' = [limited EXCEPT ![c] = NoRecord]
    /\ valid' = [valid EXCEPT ![c] = Cleared(limited[c])]
    /\ UNCHANGED <<useless, grants, window, task, history, bounds>>

Step(t) ==
    \/ RequestCookie(t) \/ Authorize(t) \/ Refresh(t) \/ Publish(t) \/ Send(t)
    \/ Read(t) \/ Metrics(t) \/ AddUsage(t)

Next ==
    \/ \E t \in Tasks : Begin(t) \/ BeginStatus(t) \/ Step(t) \/ Cancel(t)
    \/ \E k \in DOMAIN grants : Age(k)
    \/ \E c \in Cookies : CheckReset(c) \/ Reset(c) \/ \E w \in Windows : NewWindow(c, w)

Spec == Init /\ [][Next]_vars

-----------------------------------------------------------------------------
(* Properties                                                              *)

\* lifetime_usage counts no answer twice, however copies of the record overtake
\* each other, and it is exact as long as no two requests have had the Cookie at
\* once: refreshed tokens, looks at the usage, limits and failures lose nothing.
UsageCounted ==
    \A c \in Cookies : LET r == IF valid[c] # NoRecord THEN valid[c] ELSE limited[c]
                       IN r # NoRecord =>
        /\ r.total <= settled[c]
        /\ c \notin overlapped /\ InUse(c) = {} => r.total = settled[c]

\* The counters of a window hold no answer from before its boundary was set: a
\* late copy brings old counters back only together with their old boundary, and
\* a look at the usage that another window has caused moves a boundary only over
\* the answers of the same window.  Not so for the two cases in which the code
\* sets a boundary over counters that it does not clear: usage that was added
\* before the window was known, and a window that the service has ended before
\* the local boundary or during the look itself.
OneWindow ==
    \A c \in Cookies, w \in Windows : <<c, w>> \notin blind \cup outrun =>
        \A r \in {valid[c], limited[c]} \ {NoRecord} :
            LET s == r.windows[w]
            IN  s.has = "yes" /\ s.oldest # 0 => s.oldest >= s.start

\* A request fails only if the service or its client failed it: not because its
\* copy of the token was refreshed by another request in the meantime, or lost.
ServedUnlessFault == \A t \in Tasks : task[t].outcome # "failed"
=============================================================================
