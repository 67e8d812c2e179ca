----------------------------- MODULE StatusCache -----------------------------
(***************************************************************************)
(* The cached status of the Cookies (api/misc.rs) between the admin        *)
(* endpoints and the mailbox of the CookieActor.                           *)
(*                                                                         *)
(* A status takes long to make: the actor answers at once, and then usage  *)
(* is fetched from the network for every Cookie.  Submit and delete clear  *)
(* the cache when they are done.  Of a status only the changes it shows    *)
(* are kept; what they do to the pool is in CookiePool.                    *)
(***************************************************************************)
EXTENDS Sequences

CONSTANTS
    Gets,      \* api_get_cookies
    Refreshes, \* the gets with refresh=true
    Submits,   \* api_post_cookie
    Deletes,   \* api_delete_cookie
    NoStatus

VARIABLES
    pc,        \* where each call stands
    mailbox,   \* the messages of the calls, in order
    running,   \* the actor handles messages
    applied,   \* the changes the actor has made
    cache,     \* COOKIES_CACHE: a status, or none
    status,    \* the status a get is making, or has answered
    owed       \* history: the changes that were confirmed when a get arrived

vars == <<pc, mailbox, running, applied, cache, status, owed>>

Calls == Gets \cup Submits \cup Deletes

Goto(c, l) == pc' = [pc EXCEPT ![c] = l]

Confirmed == {c \in Submits \cup Deletes : pc[c] = "ok"}

Init ==
    /\ pc = [c \in Calls |-> "idle"]
    /\ mailbox = <<>> /\ running = TRUE /\ applied = {} /\ cache = NoStatus
    /\ status = [g \in Gets |-> NoStatus]
    /\ owed = [g \in Gets |-> {}]

\* Every call but a get that finds the cache filled sends the actor a message,
\* or fails when the actor has stopped.
Send(c, l) ==
    /\ pc[c] = "idle"
    /\ mailbox' = IF running THEN Append(mailbox, c) ELSE mailbox
    /\ Goto(c, IF running THEN l ELSE "failed")
    /\ UNCHANGED <<running, applied, cache>>

GetCached(g) ==
    /\ pc[g] = "idle"
    /\ g \notin Refreshes /\ cache # NoStatus
    /\ status' = [status EXCEPT ![g] = cache]
    /\ owed' = [owed EXCEPT ![g] = Confirmed]
    /\ Goto(g, "ok")
    /\ UNCHANGED <<mailbox, running, applied, cache>>

GetFresh(g) ==
    /\ g \in Refreshes \/ cache = NoStatus
    /\ Send(g, "asked")
    /\ owed' = [owed EXCEPT ![g] = Confirmed]
    /\ UNCHANGED status

\* A submission is cast: no answer is awaited before the cache is cleared.
Submit(s) == Send(s, "clearing") /\ UNCHANGED <<status, owed>>

Delete(d) == Send(d, "asked") /\ UNCHANGED <<status, owed>>

\* CookieActor: one message at a time.  A delete that finds no Cookie is an
\* error, and clears nothing.  A reply to a call that has gone is an error of the
\* actor, which stops.
Handle ==
    /\ running /\ mailbox # <<>>
    /\ mailbox' = Tail(mailbox)
    /\ LET c == Head(mailbox)
           Reply(l) == IF pc[c] = "asked" THEN Goto(c, l) /\ UNCHANGED running
                       ELSE running' = FALSE /\ UNCHANGED pc
       IN  \/ /\ c \in Gets
              /\ status' = [status EXCEPT ![c] = applied]
              /\ Reply("fetching")
              /\ UNCHANGED applied
           \/ /\ c \in Submits
              /\ applied' = applied \cup {c}
              /\ UNCHANGED <<pc, running, status>>
           \/ /\ c \in Deletes
              /\ \/ Reply("clearing") /\ applied' = applied \cup {c}
                 \/ Reply("failed") /\ UNCHANGED applied
              /\ UNCHANGED status
    /\ UNCHANGED <<cache, owed>>

\* The calls that a stopped actor will not answer.
Abandoned(c) ==
    /\ ~running /\ pc[c] = "asked"
    /\ Goto(c, "failed")
    /\ UNCHANGED <<mailbox, running, applied, cache, status, owed>>

\* augment_utilization is done: what was reported before it is cached.
Answer(g) ==
    /\ pc[g] = "fetching"
    /\ cache' = status[g]
    /\ Goto(g, "ok")
    /\ UNCHANGED <<mailbox, running, applied, status, owed>>

Clear(c) ==
    /\ pc[c] = "clearing"
    /\ cache' = NoStatus
    /\ Goto(c, "ok")
    /\ UNCHANGED <<mailbox, running, applied, status, owed>>

\* The client goes away while its call awaits: it answers and clears nothing.
Cancel(c) ==
    /\ pc[c] \in {"asked", "fetching"}
    /\ Goto(c, "cancelled")
    /\ UNCHANGED <<mailbox, running, applied, cache, status, owed>>

\* time_to_live
Expire ==
    /\ cache # NoStatus
    /\ cache' = NoStatus
    /\ UNCHANGED <<pc, mailbox, running, applied, status, owed>>

Next ==
    \/ \E g \in Gets : GetCached(g) \/ GetFresh(g) \/ Answer(g)
    \/ \E s \in Submits : Submit(s)
    \/ \E d \in Deletes : Delete(d)
    \/ \E c \in Calls : Clear(c) \/ Cancel(c) \/ Abandoned(c)
    \/ Handle \/ Expire

Spec == Init /\ [][Next]_vars

\* "Clear cache to ensure fresh data on next request" (misc.rs:75, :199): a get
\* that arrives after a change was confirmed shows it.
FreshAfterClear == \A g \in Gets : pc[g] = "ok" => owed[g] \subseteq status[g]
=============================================================================
