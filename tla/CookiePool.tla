------------------------------ MODULE CookiePool ------------------------------
(***************************************************************************)
(* The Cookie pool: the CookieActor that hands Cookies out and takes them  *)
(* back, the copy of its collections in CLEWDR_CONFIG, and the file that   *)
(* the detached save tasks write and a restart reads.                      *)
(*                                                                         *)
(* The actor handles one message at a time, so a message is one action. A  *)
(* Cookie is not taken out of the pool when it is dispatched: clients get  *)
(* copies, and may return one of them late, twice or never.                *)
(*                                                                         *)
(* Abstracted: the token, the usage counters and the reset times of a      *)
(* Cookie. Of a reset time only whether it has passed is kept (due).       *)
(***************************************************************************)
EXTENDS Naturals, Sequences, FiniteSets

CONSTANTS
    Cookies,    \* the Cookie strings; two CookieStatus are equal if theirs are
    Keys,       \* affinity keys: session digests and legacy hashes
    NoCookie,   \* no affinity entry, or no Cookie required
    NoKey,      \* a request without affinity
    MaxSaves,   \* bound on the save tasks that exist at once
    MaxRestarts \* bound on restarts

ASSUME PoolAssumption ==
    /\ NoCookie \notin Cookies /\ NoKey \notin Keys
    /\ IsFiniteSet(Cookies)
    /\ MaxSaves \in Nat /\ MaxRestarts \in Nat

VARIABLES
    valid,      \* the queue of usable Cookies
    exhausted,  \* Cookies with a reset time
    due,        \* the exhausted Cookies whose reset time has passed
    invalid,    \* Cookies given up
    affinity,   \* moka: the last Cookie dispatched for a key
    lent,       \* Cookies a client may have a copy of
    config,     \* cookie_array (free: without reset time, resting: with) and wasted_cookie
    file,       \* the same of the configuration file
    queued,     \* save tasks that have not loaded the configuration yet
    writing,    \* snapshots that save tasks have loaded and are writing
    restarts,
    running,    \* the actor has not stopped
    relapsed    \* history: Cookies given up while exhausted, or exhausted after that

poolVars == <<valid, exhausted, due, invalid>>
saveVars == <<config, queued>>
vars == <<poolVars, affinity, lent, saveVars, file, writing, restarts, running, relapsed>>

InQueue == {valid[i] : i \in DOMAIN valid}
InPool == InQueue \cup exhausted \cup invalid

Stored == [free: SUBSET Cookies, resting: SUBSET Cookies, wasted: SUBSET Cookies]
Nothing == [free |-> {}, resting |-> {}, wasted |-> {}]
Array(stored) == stored.free \cup stored.resting

\* The iteration orders of a HashSet.
Orders(S) == {s \in [1..Cardinality(S) -> S] :
                  \A i, j \in 1..Cardinality(S) : s[i] = s[j] => i = j}

TypeOK ==
    /\ valid \in Seq(Cookies)
    /\ exhausted \subseteq Cookies /\ due \subseteq exhausted
    /\ invalid \subseteq Cookies /\ lent \subseteq Cookies
    /\ affinity \in [Keys -> Cookies \cup {NoCookie}]
    /\ config \in Stored /\ file \in Stored /\ writing \subseteq Stored
    /\ queued \in 0..MaxSaves /\ restarts \in 0..MaxRestarts
    /\ running \in BOOLEAN /\ relapsed \subseteq Cookies

\* pre_start: the collections of a configuration that was just loaded.
Loaded(stored) ==
    /\ config = stored
    /\ valid \in Orders(stored.free)
    /\ exhausted = stored.resting /\ due = {}
    /\ invalid = stored.wasted

Init ==
    /\ \E stored \in {s \in Stored : s.free \cap s.resting = {}} :
           /\ Loaded(stored) /\ file = stored
           /\ relapsed = Array(stored) \cap stored.wasted
    /\ affinity = [k \in Keys |-> NoCookie]
    /\ lent = {} /\ queued = 0 /\ writing = {} /\ restarts = 0 /\ running = TRUE

----------------------------------------------------------------------------
(* Helpers *)

\* retain: the queue without c, in its order. The kept place of rank k becomes
\* place k (said by ranks, and not by SelectSeq, to be reasoned about).
Kept(s, c) == {i \in DOMAIN s : s[i] # c}
Rank(S, i) == Cardinality({j \in S : j <= i})
Without(s, c) == [k \in 1..Cardinality(Kept(s, c)) |->
                      s[CHOOSE i \in Kept(s, c) : Rank(Kept(s, c), i) = k]]

\* Faulty variant: the exhausted Cookies are not published.
SaveQueueOnly ==
    /\ queued + Cardinality(writing) < MaxSaves
    /\ queued' = queued + 1
    /\ config' = [free    |-> {valid'[i] : i \in DOMAIN valid'},
                  resting |-> {},
                  wasted  |-> invalid']

\* CookieActor::save publishes the collections and spawns a task for the file.
Save ==
    /\ queued + Cardinality(writing) < MaxSaves
    /\ queued' = queued + 1
    /\ config' = [free    |-> {valid'[i] : i \in DOMAIN valid'},
                  resting |-> exhausted',
                  wasted  |-> invalid']

\* Faulty variant: the Cookies that are due go to the front of the queue.
QueuesAfterResetFront == {back \o valid : back \in Orders(due)}

\* CookieActor::reset: the Cookies that are due go to the back of the queue.
\* Nothing is saved.
QueuesAfterReset == {valid \o back : back \in Orders(due)}
\* Faulty variant: the Cookies that went back are still due.
RestedStillDue == exhausted' = exhausted \ due /\ due' = due

Rested == exhausted' = exhausted \ due /\ due' = {}

\* Cookie c is handed out, and remembered for the key.
Dispatched(c, k) ==
    /\ lent' = lent \cup {c}
    /\ affinity' = IF k = NoKey THEN affinity ELSE [affinity EXCEPT ![k] = c]

----------------------------------------------------------------------------
(* Messages *)

\* What dispatch answers without taking a turn of the queue: the required
\* Cookie, or the last one of the key, if it is usable.
Bound(queue, k, required) ==
    LET usable == {queue[i] : i \in DOMAIN queue}
    IN  IF required # NoCookie THEN {required} \cap usable
        ELSE IF k = NoKey THEN {} ELSE {affinity[k]} \cap usable

\* Request: reset, then the bound Cookie, or the front of the queue in turn.
Request(k, required) ==
    /\ Rested
    /\ \E queue \in QueuesAfterReset :
           \/ \E c \in Bound(queue, k, required) :
                  Dispatched(c, k) /\ valid' = queue
           \/ /\ Bound(queue, k, required) = {} /\ required = NoCookie
              /\ queue # <<>>
              /\ Dispatched(Head(queue), k)
              /\ valid' = Append(Tail(queue), Head(queue))
           \/ /\ Bound(queue, k, required) = {}      \* NoCookieAvailable
              /\ required # NoCookie \/ queue = <<>>
              /\ valid' = queue
              /\ UNCHANGED <<lent, affinity>>
    /\ UNCHANGED <<invalid, saveVars, file, writing, restarts, relapsed>>

\* Faulty variant: a Cookie without a reason is usable again.
ReturnAsUsable(c) ==
    /\ c \in lent
    /\ valid' = IF c \in InQueue THEN valid ELSE Append(valid, c)
    /\ exhausted' = exhausted \ {c} /\ due' = due \ {c}
    /\ UNCHANGED invalid
    /\ Save
    /\ UNCHANGED <<affinity, lent, file, writing, restarts, relapsed>>

\* Return without a reason: the copy replaces the entry of the queue, if there
\* is one.
Return(c) ==
    /\ c \in lent \cap InQueue
    /\ UNCHANGED poolVars
    /\ Save
    /\ UNCHANGED <<affinity, lent, file, writing, restarts, relapsed>>

\* Return with TooManyRequest or Restricted: the Cookie rests until a reset
\* time. If it rests already the earlier entry is kept and nothing is saved.
ReturnLimited(c) ==
    /\ c \in lent
    /\ valid' = Without(valid, c)
    /\ exhausted' = exhausted \cup {c}
    /\ UNCHANGED <<due, invalid>>
    /\ IF c \in exhausted THEN UNCHANGED saveVars ELSE Save
    /\ relapsed' = relapsed \cup ({c} \cap invalid)
    /\ UNCHANGED <<affinity, lent, file, writing, restarts>>

\* Return with Free, Disabled, Banned or Null: the Cookie is given up. An
\* exhausted entry of it stays.
ReturnUseless(c) ==
    /\ c \in lent
    /\ valid' = Without(valid, c)
    /\ invalid' = invalid \cup {c}
    /\ UNCHANGED <<exhausted, due>>
    /\ IF c \in invalid THEN UNCHANGED saveVars ELSE Save
    /\ relapsed' = relapsed \cup ({c} \cap exhausted)
    /\ UNCHANGED <<affinity, lent, file, writing, restarts>>

\* Faulty variant: only the Cookies that were given up are looked at.
SubmitUnlessWasted(c) ==
    /\ c \notin config.wasted
    /\ valid' = Append(valid, c)
    /\ UNCHANGED <<exhausted, due, invalid>>
    /\ Save
    /\ UNCHANGED <<affinity, lent, file, writing, restarts, relapsed>>

\* Submit: what is new is decided by the configuration, not by the collections.
Submit(c) ==
    /\ c \notin Array(config) \cup config.wasted
    /\ valid' = Append(valid, c)
    /\ UNCHANGED <<exhausted, due, invalid>>
    /\ Save
    /\ UNCHANGED <<affinity, lent, file, writing, restarts, relapsed>>

\* Delete, from every collection. Copies that clients hold stay with them.
Delete(c) ==
    /\ c \in InPool
    /\ valid' = Without(valid, c)
    /\ exhausted' = exhausted \ {c} /\ due' = due \ {c}
    /\ invalid' = invalid \ {c}
    /\ Save
    /\ UNCHANGED <<affinity, lent, file, writing, restarts, relapsed>>

\* CheckReset, every 300 s: the elapsed usage windows are cleared, which is
\* saved if there are any, then the Cookies that are due return to the queue.
CheckReset ==
    /\ valid' \in QueuesAfterReset
    /\ Rested
    /\ UNCHANGED invalid
    /\ \/ /\ queued + Cardinality(writing) < MaxSaves
          /\ queued' = queued + 1
          /\ config' = [free |-> InQueue, resting |-> exhausted, wasted |-> invalid]
       \/ UNCHANGED saveVars
    /\ UNCHANGED <<affinity, lent, file, writing, restarts, relapsed>>

\* GetStatus: the elapsed usage windows are cleared and saved, nothing moves.
GetStatus ==
    /\ UNCHANGED poolVars
    /\ Save \/ UNCHANGED saveVars
    /\ UNCHANGED <<affinity, lent, file, writing, restarts, relapsed>>

----------------------------------------------------------------------------
(* Time, the file and restarts *)

\* The reset time of a Cookie passes.
TimePasses(c) ==
    /\ c \in exhausted \ due
    /\ due' = due \cup {c}
    /\ UNCHANGED <<valid, exhausted, invalid, affinity, lent, saveVars, file,
                   writing, restarts, relapsed>>

\* moka drops an entry: an hour of idling, or its capacity.
Forget(k) ==
    /\ affinity[k] # NoCookie
    /\ affinity' = [affinity EXCEPT ![k] = NoCookie]
    /\ UNCHANGED <<poolVars, lent, saveVars, file, writing, restarts, relapsed>>

\* api_post_config: the collections are carried over and the file is written.
PostConfig ==
    /\ queued + Cardinality(writing) < MaxSaves
    /\ queued' = queued + 1
    /\ UNCHANGED <<poolVars, affinity, lent, config, file, writing, restarts, relapsed>>

\* A save task loads the configuration of the moment ...
SaveLoads ==
    /\ queued > 0
    /\ queued' = queued - 1
    /\ writing' = writing \cup {config}
    /\ UNCHANGED <<poolVars, affinity, lent, config, file, restarts, relapsed>>

\* ... and writes it, in whatever order the tasks get to it.
SaveWrites ==
    /\ \E snapshot \in writing :
           file' = snapshot /\ writing' = writing \ {snapshot}
    /\ UNCHANGED <<poolVars, affinity, lent, saveVars, restarts, relapsed>>

\* The process stops and starts again. A write in progress may leave the file
\* empty, which loads as the default configuration. Loading clears the reset
\* times that have passed and spawns a task that writes the result.
Restart ==
    /\ restarts < MaxRestarts
    /\ restarts' = restarts + 1
    /\ file' \in {file} \cup {Nothing : snapshot \in writing}
    /\ \E elapsed \in SUBSET file'.resting :
           config' = [file' EXCEPT !.free = @ \cup elapsed,
                                   !.resting = @ \ elapsed]
    /\ valid' \in Orders(config'.free)
    /\ exhausted' = config'.resting /\ due' = {}
    /\ invalid' = config'.wasted
    /\ affinity' = [k \in Keys |-> NoCookie]
    /\ lent' = {} /\ queued' = 0 /\ writing' = {config'}
    /\ UNCHANGED relapsed

----------------------------------------------------------------------------
Returned(c) == Return(c) \/ ReturnLimited(c) \/ ReturnUseless(c)

\* A caller that has gone in the meantime cannot be replied to: that is an error
\* of the handler (reply_port.send(..)?), and the actor stops.
Replied ==
    \/ \E k \in Keys \cup {NoKey}, required \in Cookies \cup {NoCookie} :
           Request(k, required)
    \/ \E c \in Cookies : Delete(c)
    \/ GetStatus

Unreplied == CheckReset \/ \E c \in Cookies : Returned(c) \/ Submit(c)

Outside ==
    \/ \E c \in Cookies : TimePasses(c)
    \/ \E k \in Keys : Forget(k)
    \/ PostConfig \/ SaveLoads \/ SaveWrites

Next ==
    \/ running /\ Replied /\ running' \in BOOLEAN
    \/ running /\ Unreplied /\ UNCHANGED running
    \/ Outside /\ UNCHANGED running
    \/ Restart /\ running' = TRUE

Spec == Init /\ [][Next]_vars

----------------------------------------------------------------------------
(* Correctness *)

\* A Cookie has one place: it is not twice in the queue, which would give it a
\* double share of the requests, nor usable while it rests, nor in use again when
\* it was given up. It takes the queue, the exhausted set and the configuration,
\* which Submit consults instead of them and which several paths do not update,
\* to agree. The exception are Cookies given up on a copy that came back while
\* they rested, or limited by one that came back after they were given up: the
\* code keeps both entries, and such a Cookie is used again when it is due.
OnePlace ==
    /\ \A i, j \in DOMAIN valid : valid[i] = valid[j] => i = j
    /\ InQueue \cap exhausted = {}
    /\ (InQueue \cup exhausted) \cap invalid \subseteq relapsed

\* The configuration never forgets a Cookie the actor can still hand out, nor one
\* that was given up, so a save of it, whenever it happens, does not lose one and
\* a submission of it is recognised.
ConfigCovers == InQueue \cup exhausted \subseteq Array(config) /\ invalid \subseteq config.wasted

\* Requests take turns: a Cookie falls back in the queue only when it was at the
\* front and goes to the end, so no Cookie is passed over while another is used
\* twice. Bound requests, returns, resets and deletions do not cost it its turn.
Place(queue, c) == CHOOSE i \in DOMAIN queue : queue[i] = c
TakesTurns ==
    [][restarts' = restarts =>
           \A c \in InQueue :
               (\E i \in DOMAIN valid' : valid'[i] = c) =>
                   \/ Place(valid', c) <= Place(valid, c)
                   \/ Place(valid, c) = 1 /\ Place(valid', c) = Len(valid')]_vars

\* A Cookie the upstream has limited rests until its reset time: no late copy of
\* it, returned by a client that had it before, makes it usable earlier.
RestsUntilDue ==
    [][restarts' = restarts =>
           \A c \in exhausted \ due : c \in exhausted' \/ c \notin InPool']_vars
=============================================================================
