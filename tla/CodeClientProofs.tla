-------------------------- MODULE CodeClientProofs --------------------------
(***************************************************************************)
(* The theorems about CodeClient: what the lifetime usage of a Cookie      *)
(* counts, which window its windowed counters stand for, and that a        *)
(* request fails only by a fault, for any number of requests, Cookies,     *)
(* windows, tokens and faults.                                             *)
(*                                                                         *)
(* The work is in two invariants.  ClientInv speaks of one record at a     *)
(* time, wherever it is: in the actor, in the copy of a request or in the  *)
(* copy kept from before a look at the usage.  ExactInv relates all the    *)
(* records of a Cookie that no two requests have had at once.              *)
(***************************************************************************)
EXTENDS CodeClient, TLAPS

-----------------------------------------------------------------------------
(* The invariants                                                          *)

TokenRecords == [age : {"fresh", "aging", "expired"}, spent : BOOLEAN]

Steps == {"idle", "take", "authorize", "refresh", "publish", "send", "read", "metrics", "add"}

Handlers == [pc : Steps, op : {"none", "chat", "stream", "count", "web", "status"},
             tries : Nat, cookie : Cookies \cup {NoCookie}, copy : Records,
             kept : Records \cup {NoRecord}, due : SUBSET Windows, early : BOOLEAN,
             outcome : {"pending", "failed"}, hurt : BOOLEAN]

Numbers ==
    /\ grants \in Seq(TokenRecords)
    /\ window \in [Cookies -> [Windows -> Nat]]
    /\ settled \in [Cookies -> Nat]

\* The counters hold no answer from before their boundary, and none while it is
\* not known whether there is one: it would be set after them.  A boundary that
\* is not passed was set in the window of the service that still goes on, so that
\* another look at it changes nothing.
SoundWindow(s, c, w) ==
    /\ s.start <= window[c][w]
    /\ <<c, w>> \notin blind /\ s.has = "unknown" => s.oldest = 0
    /\ <<c, w>> \notin blind \cup outrun /\ s.has = "yes" =>
            /\ s.oldest # 0 => s.oldest >= s.start
            /\ s.ends >= window[c][w] => s.start = window[c][w]

Sound(ws, c) == \A w \in Windows : SoundWindow(ws[w], c, w)

\* What is true of a record of Cookie c wherever it is, and stays true of a
\* copy while the rest of the system goes on.
Good(r, c) ==
    /\ r \in Records
    /\ r.token <= Len(grants)
    /\ r.total <= settled[c]
    /\ Sound(r.windows, c)

GoodOrNone(r, c) == r = NoRecord \/ Good(r, c)

\* The windows that were due when a look at the usage began are still those that
\* are, unless the service has ended one meanwhile.
Marked(x) == \A w \in Windows : <<x.cookie, w>> \notin outrun =>
                (w \in x.due <=> w \in Due(x.copy, x.cookie))

\* What a request is in the middle of.
HandlerInv(x) ==
    /\ x.outcome # "failed"
    /\ x.pc \in {"idle", "take"} <=> x.cookie = NoCookie
    /\ x.pc # "idle" => x.op # "none"
    /\ x.pc = "take" => x.tries = 0 \/ x.hurt
    /\ x.pc \in {"idle", "take"} => x.kept = NoRecord
    /\ x.cookie # NoCookie => Good(x.copy, x.cookie) /\ GoodOrNone(x.kept, x.cookie)
    /\ x.pc = "refresh" => x.copy.token # 0
    /\ x.pc \in {"publish", "send"} => x.early /\ x.copy.token # 0 /\ ForRequest(x)
    /\ x.pc \in {"read", "add"} => x.op \in {"chat", "stream"} /\ x.kept = NoRecord
    /\ x.pc = "metrics" => ~ForRequest(x)
    /\ x.op = "status" => x.kept = NoRecord
    /\ x.kept # NoRecord => x.op \in {"chat", "stream"} /\ Marked(x)

\* A token that a request is about to use is accepted.
Unexpired(x) == x.pc \in {"publish", "send"} => grants[x.copy.token].age # "expired"

ActorInv ==
    /\ valid \in [Cookies -> Records \cup {NoRecord}]
    /\ limited \in [Cookies -> Records \cup {NoRecord}]
    /\ \A c \in Cookies : GoodOrNone(valid[c], c) /\ GoodOrNone(limited[c], c)

HandlersInv ==
    /\ task \in [Tasks -> Handlers]
    /\ \A t \in Tasks : HandlerInv(task[t]) /\ Unexpired(task[t])

ClientInv == Numbers /\ ActorInv /\ HandlersInv

\* One request at a time: every record of the Cookie counts the same answers,
\* and a request that adds to it has the one that is handed out.
ActorExact(c) ==
    /\ valid[c] = NoRecord \/ limited[c] = NoRecord
    /\ valid[c] # NoRecord => valid[c].total = settled[c]
    /\ limited[c] # NoRecord => limited[c].total = settled[c]

HandlerExact(x, c) ==
    /\ x.copy.total = settled[c]
    /\ x.kept # NoRecord => x.kept.total = settled[c]
    /\ x.op # "status" => valid[c] # NoRecord

Exact(c) ==
    /\ ActorExact(c)
    /\ \A t, u \in Tasks : task[t].cookie = c /\ task[u].cookie = c => t = u
    /\ \A t \in Tasks : task[t].cookie = c => HandlerExact(task[t], c)

ExactInv == \A c \in Cookies \ overlapped : Exact(c)

-----------------------------------------------------------------------------
(* Records                                                                 *)

LEMMA NewRecordIsTyped == NewRecord \in Records
BY DEF NewRecord, NewWindowState, Records, WindowStates

LEMMA IdleIsTyped == Idle \in Handlers
BY NewRecordIsTyped DEF Idle, Handlers, Steps

\* Usage is added and tokens follow one another; nothing goes back.
Grows ==
    /\ \A c \in Cookies : settled[c] <= settled'[c]
    /\ window' = window
    /\ blind \subseteq blind' /\ outrun \subseteq outrun'
    /\ Len(grants) <= Len(grants')

LEMMA WindowTyped ==
    ASSUME NEW r \in Records, NEW w \in Windows
    PROVE  /\ r.windows \in [Windows -> WindowStates] /\ r.windows[w] \in WindowStates
           /\ r.windows[w].oldest \in Nat /\ r.windows[w].start \in Nat /\ r.windows[w].ends \in Nat
<1>1. r.windows \in [Windows -> WindowStates]
  BY DEF Records
<1>2. r.windows[w] \in WindowStates
  BY <1>1
<1> QED
  BY <1>1, <1>2 DEF WindowStates

LEMMA SoundStays ==
    ASSUME Grows, NEW c \in Cookies, NEW ws, Sound(ws, c)
    PROVE  Sound(ws, c)'
BY DEF Sound, SoundWindow, Grows

LEMMA GoodStays ==
    ASSUME Numbers, Numbers', Grows, NEW c \in Cookies, NEW r, Good(r, c)
    PROVE  Good(r, c)'
<1>1. r \in Records /\ r.token \in Nat /\ r.total \in Nat
  BY DEF Good, Records
<1>2. /\ settled[c] \in Nat /\ settled'[c] \in Nat
      /\ Len(grants) \in Nat /\ Len(grants') \in Nat
  BY DEF Numbers
<1>3. r.token <= Len(grants') /\ r.total <= settled'[c]
  BY <1>1, <1>2 DEF Good, Grows
<1>4. Sound(r.windows, c)'
  BY SoundStays DEF Good
<1> QED
  BY <1>1, <1>3, <1>4 DEF Good

LEMMA HandlerStays ==
    ASSUME Numbers, Numbers', Grows, NEW x \in Handlers, HandlerInv(x)
    PROVE  HandlerInv(x)'
<1>1. ASSUME x.cookie # NoCookie
      PROVE  Good(x.copy, x.cookie)' /\ GoodOrNone(x.kept, x.cookie)'
  <2>1. x.cookie \in Cookies
    BY <1>1 DEF Handlers
  <2> QED
    BY <1>1, <2>1, GoodStays DEF HandlerInv, GoodOrNone
<1>2. ASSUME x.kept # NoRecord
      PROVE  Marked(x)'
  BY <1>2 DEF HandlerInv, Marked, Due, Grows
<1> QED
  BY <1>1, <1>2 DEF HandlerInv, ForRequest

\* A record whose windows are replaced by others that are sound.
LEMMA RewindowedIsGood ==
    ASSUME NEW c \in Cookies, NEW r, Good(r, c), NEW ws \in [Windows -> WindowStates],
           Sound(ws, c), NEW s, s = [r EXCEPT !.windows = ws]
    PROVE  Good(s, c) /\ s.total = r.total /\ s \in Records /\ s # NoRecord
<1>1. r \in Records
  BY DEF Good
<1>2. s \in Records /\ s.token = r.token /\ s.total = r.total /\ s.windows = ws
  BY <1>1 DEF Records
<1> QED
  BY <1>2, SentinelAssumption DEF Good

LEMMA RefreshedIsGood ==
    ASSUME Numbers, NEW c \in Cookies, NEW r, GoodOrNone(r, c), NEW s \in Refreshed(r, c)
    PROVE  /\ GoodOrNone(s, c)
           /\ s = NoRecord <=> r = NoRecord
           /\ r # NoRecord => s.total = r.total
<1>1. CASE r = NoRecord
  BY <1>1 DEF Refreshed, GoodOrNone
<1>2. CASE r # NoRecord
  <2>1. PICK late \in SUBSET Windows : s = Guess(r, c, late)
    BY <1>2 DEF Refreshed
  <2> DEFINE new(w) == Begun(r.windows[w], window[c][w],
                             window[c][w] + (IF w \in late THEN 1 ELSE 0))
             ws == [w \in Windows |-> IF w \notin Due(r, c) THEN r.windows[w] ELSE new(w)]
  <2>2. r \in Records /\ Good(r, c) /\ Sound(r.windows, c)
    BY <1>2 DEF GoodOrNone, Good
  <2>3. ASSUME NEW w \in Windows
        PROVE  new(w) \in WindowStates /\ (w \in Due(r, c) => SoundWindow(new(w), c, w))
    <3>1. window[c][w] \in Nat
      BY DEF Numbers
    <3>2. PICK e \in Nat : e = window[c][w] + (IF w \in late THEN 1 ELSE 0)
      BY <3>1
    <3>3. r.windows[w] \in WindowStates
      BY <2>2, WindowTyped
    <3>4. PICK u : u = new(w)
      OBVIOUS
    <3>5. u = [r.windows[w] EXCEPT !.oldest = 0, !.start = window[c][w], !.ends = e]
      BY <3>2, <3>4 DEF Begun
    <3>6. /\ u \in WindowStates /\ u.has = r.windows[w].has
          /\ u.oldest = 0 /\ u.start = window[c][w] /\ u.ends = e
      BY <3>1, <3>3, <3>5 DEF WindowStates
    <3>7. SoundWindow(u, c, w)
      BY <3>1, <3>6 DEF SoundWindow
    <3> QED
      BY <3>4, <3>6, <3>7
  <2> HIDE DEF new
  <2>4. ws \in [Windows -> WindowStates]
    BY <2>2, <2>3, WindowTyped
  <2>5. Sound(ws, c)
    BY <2>2, <2>3 DEF Sound
  <2>6. s = [r EXCEPT !.windows = ws]
    BY <2>1 DEF Guess, new
  <2> HIDE DEF ws
  <2> QED
    BY <1>2, <2>2, <2>4, <2>5, <2>6, RewindowedIsGood DEF GoodOrNone
<1> QED
  BY <1>1, <1>2

\* One kind of window, after a look at the usage: the counters of those that are
\* not due hold answers of the window that still goes on.
LEMMA BoundedIsSound ==
    ASSUME Numbers, NEW c \in Cookies, NEW w \in Windows, NEW s \in WindowStates,
           SoundWindow(s, c, w), NEW due \in BOOLEAN, NEW given \in BOOLEAN,
           <<c, w>> \notin outrun => (due <=> s.has = "yes" /\ window[c][w] > s.ends),
           NEW u, u = Bounded(s, due, given, window[c][w])
    PROVE  u \in WindowStates /\ SoundWindow(u, c, w)
<1>1. window[c][w] \in Nat
  BY DEF Numbers
<1>2. s.oldest \in Nat /\ s.start \in Nat /\ s.ends \in Nat /\ s.has \in {"unknown", "yes", "no"}
  BY DEF WindowStates
<1>3. PICK o \in Nat : o = IF due THEN 0 ELSE s.oldest
  BY <1>2
<1>4. CASE s.has = "no"
  BY <1>4 DEF Bounded
<1>5. CASE s.has # "no" /\ ~given
  <2>1. u = [s EXCEPT !.has = "no", !.oldest = o, !.start = 0, !.ends = 0]
    BY <1>3, <1>5 DEF Bounded
  <2>2. u \in WindowStates /\ u.has = "no" /\ u.start = 0
    <3>1. s \in WindowStates /\ o \in Nat
      OBVIOUS
    <3> QED
      BY ONLY <2>1, <3>1 DEF WindowStates
  <2> QED
    BY <1>1, <2>2 DEF SoundWindow
<1>6. CASE s.has # "no" /\ given
  <2>1. u = [has |-> "yes", oldest |-> o, start |-> window[c][w], ends |-> window[c][w]]
    BY <1>3, <1>6 DEF Bounded
  <2>2. /\ u \in WindowStates /\ u.has = "yes" /\ u.oldest = o
        /\ u.start = window[c][w] /\ u.ends = window[c][w]
    BY <1>1, <2>1 DEF WindowStates
  <2>3. ASSUME <<c, w>> \notin blind \cup outrun, o # 0
        PROVE  o >= window[c][w]
    <3>1. ~due /\ o = s.oldest /\ s.oldest # 0
      BY <1>3, <2>3
    <3>2. s.has = "yes"
      BY <1>2, <1>6, <2>3, <3>1 DEF SoundWindow
    <3>3. s.ends >= window[c][w]
      BY <1>1, <1>2, <2>3, <3>1, <3>2
    <3> QED
      BY <2>3, <3>1, <3>2, <3>3 DEF SoundWindow
  <2> QED
    BY <1>1, <2>2, <2>3 DEF SoundWindow
<1> QED
  BY <1>4, <1>5, <1>6

LEMMA BoundaryIsGood ==
    ASSUME Numbers, NEW c \in Cookies, NEW r, Good(r, c),
           NEW due \in SUBSET Windows, NEW given \in SUBSET Windows,
           \A w \in Windows : <<c, w>> \notin outrun => (w \in due <=> w \in Due(r, c)),
           NEW s, s = Boundary(r, c, due, given)
    PROVE  Good(s, c) /\ s.total = r.total
<1> DEFINE new(w) == Bounded(r.windows[w], w \in due, w \in given, window[c][w])
           ws == [w \in Windows |-> new(w)]
<1>1. r \in Records /\ Sound(r.windows, c)
  BY DEF Good
<1>2. ASSUME NEW w \in Windows
      PROVE  new(w) \in WindowStates /\ SoundWindow(new(w), c, w)
  <2>1. PICK v \in WindowStates : v = r.windows[w]
    BY <1>1, WindowTyped
  <2>2. SoundWindow(v, c, w)
    BY <1>1, <2>1 DEF Sound
  <2>3. PICK b \in BOOLEAN, g \in BOOLEAN : (b <=> w \in due) /\ (g <=> w \in given)
    OBVIOUS
  <2>4. <<c, w>> \notin outrun => (b <=> v.has = "yes" /\ window[c][w] > v.ends)
    BY <2>1, <2>3 DEF Due
  <2>5. new(w) = Bounded(v, b, g, window[c][w])
    BY <2>1, <2>3 DEF Bounded
  <2> QED
    BY <2>2, <2>4, <2>5, BoundedIsSound
<1>3. s = [r EXCEPT !.windows = ws]
  BY DEF Boundary
<1> HIDE DEF new
<1>4. ws \in [Windows -> WindowStates] /\ Sound(ws, c)
  BY <1>2 DEF Sound
<1> HIDE DEF ws
<1> QED
  BY <1>3, <1>4, RewindowedIsGood

LEMMA AddedIsGood ==
    ASSUME Numbers, Numbers', Grows, NEW c \in Cookies, NEW r, Good(r, c),
           NEW counting \in SUBSET Windows, NEW s, s = Added(r, c, counting),
           settled'[c] = settled[c] + 1,
           \A w \in Unknown(r) \cap counting : <<c, w>> \in blind'
    PROVE  Good(s, c)' /\ s.total = r.total + 1
<1>0. PICK f \in [Windows -> Nat] : f = window[c] /\ f = window'[c]
  BY DEF Numbers, Grows
<1> DEFINE new(w) == IF w \in counting /\ r.windows[w].oldest = 0
                     THEN [r.windows[w] EXCEPT !.oldest = f[w]] ELSE r.windows[w]
           ws == [w \in Windows |-> new(w)]
<1>1. r \in Records /\ r.total \in Nat /\ r.token \in Nat /\ Sound(r.windows, c)'
  BY SoundStays DEF Good, Records
<1>2. ASSUME NEW w \in Windows
      PROVE  new(w) \in WindowStates /\ SoundWindow(new(w), c, w)'
  <2>1. PICK v \in WindowStates : v = r.windows[w]
    BY <1>1, WindowTyped
  <2>2. SoundWindow(v, c, w)'
    BY <1>1, <2>1 DEF Sound
  <2>3. CASE w \in counting /\ v.oldest = 0
    <3>1. f[w] \in Nat /\ window'[c][w] = f[w]
      BY <1>0
    <3>2. PICK u : u = [v EXCEPT !.oldest = f[w]]
      OBVIOUS
    <3>3. /\ u \in WindowStates /\ u.has = v.has /\ u.start = v.start /\ u.ends = v.ends
          /\ u.oldest = f[w]
      BY <3>1, <3>2 DEF WindowStates
    <3>4. v.start \in Nat /\ (v.has = "unknown" => <<c, w>> \in blind')
      BY <2>1, <2>3 DEF WindowStates, Unknown
    <3>5. SoundWindow(u, c, w)'
      BY <2>2, <3>1, <3>3, <3>4 DEF SoundWindow
    <3> QED
      BY <2>1, <2>3, <3>2, <3>3, <3>5
  <2>4. CASE ~(w \in counting /\ v.oldest = 0)
    BY <2>1, <2>2, <2>4
  <2> QED
    BY <2>3, <2>4
<1>3. s = [r EXCEPT !.total = r.total + 1, !.windows = ws]
  BY <1>0 DEF Added
<1> HIDE DEF new
<1>4. ws \in [Windows -> WindowStates] /\ Sound(ws, c)'
  BY <1>2 DEF Sound
<1> HIDE DEF ws
<1>5. s \in Records /\ s.token = r.token /\ s.total = r.total + 1 /\ s.windows = ws
  <2>1. PICK n \in Nat : n = r.total + 1
    BY <1>1
  <2> QED
    BY <1>1, <1>3, <1>4, <2>1 DEF Records
<1>6. s.token <= Len(grants') /\ s.total <= settled'[c]
  <2>1. settled[c] \in Nat /\ Len(grants) \in Nat /\ Len(grants') \in Nat
    BY DEF Numbers
  <2> QED
    BY <1>1, <1>5, <2>1 DEF Good, Grows
<1> QED
  BY <1>4, <1>5, <1>6 DEF Good

LEMMA ClearedIsGood ==
    ASSUME Numbers, NEW c \in Cookies, NEW r, Good(r, c), NEW s, s = Cleared(r)
    PROVE  Good(s, c) /\ s.total = r.total
<1> DEFINE new(w) == [r.windows[w] EXCEPT !.oldest = 0]
           ws == [w \in Windows |-> new(w)]
<1>1. r \in Records /\ Sound(r.windows, c)
  BY DEF Good
<1>2. ASSUME NEW w \in Windows
      PROVE  new(w) \in WindowStates /\ SoundWindow(new(w), c, w)
  <2>1. r.windows[w] \in WindowStates /\ SoundWindow(r.windows[w], c, w)
    BY <1>1, WindowTyped DEF Sound
  <2>2. /\ new(w) \in WindowStates /\ new(w).has = r.windows[w].has /\ new(w).oldest = 0
        /\ new(w).start = r.windows[w].start /\ new(w).ends = r.windows[w].ends
    BY <2>1 DEF WindowStates
  <2> QED
    BY <2>1, <2>2 DEF SoundWindow
<1>3. s = [r EXCEPT !.windows = ws]
  BY DEF Cleared
<1> HIDE DEF new
<1>4. ws \in [Windows -> WindowStates] /\ Sound(ws, c)
  BY <1>2 DEF Sound
<1> HIDE DEF ws
<1> QED
  BY <1>3, <1>4, RewindowedIsGood

-----------------------------------------------------------------------------
(* Parts of the actions                                                    *)

LEMMA ActorStays ==
    ASSUME ClientInv, Numbers', Grows, UNCHANGED actor
    PROVE  ActorInv'
<1>1. valid' = valid /\ limited' = limited
  BY DEF actor
<1> QED
  BY <1>1, GoodStays DEF ClientInv, ActorInv, GoodOrNone

\* A copy may overwrite the record: it is as true as what it overwrites.
LEMMA ReturnKeeps ==
    ASSUME ClientInv, Numbers', Grows, NEW c \in Cookies, NEW r, Good(r, c)', Return(c, r)
    PROVE  ActorInv'
<1>1. r \in Records
  BY DEF Good
<1>2. limited' = limited /\ valid' \in [Cookies -> Records \cup {NoRecord}]
  BY <1>1 DEF Return, ClientInv, ActorInv
<1>3. ASSUME NEW d \in Cookies
      PROVE  GoodOrNone(valid[d], d)' /\ GoodOrNone(limited[d], d)'
  <2>1. valid'[d] = valid[d] \/ (d = c /\ valid'[d] = r)
    BY DEF Return, ClientInv, ActorInv
  <2> QED
    BY <1>2, <2>1, GoodStays DEF ClientInv, ActorInv, GoodOrNone
<1> QED
  BY <1>2, <1>3 DEF ClientInv, ActorInv

LEMMA GivenBackKeeps ==
    ASSUME ClientInv, Numbers', Grows, NEW c \in Cookies, NEW r, Good(r, c),
           ReturnLimited(c, r) \/ ReturnUseless(c)
    PROVE  ActorInv'
<1> DEFINE s == Cleared(r)
<1>1. Good(s, c)
  BY ClearedIsGood DEF ClientInv
<1>2. s \in Records
  BY <1>1 DEF Good
<1> HIDE DEF s
<1>3. /\ valid' = [valid EXCEPT ![c] = NoRecord]
      /\ limited' = limited \/ limited' = [limited EXCEPT ![c] = s]
  BY DEF ReturnLimited, ReturnUseless, s
<1>4. /\ valid' \in [Cookies -> Records \cup {NoRecord}]
      /\ limited' \in [Cookies -> Records \cup {NoRecord}]
  BY <1>2, <1>3 DEF ClientInv, ActorInv
<1>5. ASSUME NEW d \in Cookies
      PROVE  GoodOrNone(valid[d], d)' /\ GoodOrNone(limited[d], d)'
  <2>1. /\ valid'[d] \in {valid[d], NoRecord}
        /\ limited'[d] = limited[d] \/ (d = c /\ limited'[d] = s)
    BY <1>3 DEF ClientInv, ActorInv
  <2> QED
    BY <1>1, <2>1, GoodStays DEF ClientInv, ActorInv, GoodOrNone
<1> QED
  BY <1>4, <1>5 DEF ActorInv

\* No token a request is about to use ages meanwhile.
AgesStay == \A k \in 1..Len(grants) : grants'[k].age = grants[k].age

LEMMA WaitingStays ==
    ASSUME ClientInv, Numbers', Grows, AgesStay, NEW u \in Tasks, task'[u] = task[u]
    PROVE  HandlerInv(task[u])' /\ Unexpired(task[u])'
<1>1. task[u] \in Handlers /\ HandlerInv(task[u]) /\ Unexpired(task[u])
  BY DEF ClientInv, HandlersInv
<1>2. PICK z \in Handlers : z = task[u]
  BY <1>1
<1>3. HandlerInv(z) /\ Unexpired(z)
  BY <1>1, <1>2
<1>4. HandlerInv(z)'
  BY <1>3, HandlerStays DEF ClientInv
<1>5. ASSUME z.pc \in {"publish", "send"}
      PROVE  z.copy.token \in 1..Len(grants)
  <2>1. z.copy \in Records /\ z.cookie # NoCookie
    BY <1>3, <1>5 DEF HandlerInv, Handlers
  <2>2. z.copy.token \in Nat /\ z.copy.token # 0 /\ z.copy.token <= Len(grants)
    BY <1>3, <1>5, <2>1 DEF HandlerInv, Good, Records
  <2> QED
    BY <2>2 DEF ClientInv, Numbers
<1>6. Unexpired(z)'
  BY <1>3, <1>5 DEF Unexpired, AgesStay
<1>7. task'[u] = z
  BY <1>2
<1> QED
  BY <1>4, <1>6, <1>7

LEMMA WaitingStay ==
    ASSUME ClientInv, Numbers', Grows, AgesStay, UNCHANGED task
    PROVE  HandlersInv'
BY WaitingStays DEF ClientInv, HandlersInv

LEMMA HandlersStay ==
    ASSUME ClientInv, Numbers', Grows, AgesStay,
           NEW t \in Tasks, NEW y \in Handlers, task' = [task EXCEPT ![t] = y],
           HandlerInv(y)', Unexpired(y)'
    PROVE  HandlersInv'
<1>1. task' \in [Tasks -> Handlers]
  BY DEF ClientInv, HandlersInv
<1>2. ASSUME NEW u \in Tasks, u # t
      PROVE  HandlerInv(task[u])' /\ Unexpired(task[u])'
  <2>1. task'[u] = task[u]
    BY <1>2 DEF ClientInv, HandlersInv
  <2> QED
    BY <2>1, WaitingStays
<1>3. task'[t] = y
  BY DEF ClientInv, HandlersInv
<1> QED
  BY <1>1, <1>2, <1>3 DEF HandlersInv

\* What check_token decides, of a request that is about to ask for it.
LEMMA CheckedIsSound ==
    ASSUME Numbers, NEW x \in Handlers, NEW y, y = Checked(x),
           x.cookie \in Cookies, Good(x.copy, x.cookie), GoodOrNone(x.kept, x.cookie),
           x.outcome # "failed", x.op # "none",
           x.op = "status" => x.kept = NoRecord,
           x.kept # NoRecord => x.op \in {"chat", "stream"} /\ Marked(x)
    PROVE  /\ y \in Handlers /\ HandlerInv(y) /\ Unexpired(y)
           /\ y.cookie = x.cookie /\ y.copy = x.copy /\ y.kept = x.kept /\ y.op = x.op
<1> DEFINE p == y.pc
           b == x.copy.token # 0 => grants[x.copy.token].age = "fresh"
           q == CASE TokenStatus(x.copy) = "none" -> "authorize"
                  [] TokenStatus(x.copy) = "expired" -> "refresh"
                  [] OTHER -> IF ForRequest(x) THEN "send" ELSE "metrics"
<1>1. q \in Steps /\ b \in BOOLEAN
  BY DEF Steps
<1>2. y = [x EXCEPT !.pc = q, !.early = b]
  BY DEF Checked
<1>3. /\ y \in Handlers /\ y.pc = q /\ y.early = b
      /\ y.cookie = x.cookie /\ y.copy = x.copy /\ y.kept = x.kept /\ y.op = x.op
      /\ y.outcome = x.outcome /\ y.due = x.due
  <2> HIDE DEF q, b
  <2> QED
    BY <1>1, <1>2 DEF Handlers
<1>4. /\ q \in {"authorize", "refresh", "send", "metrics"}
      /\ q = "refresh" => x.copy.token # 0
      /\ q = "send" => ForRequest(x) /\ x.copy.token # 0 /\ grants[x.copy.token].age = "fresh"
      /\ q = "metrics" => ~ForRequest(x)
  BY DEF TokenStatus, IsExpired
<1>5. y.cookie # NoCookie
  BY <1>3, ParametersAreTyped
<1> HIDE DEF q
<1>6. HandlerInv(y)
  BY <1>3, <1>4, <1>5 DEF HandlerInv, ForRequest, Marked
<1>7. Unexpired(y)
  BY <1>3, <1>4 DEF Unexpired
<1> QED
  BY <1>3, <1>6, <1>7

LEMMA EndedIsIdle ==
    ASSUME NEW x \in Handlers, NEW outcome, outcome = "failed" => x.hurt
    PROVE  Ended(x, outcome) = Idle
<1>1. Ended(x, outcome) = [Idle EXCEPT !.outcome = "pending"]
  BY DEF Ended
<1> QED
  BY <1>1 DEF Idle

LEMMA IdleIsSound == HandlerInv(Idle) /\ Unexpired(Idle) /\ HandlerInv(Idle)' /\ Unexpired(Idle)'
BY DEF HandlerInv, Unexpired, Idle

\* A request that holds no Cookie and asks for one.
LEMMA TakeIsSound ==
    ASSUME NEW y \in Handlers, y.pc = "take", y.op # "none", y.cookie = NoCookie,
           y.kept = NoRecord, y.outcome = "pending", y.tries = 0 \/ y.hurt
    PROVE  HandlerInv(y)' /\ Unexpired(y)'
BY DEF HandlerInv, Unexpired

LEMMA HandlerFacts ==
    ASSUME ClientInv, NEW t \in Tasks
    PROVE  /\ task[t] \in Handlers /\ HandlerInv(task[t]) /\ Unexpired(task[t])
           /\ task[t].pc \notin {"idle", "take"} =>
                /\ task[t].cookie \in Cookies /\ task[t].cookie # NoCookie
                /\ Good(task[t].copy, task[t].cookie)
                /\ GoodOrNone(task[t].kept, task[t].cookie)
BY DEF ClientInv, HandlersInv, HandlerInv, Handlers

LEMMA EndKeeps ==
    ASSUME ClientInv, Numbers', Grows, AgesStay, NEW t \in Tasks,
           task' = [task EXCEPT ![t] = Idle]
    PROVE  HandlersInv'
BY IdleIsTyped, IdleIsSound, HandlersStay

\* An error of the service, whatever the request was doing.
LEMMA FailKeeps ==
    ASSUME ClientInv, Numbers', Grows, AgesStay, NEW t \in Tasks,
           task[t].pc \notin {"idle", "take"}, Fail(t)
    PROVE  ActorInv' /\ HandlersInv'
<1> DEFINE x == [task[t] EXCEPT !.hurt = TRUE]
<1>1. /\ task[t] \in Handlers /\ HandlerInv(task[t]) /\ task[t].cookie \in Cookies
      /\ task[t].cookie # NoCookie
      /\ Good(task[t].copy, task[t].cookie) /\ GoodOrNone(task[t].kept, task[t].cookie)
  BY HandlerFacts
<1>2. /\ x \in Handlers /\ x.hurt = TRUE /\ x.op = task[t].op /\ x.cookie = task[t].cookie
      /\ x.copy = task[t].copy /\ x.kept = task[t].kept /\ x.outcome = task[t].outcome
  BY <1>1 DEF Handlers
<1> HIDE DEF x
<1>3. CASE /\ ForRequest(x)
           /\ task' = [task EXCEPT ![t] = Ended(x, "failed")]
           /\ UNCHANGED actor
  <2>1. task' = [task EXCEPT ![t] = Idle]
    BY <1>2, <1>3, EndedIsIdle
  <2> QED
    BY <1>3, <2>1, ActorStays, EndKeeps
<1>4. CASE x.op = "status" /\ End(t, "served") /\ Return(x.cookie, x.copy)
  <2>1. task' = [task EXCEPT ![t] = Idle]
    BY <1>1, <1>4, EndedIsIdle DEF End, ClientInv, HandlersInv
  <2>2. PICK r \in Records, c \in Cookies : r = x.copy /\ c = x.cookie
    BY <1>1, <1>2 DEF Good
  <2>3. Good(r, c)'
    BY <1>1, <1>2, <2>2, GoodStays DEF ClientInv
  <2> QED
    BY <1>4, <2>1, <2>2, <2>3, ReturnKeeps, EndKeeps
<1>5. ASSUME x.op # "status", x.kept # NoRecord, UNCHANGED actor,
             task' = [task EXCEPT ![t] = [x EXCEPT !.pc = "add", !.copy = x.kept,
                                                   !.kept = NoRecord, !.due = {}]]
      PROVE  ActorInv' /\ HandlersInv'
  <2>1. PICK r \in Records : r = x.kept /\ Good(r, x.cookie)
    BY <1>1, <1>2, <1>5 DEF GoodOrNone, Good
  <2>2. PICK y \in Handlers : y = [x EXCEPT !.pc = "add", !.copy = r, !.kept = NoRecord,
                                            !.due = {}]
    BY <1>2, <2>1 DEF Handlers, Steps
  <2>3. /\ y.pc = "add" /\ y.copy = r /\ y.kept = NoRecord /\ y.op = x.op
        /\ y.cookie = x.cookie /\ y.outcome = x.outcome
    BY <1>2, <2>1, <2>2 DEF Handlers
  <2>4. HandlerInv(y) /\ Unexpired(y)'
    BY <1>1, <1>2, <1>5, <2>1, <2>3 DEF HandlerInv, GoodOrNone, Unexpired
  <2>5. HandlerInv(y)'
    BY <2>4, HandlerStays DEF ClientInv
  <2> QED
    BY <1>5, <2>1, <2>2, <2>4, <2>5, ActorStays, HandlersStay
<1> QED
  BY <1>3, <1>4, <1>5 DEF Fail, x

\* The Cookie is refused: it goes back, and the request takes another.
LEMMA RefuseKeeps ==
    ASSUME ClientInv, Numbers', Grows, AgesStay, NEW t \in Tasks,
           task[t].pc \notin {"idle", "take"}, Refuse(t)
    PROVE  ActorInv' /\ HandlersInv'
<1>1. /\ task[t] \in Handlers /\ HandlerInv(task[t]) /\ task[t].cookie \in Cookies
      /\ Good(task[t].copy, task[t].cookie)
  BY HandlerFacts
<1>2. ASSUME ForRequest(task[t]), NEW reason \in {"limited", "useless"}, GiveUp(t, reason, TRUE)
      PROVE  ActorInv' /\ HandlersInv'
  <2>1. PICK r \in Records, c \in Cookies : r = task[t].copy /\ c = task[t].cookie
    BY <1>1 DEF Good
  <2>2. Good(r, c) /\ (ReturnLimited(c, r) \/ ReturnUseless(c))
    BY <1>1, <1>2, <2>1 DEF GiveUp
  <2>3. PICK op \in {"chat", "stream", "count", "web", "status"}, n \in Nat :
            op = task[t].op /\ n = task[t].tries
    BY <1>1, <1>2 DEF HandlerInv, Handlers, ForRequest
  <2>4. PICK y : y = [Idle EXCEPT !.pc = "take", !.op = op, !.tries = n, !.hurt = TRUE]
    OBVIOUS
  <2>5. task' = [task EXCEPT ![t] = y]
    BY <1>2, <2>3, <2>4 DEF GiveUp
  <2>6. /\ y \in Handlers /\ y.pc = "take" /\ y.op = op /\ y.cookie = NoCookie
        /\ y.kept = NoRecord /\ y.outcome = "pending" /\ y.hurt = TRUE
    BY <2>4, IdleIsTyped DEF Idle, Handlers, Steps
  <2>7. HandlerInv(y)' /\ Unexpired(y)'
    BY <2>6, TakeIsSound
  <2> QED
    BY <2>2, <2>5, <2>6, <2>7, GivenBackKeeps, HandlersStay
<1> QED
  BY <1>2, FailKeeps DEF Refuse

-----------------------------------------------------------------------------
(* ClientInv is inductive                                                  *)

LEMMA InitClient == Init => ClientInv
<1> SUFFICES ASSUME Init PROVE ClientInv
  OBVIOUS
<1>1. Numbers
  BY DEF Init, Numbers
<1>2. ASSUME NEW c \in Cookies PROVE Good(NewRecord, c)
  <2>1. ASSUME NEW w \in Windows PROVE SoundWindow(NewRecord.windows[w], c, w)
    <3>1. NewRecord.windows[w] = NewWindowState /\ window[c][w] = 1
      BY DEF NewRecord, Init
    <3> QED
      BY <3>1 DEF SoundWindow, NewWindowState
  <2>2. NewRecord.token = 0 /\ NewRecord.total = 0
    BY DEF NewRecord
  <2> QED
    BY <1>1, <2>1, <2>2, NewRecordIsTyped DEF Init, Good, Sound, Numbers
<1>3. ActorInv
  BY <1>2, NewRecordIsTyped DEF Init, ActorInv, GoodOrNone
<1>4. HandlersInv
  BY IdleIsTyped, IdleIsSound DEF Init, HandlersInv
<1> QED
  BY <1>1, <1>3, <1>4 DEF ClientInv

LEMMA Still ==
    ASSUME ClientInv, UNCHANGED <<grants, window, settled, blind, outrun>>
    PROVE  Numbers' /\ Grows /\ AgesStay
BY DEF ClientInv, Numbers, Grows, AgesStay

\* A new token does not touch the others.
LEMMA GrantGrows ==
    ASSUME ClientInv, NEW g \in Seq(TokenRecords), Len(g) = Len(grants), Grant(g),
           \A k \in 1..Len(grants) : g[k].age = grants[k].age,
           UNCHANGED <<window, settled, blind, outrun>>
    PROVE  /\ Numbers' /\ Grows /\ AgesStay
           /\ NextGrant \in 1..Len(grants') /\ grants'[NextGrant].age = "fresh"
<1> DEFINE new == [age |-> "fresh", spent |-> FALSE]
<1>1. new \in TokenRecords
  BY DEF TokenRecords
<1>2. grants' = Append(g, new)
  BY DEF Grant
<1>3. grants' \in Seq(TokenRecords) /\ Len(grants') = Len(grants) + 1 /\ Len(grants) \in Nat
  BY <1>1, <1>2 DEF ClientInv, Numbers
<1>4. Numbers' /\ Grows
  BY <1>3 DEF ClientInv, Numbers, Grows
<1>5. AgesStay
  BY <1>1, <1>2, <1>3 DEF AgesStay
<1>6. NextGrant = Len(g) + 1 /\ grants'[NextGrant] = new
  BY <1>1, <1>2 DEF NextGrant
<1> QED
  BY <1>3, <1>4, <1>5, <1>6

LEMMA TakeKeeps ==
    ASSUME ClientInv, UNCHANGED <<grants, window, settled, blind, outrun>>,
           NEW t \in Tasks, NEW x \in Handlers, NEW c \in Cookies, NEW r, Good(r, c),
           x.op # "none", x.kept = NoRecord, x.outcome # "failed", Take(t, x, c, r)
    PROVE  HandlersInv'
<1>1. r \in Records
  BY DEF Good
<1>2. PICK z \in Handlers : z = [x EXCEPT !.cookie = c, !.copy = r]
  BY <1>1 DEF Handlers
<1>3. z.cookie = c /\ z.copy = r /\ z.op = x.op /\ z.kept = NoRecord /\ z.outcome = x.outcome
  BY <1>1, <1>2 DEF Handlers
<1>4. PICK y : y = Checked(z)
  OBVIOUS
<1>5. y \in Handlers /\ HandlerInv(y) /\ Unexpired(y)
  BY <1>3, <1>4, CheckedIsSound DEF ClientInv, GoodOrNone
<1>6. Numbers' /\ Grows /\ AgesStay
  BY Still
<1>7. HandlerInv(y)'
  BY <1>5, <1>6, HandlerStays DEF ClientInv
<1>8. Unexpired(y)'
  BY <1>5 DEF Unexpired
<1>9. task' = [task EXCEPT ![t] = y]
  BY <1>2, <1>4 DEF Take
<1> QED
  BY <1>5, <1>6, <1>7, <1>8, <1>9, HandlersStay

LEMMA BeginKeeps ==
    ASSUME ClientInv, NEW t \in Tasks, Begin(t)
    PROVE  ClientInv'
<1>1. Numbers' /\ Grows /\ AgesStay
  BY Still DEF Begin, history
<1>2. ActorInv'
  BY <1>1, ActorStays DEF Begin
<1>3. PICK op \in {"chat", "stream", "count", "web", "status"} :
            task' = [task EXCEPT ![t] = [Idle EXCEPT !.pc = "take", !.op = op]]
  BY OpsAreKnown DEF Begin
<1>4. PICK y : y = [Idle EXCEPT !.pc = "take", !.op = op]
  OBVIOUS
<1>5. /\ y \in Handlers /\ y.pc = "take" /\ y.op = op /\ y.cookie = NoCookie
      /\ y.kept = NoRecord /\ y.outcome = "pending" /\ y.tries = 0
  BY <1>4, IdleIsTyped DEF Idle, Handlers, Steps
<1>6. HandlerInv(y)' /\ Unexpired(y)'
  BY <1>5, TakeIsSound
<1> QED
  BY <1>1, <1>2, <1>3, <1>4, <1>5, <1>6, HandlersStay DEF ClientInv

\* A look at the records of a Cookie, with its boundaries brought up to date.
LEMMA RefreshKeeps ==
    ASSUME ClientInv, UNCHANGED <<grants, window, settled, blind, outrun>>, NEW c \in Cookies,
           NEW v \in Refreshed(valid[c], c), NEW l \in Refreshed(limited[c], c),
           valid' = [valid EXCEPT ![c] = v], limited' = [limited EXCEPT ![c] = l]
    PROVE  ActorInv' /\ GoodOrNone(v, c) /\ GoodOrNone(l, c)
<1>1. GoodOrNone(v, c) /\ GoodOrNone(l, c)
  BY RefreshedIsGood DEF ClientInv, ActorInv
<1>2. v \in Records \cup {NoRecord} /\ l \in Records \cup {NoRecord}
  BY <1>1 DEF GoodOrNone, Good
<1>3. Numbers' /\ Grows
  BY Still
<1>4. /\ valid' \in [Cookies -> Records \cup {NoRecord}]
      /\ limited' \in [Cookies -> Records \cup {NoRecord}]
  BY <1>2 DEF ClientInv, ActorInv
<1>5. ASSUME NEW d \in Cookies
      PROVE  GoodOrNone(valid[d], d)' /\ GoodOrNone(limited[d], d)'
  <2>1. /\ valid'[d] = IF d = c THEN v ELSE valid[d]
        /\ limited'[d] = IF d = c THEN l ELSE limited[d]
    BY DEF ClientInv, ActorInv
  <2> QED
    BY <1>1, <1>3, <2>1, GoodStays DEF ClientInv, ActorInv, GoodOrNone
<1> QED
  BY <1>1, <1>4, <1>5 DEF ActorInv

LEMMA BeginStatusKeeps ==
    ASSUME ClientInv, NEW t \in Tasks, BeginStatus(t)
    PROVE  ClientInv'
<1>1. Numbers' /\ Grows /\ AgesStay
  BY Still DEF BeginStatus
<1>2. PICK c \in Cookies :
        /\ valid[c] # NoRecord \/ limited[c] # NoRecord
        /\ \E v \in Refreshed(valid[c], c), l \in Refreshed(limited[c], c) :
            /\ valid' = [valid EXCEPT ![c] = v]
            /\ limited' = [limited EXCEPT ![c] = l]
            /\ Take(t, [Idle EXCEPT !.op = "status"], c, IF v # NoRecord THEN v ELSE l)
  BY DEF BeginStatus
<1>3. PICK v \in Refreshed(valid[c], c), l \in Refreshed(limited[c], c) :
            /\ valid' = [valid EXCEPT ![c] = v]
            /\ limited' = [limited EXCEPT ![c] = l]
            /\ Take(t, [Idle EXCEPT !.op = "status"], c, IF v # NoRecord THEN v ELSE l)
  BY <1>2
<1>4. ActorInv' /\ GoodOrNone(v, c) /\ GoodOrNone(l, c)
  BY <1>3, RefreshKeeps DEF BeginStatus
<1>5. v # NoRecord \/ l # NoRecord
  BY <1>2, RefreshedIsGood DEF ClientInv, ActorInv
<1>6. PICK r : r = IF v # NoRecord THEN v ELSE l
  OBVIOUS
<1>7. Good(r, c)
  BY <1>4, <1>5, <1>6 DEF GoodOrNone
<1>8. PICK x : x = [Idle EXCEPT !.op = "status"]
  OBVIOUS
<1>9. x \in Handlers /\ x.op = "status" /\ x.kept = NoRecord /\ x.outcome = "pending"
  BY <1>8, IdleIsTyped DEF Idle, Handlers
<1>10. HandlersInv'
  BY <1>3, <1>6, <1>7, <1>8, <1>9, TakeKeeps DEF BeginStatus
<1> QED
  BY <1>1, <1>4, <1>10 DEF ClientInv

\* A request out of retries has failed by a fault of its own.
LEMMA RequestCookieKeeps ==
    ASSUME ClientInv, NEW t \in Tasks, RequestCookie(t)
    PROVE  ClientInv'
<1> DEFINE x == task[t]
<1>1. Numbers' /\ Grows /\ AgesStay
  BY Still DEF RequestCookie
<1>2. ActorInv'
  BY <1>1, ActorStays DEF RequestCookie
<1>3. x \in Handlers /\ HandlerInv(x) /\ x.pc = "take"
  BY HandlerFacts DEF RequestCookie
<1>4. /\ x.tries \in Nat /\ (x.tries = 0 \/ x.hurt) /\ x.kept = NoRecord
      /\ x.op # "none" /\ x.outcome # "failed"
  BY <1>3 DEF Handlers, HandlerInv
<1> HIDE DEF x
<1>5. ASSUME NEW outcome, outcome = "failed" => x.tries > MaxRetries, End(t, outcome)
      PROVE  HandlersInv'
  <2>1. outcome = "failed" => x.hurt
    BY <1>4, <1>5, ParametersAreTyped
  <2>2. task' = [task EXCEPT ![t] = Idle]
    BY <1>3, <1>5, <2>1, EndedIsIdle DEF End, x, ClientInv, HandlersInv
  <2> QED
    BY <1>1, <2>2, EndKeeps
<1>6. ASSUME NEW c \in Cookies, valid[c] # NoRecord, Take(t, [x EXCEPT !.tries = @ + 1], c, valid[c])
      PROVE  HandlersInv'
  <2> DEFINE n == x.tries + 1
  <2>1. n \in Nat
    BY <1>4
  <2> HIDE DEF n
  <2>2. PICK y \in Handlers : y = [x EXCEPT !.tries = n]
    BY <1>3, <2>1 DEF Handlers
  <2>3. y.op = x.op /\ y.kept = x.kept /\ y.outcome = x.outcome
    BY <1>3, <2>2 DEF Handlers
  <2>4. y = [x EXCEPT !.tries = @ + 1]
    BY <2>2 DEF n
  <2>5. Good(valid[c], c)
    BY <1>6 DEF ClientInv, ActorInv, GoodOrNone
  <2> QED
    BY <1>4, <1>6, <2>3, <2>4, <2>5, TakeKeeps DEF RequestCookie
<1>7. HandlersInv'
  BY <1>5, <1>6 DEF RequestCookie, x
<1> QED
  BY <1>1, <1>2, <1>7 DEF ClientInv

\* A token just issued goes into the copy, whose other fields stay.
LEMMA WithTokenIsSound ==
    ASSUME Numbers', NEW x \in Handlers, HandlerInv(x)', x.pc \in {"authorize", "refresh"},
           NEW k \in 1..Len(grants'), grants'[k].age = "fresh", NEW y, y = WithToken(x, k)
    PROVE  y \in Handlers /\ HandlerInv(y)' /\ Unexpired(y)'
<1> DEFINE q == IF ForRequest(x) THEN "publish" ELSE "metrics"
<1>1. q \in Steps
  BY DEF Steps
<1>2. x.cookie # NoCookie /\ Good(x.copy, x.cookie)' /\ GoodOrNone(x.kept, x.cookie)'
  BY DEF HandlerInv
<1>3. x.copy \in Records /\ k \in Nat /\ k # 0 /\ k <= Len(grants')
  BY <1>2 DEF Good, Numbers
<1>4. PICK s \in Records : s = [x.copy EXCEPT !.token = k]
  BY <1>3 DEF Records
<1>5. s.token = k /\ s.total = x.copy.total /\ s.windows = x.copy.windows
  BY <1>3, <1>4 DEF Records
<1>6. Good(s, x.cookie)'
  BY <1>2, <1>3, <1>5 DEF Good
<1>7. y = [x EXCEPT !.copy = s, !.early = TRUE, !.pc = q]
  BY <1>4 DEF WithToken
<1>8. q \in {"publish", "metrics"} /\ (q = "publish" <=> ForRequest(x))
  OBVIOUS
<1> HIDE DEF q
<1>9. /\ y \in Handlers /\ y.copy = s /\ y.early = TRUE /\ y.pc = q /\ y.op = x.op
      /\ y.cookie = x.cookie /\ y.kept = x.kept /\ y.outcome = x.outcome /\ y.due = x.due
  BY <1>1, <1>7 DEF Handlers
<1>10. HandlerInv(y)'
  BY <1>2, <1>3, <1>5, <1>6, <1>8, <1>9 DEF HandlerInv, ForRequest, Marked, Due
<1>11. Unexpired(y)'
  BY <1>5, <1>9 DEF Unexpired
<1> QED
  BY <1>9, <1>10, <1>11

LEMMA AuthorizeKeeps ==
    ASSUME ClientInv, NEW t \in Tasks, Authorize(t)
    PROVE  ClientInv'
<1> DEFINE x == task[t]
<1>1. x \in Handlers /\ HandlerInv(x) /\ x.pc = "authorize"
  BY HandlerFacts DEF Authorize
<1>2. UNCHANGED <<window, settled, blind, outrun>>
  BY DEF Authorize
<1>3. ASSUME Grant(grants), task' = [task EXCEPT ![t] = WithToken(@, NextGrant)],
             UNCHANGED actor
      PROVE  ClientInv'
  <2>1. /\ Numbers' /\ Grows /\ AgesStay
        /\ NextGrant \in 1..Len(grants') /\ grants'[NextGrant].age = "fresh"
    BY <1>2, <1>3, GrantGrows DEF ClientInv, Numbers
  <2>2. PICK y : y = WithToken(x, NextGrant)
    OBVIOUS
  <2>3. task' = [task EXCEPT ![t] = y]
    BY <1>3, <2>2
  <2>4. PICK z \in Handlers : z = x
    BY <1>1
  <2>5. HandlerInv(z)'
    BY <1>1, <2>1, <2>4, HandlerStays DEF ClientInv
  <2>6. PICK k \in 1..Len(grants') : k = NextGrant
    BY <2>1
  <2>7. y \in Handlers /\ HandlerInv(y)' /\ Unexpired(y)'
    BY <1>1, <2>1, <2>2, <2>4, <2>5, <2>6, WithTokenIsSound
  <2> QED
    BY <1>3, <2>1, <2>3, <2>7, ActorStays, HandlersStay DEF ClientInv
<1>4. ASSUME Fail(t) \/ Refuse(t), UNCHANGED grants
      PROVE  ClientInv'
  <2>1. Numbers' /\ Grows /\ AgesStay
    BY <1>2, <1>4, Still
  <2> QED
    BY <1>1, <1>4, <2>1, FailKeeps, RefuseKeeps DEF ClientInv
<1> QED
  BY <1>3, <1>4 DEF Authorize

LEMMA RefreshTokenKeeps ==
    ASSUME ClientInv, NEW t \in Tasks, Refresh(t)
    PROVE  ClientInv'
<1> DEFINE x == task[t]
<1>1. x \in Handlers /\ HandlerInv(x) /\ x.pc = "refresh"
  BY HandlerFacts DEF Refresh
<1>2. /\ x.copy \in Records /\ x.copy.token \in 1..Len(grants)
      /\ x.cookie # NoCookie /\ Good(x.copy, x.cookie) /\ GoodOrNone(x.kept, x.cookie)
  BY <1>1 DEF HandlerInv, Good, Records, ClientInv, Numbers
<1>3. UNCHANGED <<window, settled, blind, outrun>>
  BY DEF Refresh, history
<1>4. ASSUME Renewed(t, x.copy.token)
      PROVE  /\ Numbers' /\ Grows /\ AgesStay
             /\ NextGrant \in 1..Len(grants') /\ grants'[NextGrant].age = "fresh"
  <2>1. PICK k \in 1..Len(grants) : k = x.copy.token
    BY <1>2
  <2>2. PICK g : g = [grants EXCEPT ![k].spent = TRUE]
    OBVIOUS
  <2>3. grants \in Seq(TokenRecords) /\ grants[k] \in TokenRecords
    BY DEF ClientInv, Numbers
  <2>4. [grants[k] EXCEPT !.spent = TRUE] \in TokenRecords
        /\ [grants[k] EXCEPT !.spent = TRUE].age = grants[k].age
    BY <2>3 DEF TokenRecords
  <2>5. g = [grants EXCEPT ![k] = [grants[k] EXCEPT !.spent = TRUE]]
    BY <2>2
  <2>6. g \in Seq(TokenRecords) /\ Len(g) = Len(grants)
    BY <2>3, <2>4, <2>5
  <2>7. \A j \in 1..Len(grants) : g[j].age = grants[j].age
    BY <2>3, <2>4, <2>5
  <2>8. Grant(g)
    BY <1>4, <2>1, <2>2 DEF Renewed
  <2> QED
    BY <1>3, <2>6, <2>7, <2>8, GrantGrows
<1>5. ASSUME Renewed(t, x.copy.token), UNCHANGED actor,
             task' = [task EXCEPT ![t] = WithToken(@, NextGrant)]
      PROVE  ClientInv'
  <2>1. PICK y : y = WithToken(x, NextGrant)
    OBVIOUS
  <2>2. task' = [task EXCEPT ![t] = y]
    BY <1>5, <2>1
  <2>3. PICK z \in Handlers : z = x
    BY <1>1
  <2>4. HandlerInv(z)'
    BY <1>1, <1>4, <1>5, <2>3, HandlerStays DEF ClientInv
  <2>5. PICK k \in 1..Len(grants') : k = NextGrant
    BY <1>4, <1>5
  <2>6. y \in Handlers /\ HandlerInv(y)' /\ Unexpired(y)'
    BY <1>1, <1>4, <1>5, <2>1, <2>3, <2>4, <2>5, WithTokenIsSound
  <2> QED
    BY <1>4, <1>5, <2>2, <2>6, ActorStays, HandlersStay DEF ClientInv
<1>6. ASSUME Renewed(t, x.copy.token), Fail(t)
      PROVE  ClientInv'
  BY <1>1, <1>4, <1>6, FailKeeps DEF ClientInv
<1>7. ASSUME UNCHANGED grants, Fail(t)
      PROVE  ClientInv'
  <2>1. Numbers' /\ Grows /\ AgesStay
    BY <1>3, <1>7, Still
  <2> QED
    BY <1>1, <1>7, <2>1, FailKeeps DEF ClientInv
<1>8. ASSUME UNCHANGED grants, UNCHANGED actor,
             task' = [task EXCEPT ![t].pc = "authorize", ![t].copy.token = 0]
      PROVE  ClientInv'
  <2>1. Numbers' /\ Grows /\ AgesStay
    BY <1>3, <1>8, Still
  <2>2. PICK s \in Records : s = [x.copy EXCEPT !.token = 0]
    BY <1>2 DEF Records
  <2>3. s.token = 0 /\ s.total = x.copy.total /\ s.windows = x.copy.windows
    BY <1>2, <2>2 DEF Records
  <2>4. Good(s, x.cookie)
    BY <1>2, <2>3 DEF Good, ClientInv, Numbers
  <2>5. PICK y \in Handlers : y = [x EXCEPT !.pc = "authorize", !.copy = s]
    BY <1>1 DEF Handlers, Steps
  <2>6. /\ y.pc = "authorize" /\ y.copy = s /\ y.op = x.op /\ y.cookie = x.cookie
        /\ y.kept = x.kept /\ y.outcome = x.outcome /\ y.due = x.due
    BY <1>1, <2>5 DEF Handlers
  <2>7. HandlerInv(y) /\ Unexpired(y)'
    BY <1>1, <1>2, <2>3, <2>4, <2>6 DEF HandlerInv, Unexpired, Marked, Due
  <2>8. HandlerInv(y)'
    BY <2>1, <2>7, HandlerStays DEF ClientInv
  <2>9. task' = [task EXCEPT ![t] = y]
    BY <1>8, <2>2, <2>5 DEF ClientInv, HandlersInv
  <2> QED
    BY <1>8, <2>1, <2>7, <2>8, <2>9, ActorStays, HandlersStay DEF ClientInv
<1> QED
  BY <1>5, <1>6, <1>7, <1>8 DEF Refresh

LEMMA PublishKeeps ==
    ASSUME ClientInv, NEW t \in Tasks, Publish(t)
    PROVE  ClientInv'
<1> DEFINE x == task[t]
<1>1. /\ x \in Handlers /\ HandlerInv(x) /\ Unexpired(x) /\ x.pc = "publish"
      /\ x.cookie \in Cookies /\ x.cookie # NoCookie /\ Good(x.copy, x.cookie)
      /\ GoodOrNone(x.kept, x.cookie)
  BY HandlerFacts DEF Publish
<1>2. Numbers' /\ Grows /\ AgesStay
  BY Still DEF Publish, history
<1>3. PICK r \in Records, c \in Cookies : r = x.copy /\ c = x.cookie
  BY <1>1 DEF Good
<1>4. Good(r, c)'
  BY <1>1, <1>2, <1>3, GoodStays DEF ClientInv
<1>5. ActorInv'
  BY <1>2, <1>3, <1>4, ReturnKeeps DEF Publish
<1>6. PICK y \in Handlers : y = [x EXCEPT !.pc = "send"]
  BY <1>1 DEF Handlers, Steps
<1>7. /\ y.pc = "send" /\ y.copy = x.copy /\ y.op = x.op /\ y.cookie = x.cookie
      /\ y.kept = x.kept /\ y.outcome = x.outcome /\ y.early = x.early
  BY <1>1, <1>6 DEF Handlers
<1>8. HandlerInv(y) /\ Unexpired(y)'
  BY <1>1, <1>7 DEF HandlerInv, Unexpired, ForRequest, Publish
<1>9. HandlerInv(y)'
  BY <1>2, <1>8, HandlerStays DEF ClientInv
<1>10. task' = [task EXCEPT ![t] = y]
  BY <1>6 DEF Publish, ClientInv, HandlersInv
<1> QED
  BY <1>2, <1>5, <1>8, <1>9, <1>10, HandlersStay DEF ClientInv

\* Permission to count tokens does not matter to the counters.
LEMMA AllowedIsGood ==
    ASSUME NEW c, NEW r, Good(r, c), NEW flag \in {"yes", "no"}
    PROVE  Good([r EXCEPT !.allowed = flag], c) /\ [r EXCEPT !.allowed = flag].total = r.total
<1> DEFINE s == [r EXCEPT !.allowed = flag]
<1>1. r \in Records
  BY DEF Good
<1>2. s \in Records /\ s.token = r.token /\ s.total = r.total /\ s.windows = r.windows
  BY <1>1 DEF Records
<1> HIDE DEF s
<1>3. Good(s, c)
  BY <1>2 DEF Good
<1> QED
  BY <1>2, <1>3 DEF s

LEMMA CountTokensKeeps ==
    ASSUME ClientInv, Numbers', Grows, AgesStay, NEW t \in Tasks,
           task[t].pc \notin {"idle", "take"}, CountTokens(t)
    PROVE  ActorInv' /\ HandlersInv'
<1> DEFINE x == task[t]
<1>1. x \in Handlers /\ x.cookie \in Cookies /\ Good(x.copy, x.cookie)
  BY HandlerFacts
<1>2. PICK flag \in {"yes", "no"} : PersistAllowed(x, flag)
  BY DEF CountTokens
<1>3. PICK c \in Cookies : c = x.cookie
  BY <1>1
<1>4. PICK r : r = [x.copy EXCEPT !.allowed = flag]
  OBVIOUS
<1>5. Good(r, c)
  BY <1>1, <1>3, <1>4, AllowedIsGood
<1>6. Good(r, c)'
  BY <1>5, GoodStays DEF ClientInv
<1>7. ActorInv'
  BY <1>2, <1>3, <1>4, <1>6, ActorStays, ReturnKeeps DEF PersistAllowed
<1>8. task' = [task EXCEPT ![t] = Idle]
  BY <1>1, EndedIsIdle DEF CountTokens, End, ClientInv, HandlersInv
<1> QED
  BY <1>7, <1>8, EndKeeps

\* The token is still accepted, whoever refreshed it meanwhile.
LEMMA SendKeeps ==
    ASSUME ClientInv, NEW t \in Tasks, Send(t)
    PROVE  ClientInv'
<1> DEFINE x == task[t]
<1>1. x \in Handlers /\ HandlerInv(x) /\ Unexpired(x) /\ x.pc = "send"
  BY HandlerFacts DEF Send
<1>2. Numbers' /\ Grows /\ AgesStay
  BY Still DEF Send, history
<1>3. grants[x.copy.token].age # "expired"
  BY <1>1 DEF Unexpired
<1>4. ASSUME x.op \in {"chat", "stream"}, task' = [task EXCEPT ![t].pc = "read"],
             UNCHANGED actor
      PROVE  ClientInv'
  <2>1. PICK y \in Handlers : y = [x EXCEPT !.pc = "read"]
    BY <1>1 DEF Handlers, Steps
  <2>2. /\ y.pc = "read" /\ y.copy = x.copy /\ y.op = x.op /\ y.cookie = x.cookie
        /\ y.kept = x.kept /\ y.outcome = x.outcome
    BY <1>1, <2>1 DEF Handlers
  <2>3. HandlerInv(y) /\ Unexpired(y)'
    BY <1>1, <1>4, <2>2 DEF HandlerInv, Unexpired, ForRequest
  <2>4. HandlerInv(y)'
    BY <1>2, <2>3, HandlerStays DEF ClientInv
  <2>5. task' = [task EXCEPT ![t] = y]
    BY <1>4, <2>1 DEF ClientInv, HandlersInv
  <2> QED
    BY <1>2, <1>4, <2>3, <2>4, <2>5, ActorStays, HandlersStay DEF ClientInv
<1>5. ASSUME CountTokens(t) PROVE ClientInv'
  BY <1>1, <1>2, <1>5, CountTokensKeeps DEF ClientInv
<1>6. ASSUME Fail(t) \/ Refuse(t) PROVE ClientInv'
  BY <1>1, <1>2, <1>6, FailKeeps, RefuseKeeps DEF ClientInv
<1> QED
  BY <1>3, <1>4, <1>5, <1>6 DEF Send

\* The usage is looked at with the copy put by.
LEMMA ReadKeeps ==
    ASSUME ClientInv, NEW t \in Tasks, Read(t)
    PROVE  ClientInv'
<1> DEFINE x == task[t]
<1>1. /\ x \in Handlers /\ HandlerInv(x) /\ x.pc = "read" /\ x.op \in {"chat", "stream"}
      /\ x.cookie \in Cookies /\ x.cookie # NoCookie /\ Good(x.copy, x.cookie)
  BY HandlerFacts DEF Read, HandlerInv
<1>2. Numbers' /\ Grows /\ AgesStay
  BY Still DEF Read, history
<1>3. ASSUME UNCHANGED actor, NEW r \in Refreshed(x.copy, x.cookie),
             task' = [task EXCEPT ![t] =
                        Checked([x EXCEPT !.kept = r, !.due = Due(x.copy, x.cookie)])]
      PROVE  ClientInv'
  <2>1. GoodOrNone(r, x.cookie) /\ r \in Records /\ Due(x.copy, x.cookie) \in SUBSET Windows
    BY <1>1, <1>3, RefreshedIsGood, SentinelAssumption DEF ClientInv, GoodOrNone, Good, Due
  <2>2. PICK z \in Handlers : z = [x EXCEPT !.kept = r, !.due = Due(x.copy, x.cookie)]
    BY <1>1, <2>1 DEF Handlers
  <2>3. /\ z.copy = x.copy /\ z.kept = r /\ z.op = x.op /\ z.cookie = x.cookie
        /\ z.outcome = x.outcome /\ z.due = Due(x.copy, x.cookie)
    BY <1>1, <2>1, <2>2 DEF Handlers
  <2>4. Marked(z)
    BY <2>3 DEF Marked
  <2>5. PICK y : y = Checked(z)
    OBVIOUS
  <2>6. y \in Handlers /\ HandlerInv(y) /\ Unexpired(y)
    BY <1>1, <2>1, <2>3, <2>4, <2>5, CheckedIsSound DEF ClientInv, HandlerInv
  <2>7. HandlerInv(y)'
    BY <1>2, <2>6, HandlerStays DEF ClientInv
  <2>8. Unexpired(y)'
    BY <2>6 DEF Unexpired, Read
  <2>9. task' = [task EXCEPT ![t] = y]
    BY <1>3, <2>2, <2>5
  <2> QED
    BY <1>2, <1>3, <2>6, <2>7, <2>8, <2>9, ActorStays, HandlersStay DEF ClientInv
<1>4. ASSUME UNCHANGED actor, task' = [task EXCEPT ![t] = [x EXCEPT !.pc = "add"]]
      PROVE  ClientInv'
  <2>1. PICK y \in Handlers : y = [x EXCEPT !.pc = "add"]
    BY <1>1 DEF Handlers, Steps
  <2>2. /\ y.pc = "add" /\ y.copy = x.copy /\ y.op = x.op /\ y.cookie = x.cookie
        /\ y.kept = x.kept /\ y.outcome = x.outcome
    BY <1>1, <2>1 DEF Handlers
  <2>3. HandlerInv(y) /\ Unexpired(y)'
    BY <1>1, <2>2 DEF HandlerInv, Unexpired
  <2>4. HandlerInv(y)'
    BY <1>2, <2>3, HandlerStays DEF ClientInv
  <2> QED
    BY <1>2, <1>4, <2>1, <2>3, <2>4, ActorStays, HandlersStay DEF ClientInv
<1>5. ASSUME End(t, "served"), UNCHANGED actor
      PROVE  ClientInv'
  <2>1. task' = [task EXCEPT ![t] = Idle]
    BY <1>1, <1>5, EndedIsIdle DEF End, ClientInv, HandlersInv
  <2> QED
    BY <1>2, <1>5, <2>1, ActorStays, EndKeeps DEF ClientInv
<1>6. ASSUME Fail(t) PROVE ClientInv'
  BY <1>1, <1>2, <1>6, FailKeeps DEF ClientInv
<1> QED
  BY <1>3, <1>4, <1>5, <1>6 DEF Read

LEMMA MetricsKeeps ==
    ASSUME ClientInv, NEW t \in Tasks, Metrics(t)
    PROVE  ClientInv'
<1> DEFINE x == task[t]
<1>1. /\ x \in Handlers /\ HandlerInv(x) /\ x.pc = "metrics"
      /\ x.cookie \in Cookies /\ x.cookie # NoCookie /\ Good(x.copy, x.cookie)
  BY HandlerFacts DEF Metrics
<1>2. Numbers' /\ Grows /\ AgesStay
  BY Still DEF Metrics, history
<1>3. PICK r \in Records, c \in Cookies : r = x.copy /\ c = x.cookie
  BY <1>1 DEF Good
<1>4. Good(r, c)'
  BY <1>1, <1>2, <1>3, GoodStays DEF ClientInv
<1>5. ASSUME Return(x.cookie, x.copy), x.op = "status", End(t, "served")
      PROVE  ClientInv'
  <2>1. task' = [task EXCEPT ![t] = Idle]
    BY <1>1, <1>5, EndedIsIdle DEF End, ClientInv, HandlersInv
  <2> QED
    BY <1>2, <1>3, <1>4, <1>5, <2>1, ReturnKeeps, EndKeeps DEF ClientInv
<1>6. ASSUME Return(x.cookie, x.copy), x.op # "status", NEW given \in SUBSET Windows,
             task' = [task EXCEPT ![t] = [x EXCEPT
                        !.pc = "add", !.kept = NoRecord, !.due = {},
                        !.copy = Boundary(x.copy, x.cookie, x.due, given)]]
      PROVE  ClientInv'
  <2>1. x.op \in {"chat", "stream"} /\ Marked(x) /\ x.due \in SUBSET Windows
    BY <1>1, <1>6 DEF HandlerInv, ForRequest, Handlers
  <2>2. PICK s : s = Boundary(r, c, x.due, given)
    OBVIOUS
  <2>3. Good(s, c) /\ s \in Records
    BY <1>1, <1>3, <2>1, <2>2, BoundaryIsGood DEF ClientInv, Good, Marked
  <2>4. PICK y \in Handlers : y = [x EXCEPT !.pc = "add", !.kept = NoRecord, !.due = {},
                                            !.copy = s]
    BY <1>1, <2>3 DEF Handlers, Steps
  <2>5. /\ y.pc = "add" /\ y.copy = s /\ y.op = x.op /\ y.cookie = x.cookie
        /\ y.kept = NoRecord /\ y.outcome = x.outcome
    BY <1>1, <2>3, <2>4 DEF Handlers
  <2>6. HandlerInv(y) /\ Unexpired(y)'
    BY <1>1, <1>3, <2>1, <2>3, <2>5 DEF HandlerInv, Unexpired, GoodOrNone
  <2>7. HandlerInv(y)'
    BY <1>2, <2>6, HandlerStays DEF ClientInv
  <2>8. task' = [task EXCEPT ![t] = y]
    BY <1>3, <1>6, <2>2, <2>4
  <2> QED
    BY <1>2, <1>3, <1>4, <1>6, <2>6, <2>7, <2>8, ReturnKeeps, HandlersStay DEF ClientInv
<1>7. ASSUME Fail(t) PROVE ClientInv'
  BY <1>1, <1>2, <1>7, FailKeeps DEF ClientInv
<1> QED
  BY <1>5, <1>6, <1>7 DEF Metrics

LEMMA AddUsageKeeps ==
    ASSUME ClientInv, NEW t \in Tasks, AddUsage(t)
    PROVE  ClientInv'
<1> DEFINE x == task[t]
<1>1. /\ x \in Handlers /\ x.pc = "add" /\ x.cookie \in Cookies /\ Good(x.copy, x.cookie)
  BY HandlerFacts DEF AddUsage
<1>2. PICK r \in Records, c \in Cookies : r = x.copy /\ c = x.cookie
  BY <1>1 DEF Good
<1>3. settled' = [settled EXCEPT ![c] = @ + 1] /\ UNCHANGED <<grants, window, outrun>>
  BY <1>2 DEF AddUsage
<1>4. PICK sonnet \in BOOLEAN :
        /\ Return(c, Added(r, c, Counting(sonnet)))
        /\ blind' = blind \cup {<<c, w>> : w \in Unknown(r) \cap Counting(sonnet)}
  BY <1>2 DEF AddUsage
<1>5. Numbers' /\ Grows /\ AgesStay
  BY <1>3, <1>4 DEF ClientInv, Numbers, Grows, AgesStay
<1>6. settled'[c] = settled[c] + 1
  BY <1>3 DEF ClientInv, Numbers
<1>7. PICK s : s = Added(r, c, Counting(sonnet))
  OBVIOUS
<1>8. Good(s, c)'
  <2>1. PICK counting \in SUBSET Windows : counting = Counting(sonnet)
    BY DEF Counting
  <2>2. \A w \in Unknown(r) \cap counting : <<c, w>> \in blind'
    BY <1>4, <2>1
  <2> QED
    BY <1>1, <1>2, <1>5, <1>6, <1>7, <2>1, <2>2, AddedIsGood DEF ClientInv
<1>9. ActorInv'
  BY <1>2, <1>4, <1>5, <1>7, <1>8, ReturnKeeps
<1>10. task' = [task EXCEPT ![t] = Idle]
  BY <1>1, EndedIsIdle DEF AddUsage, End, ClientInv, HandlersInv
<1> QED
  BY <1>5, <1>9, <1>10, EndKeeps DEF ClientInv

LEMMA CancelKeeps ==
    ASSUME ClientInv, NEW t \in Tasks, Cancel(t)
    PROVE  ClientInv'
<1>1. Numbers' /\ Grows /\ AgesStay
  BY Still DEF Cancel, history
<1> QED
  BY <1>1, ActorStays, EndKeeps DEF Cancel, ClientInv

\* The tokens that requests are about to use do not expire.
LEMMA AgeKeeps ==
    ASSUME ClientInv, NEW k \in DOMAIN grants, Age(k)
    PROVE  ClientInv'
<1>1. UNCHANGED <<window, settled, blind, outrun, task>> /\ UNCHANGED actor
  BY DEF Age, history
<1>2. grants \in Seq(TokenRecords) /\ k \in 1..Len(grants) /\ grants[k] \in TokenRecords
  BY DEF ClientInv, Numbers
<1>3. PICK a \in {"aging", "expired"} :
        /\ grants' = [grants EXCEPT ![k].age = a]
        /\ a = "expired" => \A t \in Tasks : task[t].copy.token = k /\ task[t].early
                                => task[t].pc \notin {"publish", "send"}
  BY DEF Age
<1>4. [grants[k] EXCEPT !.age = a] \in TokenRecords /\ [grants[k] EXCEPT !.age = a].age = a
  BY <1>2 DEF TokenRecords
<1>5. grants' = [grants EXCEPT ![k] = [grants[k] EXCEPT !.age = a]]
  BY <1>3
<1>6. grants' \in Seq(TokenRecords) /\ Len(grants') = Len(grants)
  BY <1>2, <1>4, <1>5
<1>7. \A j \in 1..Len(grants) : grants'[j].age = IF j = k THEN a ELSE grants[j].age
  BY <1>2, <1>4, <1>5
<1>8. Numbers' /\ Grows
  BY <1>1, <1>6 DEF ClientInv, Numbers, Grows
<1>9. ASSUME NEW t \in Tasks
      PROVE  HandlerInv(task[t])' /\ Unexpired(task[t])'
  <2>1. PICK x \in Handlers : x = task[t] /\ x = task'[t]
    BY <1>1, HandlerFacts
  <2>2. HandlerInv(x) /\ Unexpired(x)
    BY <2>1, HandlerFacts
  <2>3. HandlerInv(x)'
    BY <1>8, <2>2, HandlerStays DEF ClientInv
  <2>4. ASSUME x.pc \in {"publish", "send"}
        PROVE  grants'[x.copy.token].age # "expired"
    <3>1. x.early /\ x.copy.token # 0 /\ x.cookie # NoCookie /\ x.copy \in Records
      BY <2>2, <2>4 DEF HandlerInv, Handlers
    <3>2. x.copy.token \in 1..Len(grants)
      BY <2>2, <3>1 DEF HandlerInv, Good, Records, ClientInv, Numbers
    <3>3. x.copy.token = k => a # "expired"
      BY <1>3, <2>1, <2>4, <3>1
    <3> QED
      BY <1>7, <2>2, <2>4, <3>2, <3>3 DEF Unexpired
  <2>5. Unexpired(x)'
    BY <2>4 DEF Unexpired
  <2> QED
    BY <2>1, <2>3, <2>5
<1>10. HandlersInv'
  BY <1>1, <1>9 DEF ClientInv, HandlersInv
<1> QED
  BY <1>1, <1>8, <1>10, ActorStays DEF ClientInv

\* A window of the service ends: a record whose boundary lies beyond it, or that
\* is being looked at, is remembered as outrun.
LEMMA GoodMoves ==
    ASSUME ClientInv, NEW c \in Cookies, NEW w \in Windows, NewWindow(c, w),
           NEW d \in Cookies, NEW r, Good(r, d), d = c => r \in RecordsOf(c)
    PROVE  Good(r, d)'
<1>1. window' = [window EXCEPT ![c][w] = @ + 1] /\ window \in [Cookies -> [Windows -> Nat]]
  BY DEF NewWindow, ClientInv, Numbers
<1>2. \A e \in Cookies, v \in Windows :
        window'[e][v] = IF e = c /\ v = w THEN window[e][v] + 1 ELSE window[e][v]
  BY <1>1
<1>3. UNCHANGED <<grants, settled, blind>> /\ outrun \subseteq outrun'
  BY DEF NewWindow
<1>4. r \in Records /\ r # NoRecord /\ Sound(r.windows, d)
  BY SentinelAssumption DEF Good
<1>5. ASSUME NEW v \in Windows
      PROVE  SoundWindow(r.windows[v], d, v)'
  <2>1. PICK s \in WindowStates : s = r.windows[v]
    BY <1>4, WindowTyped
  <2>2. SoundWindow(s, d, v) /\ window[d][v] \in Nat /\ s.start \in Nat /\ s.ends \in Nat
    BY <1>1, <1>4, <2>1 DEF Sound, WindowStates
  <2>3. CASE d = c /\ v = w
    <3>1. ASSUME s.ends > window[c][w] PROVE <<c, w>> \in outrun'
      <4>1. r \in RecordsOf(c) \ {NoRecord} /\ r.windows[w].ends > window[c][w]
        BY <1>4, <2>1, <2>3, <3>1
      <4>2. EndsEarly(c, w)
        BY <4>1 DEF EndsEarly
      <4> QED
        BY <4>2 DEF NewWindow
    <3>2. window'[c][w] = window[c][w] + 1
      BY <1>2
    <3>3. SoundWindow(s, c, w) /\ window[c][w] \in Nat
      BY <2>2, <2>3
    <3>4. ASSUME <<c, w>> \notin (blind \cup outrun)', s.has = "yes"
          PROVE  (s.oldest # 0 => s.oldest >= s.start) /\ ~(s.ends >= window'[c][w])
      <4>1. <<c, w>> \notin blind \cup outrun /\ ~(s.ends > window[c][w])
        BY <1>3, <3>1, <3>4
      <4>2. s.oldest # 0 => s.oldest >= s.start
        BY <3>3, <3>4, <4>1 DEF SoundWindow
      <4> QED
        BY <2>2, <3>2, <3>3, <4>1, <4>2
    <3>5. s.start <= window'[c][w]
      BY <2>2, <3>2, <3>3 DEF SoundWindow
    <3>6. <<c, w>> \notin blind' /\ s.has = "unknown" => s.oldest = 0
      BY <1>3, <3>3 DEF SoundWindow
    <3>7. SoundWindow(s, c, w)'
      BY <3>4, <3>5, <3>6 DEF SoundWindow
    <3> QED
      BY <2>1, <2>3, <3>7
  <2>4. CASE ~(d = c /\ v = w)
    <3>1. window'[d][v] = window[d][v]
      BY <1>2, <2>4
    <3>2. SoundWindow(s, d, v)'
      BY <1>3, <2>2, <3>1 DEF SoundWindow
    <3> QED
      BY <2>1, <3>2
  <2> QED
    BY <2>1, <2>3, <2>4
<1> QED
  BY <1>3, <1>4, <1>5 DEF Good, Sound

LEMMA NewWindowKeeps ==
    ASSUME ClientInv, NEW c \in Cookies, NEW w \in Windows, NewWindow(c, w)
    PROVE  ClientInv'
<1>1. UNCHANGED <<grants, settled, blind, task, valid, limited>> /\ outrun \subseteq outrun'
  BY DEF NewWindow, actor
<1>2. window' = [window EXCEPT ![c][w] = @ + 1] /\ window \in [Cookies -> [Windows -> Nat]]
  BY DEF NewWindow, ClientInv, Numbers
<1>3. Numbers'
  BY <1>1, <1>2 DEF ClientInv, Numbers
<1>4. ActorInv'
  <2>1. ASSUME NEW d \in Cookies
        PROVE  GoodOrNone(valid[d], d)' /\ GoodOrNone(limited[d], d)'
    <3>1. GoodOrNone(valid[d], d) /\ GoodOrNone(limited[d], d)
      BY DEF ClientInv, ActorInv
    <3>2. d = c => valid[d] \in RecordsOf(c) /\ limited[d] \in RecordsOf(c)
      BY DEF RecordsOf
    <3> QED
      BY <1>1, <3>1, <3>2, GoodMoves DEF GoodOrNone
  <2> QED
    BY <1>1, <2>1 DEF ClientInv, ActorInv
<1>5. ASSUME NEW u \in Tasks
      PROVE  HandlerInv(task[u])' /\ Unexpired(task[u])'
  <2>1. PICK x \in Handlers : x = task[u] /\ x = task'[u]
    BY <1>1, HandlerFacts
  <2>2. HandlerInv(x) /\ Unexpired(x)
    BY <2>1, HandlerFacts
  <2>3. ASSUME x.cookie # NoCookie
        PROVE  Good(x.copy, x.cookie)' /\ GoodOrNone(x.kept, x.cookie)'
    <3>1. PICK d \in Cookies : d = x.cookie
      BY <2>3 DEF Handlers
    <3>2. d = c => x.copy \in RecordsOf(c) /\ x.kept \in RecordsOf(c)
      BY <2>1, <3>1 DEF RecordsOf, InUse
    <3> QED
      BY <2>2, <2>3, <3>1, <3>2, GoodMoves DEF HandlerInv, GoodOrNone
  <2>4. ASSUME x.kept # NoRecord
        PROVE  Marked(x)'
    <3>1. x.cookie = c => <<c, w>> \in outrun'
      BY <2>1, <2>4 DEF NewWindow, EndsEarly, InUse
    <3>2. x.cookie \in Cookies
      BY <2>2, <2>4 DEF HandlerInv, Handlers, Steps
    <3>3. ASSUME NEW v \in Windows, <<x.cookie, v>> \notin outrun'
          PROVE  window'[x.cookie][v] = window[x.cookie][v]
      BY <1>2, <3>1, <3>2, <3>3
    <3> QED
      BY <1>1, <2>2, <2>4, <3>3 DEF HandlerInv, Marked, Due
  <2>5. HandlerInv(x)'
    BY <2>2, <2>3, <2>4 DEF HandlerInv, ForRequest
  <2>6. Unexpired(x)'
    BY <1>1, <2>2 DEF Unexpired
  <2> QED
    BY <2>1, <2>5, <2>6
<1> QED
  BY <1>1, <1>3, <1>4, <1>5 DEF ClientInv, HandlersInv

LEMMA CheckResetKeeps ==
    ASSUME ClientInv, NEW c \in Cookies, CheckReset(c)
    PROVE  ClientInv'
<1>1. Numbers' /\ Grows /\ AgesStay
  BY Still DEF CheckReset, history
<1>2. ActorInv'
  BY RefreshKeeps DEF CheckReset, history
<1>3. HandlersInv'
  BY <1>1, WaitingStay DEF CheckReset
<1> QED
  BY <1>1, <1>2, <1>3 DEF ClientInv

LEMMA ResetKeeps ==
    ASSUME ClientInv, NEW c \in Cookies, Reset(c)
    PROVE  ClientInv'
<1>1. Numbers' /\ Grows /\ AgesStay
  BY Still DEF Reset, history
<1>2. PICK s : s = Cleared(limited[c])
  OBVIOUS
<1>3. Good(s, c) /\ s \in Records
  BY <1>2, ClearedIsGood DEF ClientInv, ActorInv, GoodOrNone, Reset, Good
<1>4. limited' = [limited EXCEPT ![c] = NoRecord] /\ valid' = [valid EXCEPT ![c] = s]
  BY <1>2 DEF Reset
<1>5. /\ valid' \in [Cookies -> Records \cup {NoRecord}]
      /\ limited' \in [Cookies -> Records \cup {NoRecord}]
  BY <1>3, <1>4 DEF ClientInv, ActorInv
<1>6. ASSUME NEW d \in Cookies
      PROVE  GoodOrNone(valid[d], d)' /\ GoodOrNone(limited[d], d)'
  <2>1. /\ valid'[d] = IF d = c THEN s ELSE valid[d]
        /\ limited'[d] = IF d = c THEN NoRecord ELSE limited[d]
    BY <1>4 DEF ClientInv, ActorInv
  <2> QED
    BY <1>1, <1>3, <2>1, GoodStays DEF ClientInv, ActorInv, GoodOrNone
<1>7. HandlersInv'
  BY <1>1, WaitingStay DEF Reset
<1> QED
  BY <1>1, <1>5, <1>6, <1>7 DEF ClientInv, ActorInv

LEMMA StutterKeepsClient ==
    ASSUME ClientInv, UNCHANGED vars
    PROVE  ClientInv'
<1>1. Numbers' /\ Grows /\ AgesStay
  BY Still DEF vars, history
<1> QED
  BY <1>1, ActorStays, WaitingStay DEF vars, ClientInv

LEMMA NextClient == ClientInv /\ [Next]_vars => ClientInv'
BY BeginKeeps, BeginStatusKeeps, RequestCookieKeeps, AuthorizeKeeps, RefreshTokenKeeps,
   PublishKeeps, SendKeeps, ReadKeeps, MetricsKeeps, AddUsageKeeps, CancelKeeps, AgeKeeps,
   NewWindowKeeps, CheckResetKeeps, ResetKeeps, StutterKeepsClient
   DEF Next, Step

LEMMA ClientInvariant == Spec => []ClientInv
BY InitClient, NextClient, PTL DEF Spec

\* However copies of a record come back, and whichever window has caused a look
\* at the usage, the counters of a window hold no answer from before its boundary,
\* but for usage added before the window was known and windows that the service
\* has ended early (persist_usage_totals, update_cookie_boundaries_if_due,
\* refresh_usage_windows).
THEOREM WindowsAreOne == Spec => []OneWindow
<1>1. ClientInv => OneWindow
  BY DEF ClientInv, ActorInv, GoodOrNone, Good, Sound, SoundWindow, OneWindow
<1> QED
  BY <1>1, ClientInvariant, PTL

\* Refreshing a token that another request has spent, and losing one that was
\* got, cost no request its answer, whatever the number of attempts
\* (check_token, refresh_token, try_chat of claude_code_state).
THEOREM FailuresAreFaults == Spec => []ServedUnlessFault
<1>1. ClientInv => ServedUnlessFault
  BY DEF ClientInv, HandlersInv, HandlerInv, ServedUnlessFault
<1> QED
  BY <1>1, ClientInvariant, PTL

-----------------------------------------------------------------------------
(* ExactInv is inductive                                                   *)

LEMMA InitExact == Init => ExactInv
BY ParametersAreTyped DEF Init, ExactInv, Exact, ActorExact, NewRecord, Idle

\* A step of one request: only what it does to its own Cookie matters.
LEMMA OwnExact ==
    ASSUME ClientInv, ExactInv, NEW t \in Tasks, NEW y, task' = [task EXCEPT ![t] = y],
           UNCHANGED overlapped, y.cookie \in {task[t].cookie, NoCookie},
           \A c \in Cookies \ {task[t].cookie} :
                valid'[c] = valid[c] /\ limited'[c] = limited[c] /\ settled'[c] = settled[c],
           \A c \in Cookies \ overlapped :
                c = task[t].cookie => ActorExact(c)' /\ (y.cookie = c => HandlerExact(y, c)')
    PROVE  ExactInv'
<1> SUFFICES ASSUME NEW c \in Cookies \ overlapped
             PROVE  Exact(c)'
  BY DEF ExactInv
<1>1. Exact(c) /\ c # NoCookie
  BY ParametersAreTyped DEF ExactInv
<1>2. \A u \in Tasks : task'[u] = IF u = t THEN y ELSE task[u]
  BY DEF ClientInv, HandlersInv
<1>3. CASE c = task[t].cookie
  <2>1. \A u \in Tasks : task'[u].cookie = c => u = t
    BY <1>1, <1>2, <1>3 DEF Exact
  <2>2. ActorExact(c)' /\ (y.cookie = c => HandlerExact(y, c)')
    BY <1>3
  <2>3. \A u \in Tasks : task'[u].cookie = c => HandlerExact(task[u], c)'
    BY <1>2, <2>1, <2>2 DEF HandlerExact
  <2> QED
    BY <2>1, <2>2, <2>3 DEF Exact
<1>4. CASE c # task[t].cookie
  <2>1. valid'[c] = valid[c] /\ limited'[c] = limited[c] /\ settled'[c] = settled[c]
    BY <1>4
  <2>2. \A u \in Tasks : task'[u].cookie = c => task'[u] = task[u]
    BY <1>1, <1>2, <1>4
  <2> QED
    BY <1>1, <2>1, <2>2 DEF Exact, ActorExact, HandlerExact
<1> QED
  BY <1>3, <1>4

LEMMA ExactFacts ==
    ASSUME ClientInv, ExactInv, NEW t \in Tasks, task[t].pc \notin {"idle", "take"},
           task[t].cookie \notin overlapped
    PROVE  /\ task[t].cookie \in Cookies
           /\ ActorExact(task[t].cookie) /\ HandlerExact(task[t], task[t].cookie)
BY HandlerFacts DEF ExactInv, Exact

LEMMA ReturnElsewhere ==
    ASSUME NEW c, NEW r, NEW d, d # c, Return(c, r)
    PROVE  valid'[d] = valid[d] /\ limited'[d] = limited[d]
BY DEF Return

LEMMA ReturnExact ==
    ASSUME ClientInv, NEW c \in Cookies, NEW r \in Records, ActorExact(c), Return(c, r),
           r.total = settled'[c], limited[c] = NoRecord \/ settled'[c] = settled[c]
    PROVE  /\ ActorExact(c)'
           /\ valid[c] # NoRecord => valid'[c] # NoRecord
BY SentinelAssumption DEF ClientInv, ActorInv, Return, ActorExact

LEMMA GiveUpExact ==
    ASSUME ClientInv, ExactInv, NEW t \in Tasks, task[t].pc \notin {"idle", "take"},
           UNCHANGED <<settled, overlapped>>,
           NEW reason, NEW hurt, GiveUp(t, reason, hurt)
    PROVE  ExactInv'
<1> DEFINE x == task[t]
           s == Cleared(x.copy)
<1>0. PICK c \in Cookies : c = x.cookie
  BY HandlerFacts
<1>1. c # NoCookie /\ Good(x.copy, c)
  BY <1>0, HandlerFacts
<1>2. s \in Records /\ s.total = x.copy.total
  BY <1>1, ClearedIsGood DEF ClientInv, Good
<1> HIDE DEF s
<1>3. /\ valid' = [valid EXCEPT ![c] = NoRecord]
      /\ limited' = limited \/ limited' = [limited EXCEPT ![c] = s]
  BY <1>0 DEF GiveUp, ReturnLimited, ReturnUseless, s
<1>4. PICK y : /\ task' = [task EXCEPT ![t] = y]
               /\ y = [Idle EXCEPT !.pc = "take", !.op = x.op, !.tries = x.tries, !.hurt = hurt]
  BY DEF GiveUp
<1>5. y.cookie = NoCookie
  BY <1>4 DEF Idle
<1>6. ASSUME c \notin overlapped PROVE ActorExact(c)'
  <2>1. ActorExact(c) /\ HandlerExact(x, c)
    BY <1>0, <1>6, ExactFacts
  <2> QED
    BY <1>1, <1>2, <1>3, <2>1 DEF ActorExact, HandlerExact, ClientInv, ActorInv
<1>7. \A d \in Cookies \ {c} :
            valid'[d] = valid[d] /\ limited'[d] = limited[d] /\ settled'[d] = settled[d]
  BY <1>3 DEF ClientInv, ActorInv
<1> QED
  BY ZenonT(40), <1>0, <1>1, <1>4, <1>5, <1>6, <1>7, OwnExact

LEMMA EndExact ==
    ASSUME ClientInv, ExactInv, NEW t \in Tasks, task' = [task EXCEPT ![t] = Idle],
           UNCHANGED <<settled, overlapped>>, UNCHANGED actor
    PROVE  ExactInv'
<1>1. Idle.cookie = NoCookie
  BY DEF Idle
<1>2. \A c \in Cookies \ overlapped : c = task[t].cookie => ActorExact(c)'
  BY DEF ExactInv, Exact, ActorExact, actor
<1>3. \A c \in Cookies : c # NoCookie
  BY ParametersAreTyped
<1> QED
  BY ZenonT(40), <1>1, <1>2, <1>3, OwnExact DEF actor

\* A request ends with its copy given back.
LEMMA EndReturnExact ==
    ASSUME ClientInv, ExactInv, NEW t \in Tasks, task[t].pc \notin {"idle", "take"},
           task' = [task EXCEPT ![t] = Idle], NEW r \in Records, Return(task[t].cookie, r),
           r.total = task[t].copy.total, UNCHANGED <<settled, overlapped>>
    PROVE  ExactInv'
<1>0. PICK c \in Cookies : c = task[t].cookie
  BY HandlerFacts
<1>1. c # NoCookie
  BY ParametersAreTyped
<1>2. ASSUME c \notin overlapped PROVE ActorExact(c)'
  BY <1>0, <1>2, ExactFacts, ReturnExact DEF HandlerExact
<1>3. Idle.cookie = NoCookie
  BY DEF Idle
<1>4. \A d \in Cookies \ {c} :
            valid'[d] = valid[d] /\ limited'[d] = limited[d] /\ settled'[d] = settled[d]
  BY <1>0, ReturnElsewhere
<1> QED
  BY ZenonT(40), <1>0, <1>1, <1>2, <1>3, <1>4, OwnExact

\* A request goes on with a copy that counts the same.
LEMMA GoOnExact ==
    ASSUME ClientInv, ExactInv, NEW t \in Tasks, task[t].pc \notin {"idle", "take"},
           NEW y, task' = [task EXCEPT ![t] = y],
           y.cookie = task[t].cookie, y.op = task[t].op,
           HandlerExact(task[t], task[t].cookie) => y.copy.total = task[t].copy.total,
           y.kept # NoRecord => y.kept.total = task[t].copy.total \/ y.kept = task[t].kept,
           UNCHANGED <<settled, overlapped>>,
           UNCHANGED actor \/ \E r \in Records : /\ Return(task[t].cookie, r)
                                                  /\ r.total = task[t].copy.total
    PROVE  ExactInv'
<1>0. PICK c \in Cookies : c = task[t].cookie
  BY HandlerFacts
<1>1. c # NoCookie
  BY ParametersAreTyped
<1>2. ASSUME c \notin overlapped
      PROVE  ActorExact(c)' /\ HandlerExact(y, c)'
  <2>1. ActorExact(c) /\ HandlerExact(task[t], c)
    BY <1>0, <1>2, ExactFacts
  <2>2. ActorExact(c)' /\ (valid[c] # NoRecord => valid'[c] # NoRecord)
    <3>1. CASE UNCHANGED actor
      BY <2>1, <3>1 DEF actor, ActorExact
    <3>2. ASSUME NEW r \in Records, Return(c, r), r.total = task[t].copy.total
          PROVE  ActorExact(c)' /\ (valid[c] # NoRecord => valid'[c] # NoRecord)
      BY <1>0, <2>1, <3>2, ReturnExact DEF HandlerExact
    <3> QED
      BY <1>0, <3>1, <3>2
  <2> QED
    BY <1>0, <2>1, <2>2 DEF HandlerExact
<1>3. \A d \in Cookies \ {c} :
            valid'[d] = valid[d] /\ limited'[d] = limited[d] /\ settled'[d] = settled[d]
  BY <1>0, ReturnElsewhere DEF actor
<1> QED
  BY <1>0, <1>1, <1>2, <1>3, OwnExact

LEMMA FailExact ==
    ASSUME ClientInv, ExactInv, NEW t \in Tasks, task[t].pc \notin {"idle", "take"},
           UNCHANGED <<settled, overlapped>>, Fail(t)
    PROVE  ExactInv'
<1> DEFINE x == [task[t] EXCEPT !.hurt = TRUE]
<1>1. /\ task[t] \in Handlers /\ task[t].cookie \in Cookies
      /\ Good(task[t].copy, task[t].cookie) /\ GoodOrNone(task[t].kept, task[t].cookie)
  BY HandlerFacts
<1>2. /\ x \in Handlers /\ x.hurt = TRUE /\ x.op = task[t].op /\ x.cookie = task[t].cookie
      /\ x.copy = task[t].copy /\ x.kept = task[t].kept
  BY <1>1 DEF Handlers
<1> HIDE DEF x
<1>3. CASE /\ task' = [task EXCEPT ![t] = Ended(x, "failed")]
           /\ UNCHANGED actor
  BY <1>2, <1>3, EndedIsIdle, EndExact
<1>4. CASE End(t, "served") /\ Return(x.cookie, x.copy)
  <2>1. task' = [task EXCEPT ![t] = Idle]
    BY <1>1, <1>4, EndedIsIdle DEF End, ClientInv, HandlersInv
  <2>2. PICK r \in Records : r = x.copy
    BY <1>1, <1>2 DEF Good
  <2> QED
    BY <1>2, <1>4, <2>1, <2>2, EndReturnExact
<1>5. ASSUME x.kept # NoRecord, UNCHANGED actor,
             task' = [task EXCEPT ![t] = [x EXCEPT !.pc = "add", !.copy = x.kept,
                                                   !.kept = NoRecord, !.due = {}]]
      PROVE  ExactInv'
  <2>1. PICK y : y = [x EXCEPT !.pc = "add", !.copy = x.kept, !.kept = NoRecord, !.due = {}]
    OBVIOUS
  <2>2. y.copy = x.kept /\ y.kept = NoRecord /\ y.op = x.op /\ y.cookie = x.cookie
    BY <1>2, <2>1 DEF Handlers
  <2>3. HandlerExact(task[t], task[t].cookie) => y.copy.total = task[t].copy.total
    BY <1>2, <1>5, <2>2 DEF HandlerExact
  <2> QED
    BY <1>2, <1>5, <2>1, <2>2, <2>3, GoOnExact
<1> QED
  BY <1>3, <1>4, <1>5 DEF Fail, x

LEMMA RefuseExact ==
    ASSUME ClientInv, ExactInv, NEW t \in Tasks, task[t].pc \notin {"idle", "take"},
           UNCHANGED <<settled, overlapped>>, Refuse(t)
    PROVE  ExactInv'
BY GiveUpExact, FailExact DEF Refuse

\* A step of the actor by itself, or of the clock.
LEMMA ActorStepExact ==
    ASSUME ExactInv, UNCHANGED <<task, settled, overlapped>>,
           \A c \in Cookies : ActorExact(c) =>
                ActorExact(c)' /\ (valid[c] # NoRecord => valid'[c] # NoRecord)
    PROVE  ExactInv'
BY DEF ExactInv, Exact, HandlerExact

LEMMA RefreshedExact ==
    ASSUME ClientInv, UNCHANGED settled, NEW c \in Cookies,
           NEW v \in Refreshed(valid[c], c), NEW l \in Refreshed(limited[c], c),
           valid' = [valid EXCEPT ![c] = v], limited' = [limited EXCEPT ![c] = l]
    PROVE  \A d \in Cookies : ActorExact(d) =>
                ActorExact(d)' /\ (valid[d] # NoRecord => valid'[d] # NoRecord)
<1>1. /\ v = NoRecord <=> valid[c] = NoRecord
      /\ l = NoRecord <=> limited[c] = NoRecord
      /\ valid[c] # NoRecord => v.total = valid[c].total
      /\ limited[c] # NoRecord => l.total = limited[c].total
  BY RefreshedIsGood DEF ClientInv, ActorInv
<1>2. \A d \in Cookies : /\ valid'[d] = IF d = c THEN v ELSE valid[d]
                         /\ limited'[d] = IF d = c THEN l ELSE limited[d]
  BY DEF ClientInv, ActorInv
<1> QED
  BY <1>1, <1>2 DEF ActorExact

\* A Cookie is taken: if another request has it, it is no longer exact.
LEMMA TakeExact ==
    ASSUME ClientInv, ExactInv, NEW t \in Tasks, NEW x \in Handlers, NEW c \in Cookies,
           NEW r, Take(t, x, c, r), UNCHANGED <<settled, grants, window>>, Good(r, c),
           task[t].pc \in {"idle", "take"}, x.op # "none", x.kept = NoRecord,
           x.outcome # "failed",
           \A d \in Cookies : ActorExact(d) =>
                ActorExact(d)' /\ (valid[d] # NoRecord => valid'[d] # NoRecord),
           r \in {valid'[c], limited'[c]},
           x.op # "status" => valid'[c] # NoRecord
    PROVE  ExactInv'
<1>1. r \in Records
  BY DEF Good
<1>2. PICK z \in Handlers : z = [x EXCEPT !.cookie = c, !.copy = r]
  BY <1>1 DEF Handlers
<1>3. z.cookie = c /\ z.copy = r /\ z.op = x.op /\ z.kept = NoRecord /\ z.outcome = x.outcome
  BY <1>1, <1>2 DEF Handlers
<1>4. PICK y : y = Checked(z)
  OBVIOUS
<1>5. y.cookie = c /\ y.copy = r /\ y.kept = NoRecord /\ y.op = x.op
  BY <1>3, <1>4, CheckedIsSound DEF ClientInv, GoodOrNone
<1>6. \A u \in Tasks : task'[u] = IF u = t THEN y ELSE task[u]
  BY <1>2, <1>4 DEF Take, ClientInv, HandlersInv
<1>7. task[t].cookie = NoCookie
  BY HandlerFacts DEF HandlerInv
<1> SUFFICES ASSUME NEW d \in Cookies \ overlapped'
             PROVE  Exact(d)'
  BY DEF ExactInv
<1>8. d \notin overlapped /\ Exact(d)
  BY DEF ExactInv, Take
<1>9. ActorExact(d)' /\ (valid[d] # NoRecord => valid'[d] # NoRecord)
  BY <1>8 DEF Exact
<1>10. CASE d # c
  BY <1>5, <1>6, <1>8, <1>9, <1>10 DEF Exact, HandlerExact
<1>11. CASE d = c
  <2>1. \A u \in Tasks : task[u].cookie # c
    BY <1>11 DEF Take, InUse
  <2>2. \A u \in Tasks : task'[u].cookie = c => u = t
    BY <1>6, <2>1
  <2>3. r.total = settled'[c]
    BY <1>1, <1>9, <1>11, SentinelAssumption DEF ActorExact
  <2>4. y.copy.total = settled'[c] /\ y.kept = NoRecord /\ (y.op # "status" => valid'[c] # NoRecord)
    BY <1>5, <2>3
  <2>5. \A u \in Tasks : task'[u].cookie = c => HandlerExact(task[u], c)'
    BY <1>6, <2>2, <2>4 DEF HandlerExact
  <2> QED
    BY <1>9, <1>11, <2>2, <2>5 DEF Exact
<1> QED
  BY <1>10, <1>11

LEMMA BeginExact ==
    ASSUME ClientInv, ExactInv, NEW t \in Tasks, Begin(t)
    PROVE  ExactInv'
<1>1. PICK op : task' = [task EXCEPT ![t] = [Idle EXCEPT !.pc = "take", !.op = op]]
  BY DEF Begin
<1>2. PICK y : y = [Idle EXCEPT !.pc = "take", !.op = op]
  OBVIOUS
<1>3. y.cookie = NoCookie
  BY <1>2 DEF Idle
<1>4. task[t].cookie = NoCookie
  BY HandlerFacts DEF HandlerInv, Begin
<1>5. NoCookie \notin Cookies
  BY ParametersAreTyped
<1>6. task' = [task EXCEPT ![t] = y]
  BY <1>1, <1>2
<1>7. UNCHANGED <<valid, limited, settled, overlapped>>
  BY DEF Begin, history, actor
<1> QED
  BY <1>3, <1>4, <1>5, <1>6, <1>7, OwnExact

LEMMA BeginStatusExact ==
    ASSUME ClientInv, ExactInv, NEW t \in Tasks, BeginStatus(t)
    PROVE  ExactInv'
<1>1. PICK c \in Cookies :
        /\ valid[c] # NoRecord \/ limited[c] # NoRecord
        /\ \E v \in Refreshed(valid[c], c), l \in Refreshed(limited[c], c) :
            /\ valid' = [valid EXCEPT ![c] = v]
            /\ limited' = [limited EXCEPT ![c] = l]
            /\ Take(t, [Idle EXCEPT !.op = "status"], c, IF v # NoRecord THEN v ELSE l)
  BY DEF BeginStatus
<1>2. PICK v \in Refreshed(valid[c], c), l \in Refreshed(limited[c], c) :
            /\ valid' = [valid EXCEPT ![c] = v]
            /\ limited' = [limited EXCEPT ![c] = l]
            /\ Take(t, [Idle EXCEPT !.op = "status"], c, IF v # NoRecord THEN v ELSE l)
  BY <1>1
<1>3. /\ GoodOrNone(v, c) /\ GoodOrNone(l, c)
      /\ v # NoRecord \/ l # NoRecord
  BY <1>1, RefreshedIsGood DEF ClientInv, ActorInv
<1>4. PICK r : r = IF v # NoRecord THEN v ELSE l
  OBVIOUS
<1>5. Good(r, c)
  BY <1>3, <1>4 DEF GoodOrNone
<1>6. PICK x : x = [Idle EXCEPT !.op = "status"]
  OBVIOUS
<1>7. x \in Handlers /\ x.op = "status" /\ x.kept = NoRecord /\ x.outcome = "pending"
  BY <1>6, IdleIsTyped DEF Idle, Handlers
<1>8. valid'[c] = v /\ limited'[c] = l
  BY <1>2 DEF ClientInv, ActorInv
<1>9. UNCHANGED <<settled, grants, window>> /\ task[t].pc = "idle"
  BY DEF BeginStatus
<1>10. \A d \in Cookies : ActorExact(d) =>
                ActorExact(d)' /\ (valid[d] # NoRecord => valid'[d] # NoRecord)
  BY <1>2, <1>9, RefreshedExact
<1> QED
  BY <1>2, <1>4, <1>5, <1>6, <1>7, <1>8, <1>9, <1>10, TakeExact

LEMMA RequestCookieExact ==
    ASSUME ClientInv, ExactInv, NEW t \in Tasks, RequestCookie(t)
    PROVE  ExactInv'
<1> DEFINE x == task[t]
<1>1. /\ x \in Handlers /\ x.pc = "take" /\ x.kept = NoRecord /\ x.op # "none"
      /\ x.outcome # "failed" /\ x.cookie = NoCookie /\ x.tries \in Nat
  BY HandlerFacts DEF RequestCookie, HandlerInv, Handlers
<1>2. UNCHANGED actor /\ UNCHANGED <<settled, grants, window>>
  BY DEF RequestCookie
<1>3. \A d \in Cookies : ActorExact(d) =>
            ActorExact(d)' /\ (valid[d] # NoRecord => valid'[d] # NoRecord)
  BY <1>2 DEF ActorExact, actor
<1>4. ASSUME NEW outcome, End(t, outcome), UNCHANGED overlapped
      PROVE  ExactInv'
  <2>1. PICK y : y = Ended(x, outcome) /\ task' = [task EXCEPT ![t] = y]
    BY <1>4 DEF End, ClientInv, HandlersInv
  <2>2. y.cookie = NoCookie
    BY <2>1 DEF Ended, Idle
  <2>3. NoCookie \notin Cookies
    BY ParametersAreTyped
  <2> QED
    BY <1>1, <1>2, <1>4, <2>1, <2>2, <2>3, OwnExact DEF actor
<1>5. ASSUME NEW c \in Cookies, valid[c] # NoRecord, Take(t, [x EXCEPT !.tries = @ + 1], c, valid[c])
      PROVE  ExactInv'
  <2> DEFINE n == x.tries + 1
  <2>1. n \in Nat
    BY <1>1
  <2> HIDE DEF n
  <2>2. PICK y \in Handlers : y = [x EXCEPT !.tries = n]
    BY <1>1, <2>1 DEF Handlers
  <2>3. y.op = x.op /\ y.kept = x.kept /\ y.outcome = x.outcome
    BY <1>1, <2>2 DEF Handlers
  <2>4. y = [x EXCEPT !.tries = @ + 1]
    BY <2>2 DEF n
  <2>5. PICK r : r = valid[c]
    OBVIOUS
  <2>6. Good(r, c)
    BY <1>5, <2>5 DEF ClientInv, ActorInv, GoodOrNone
  <2> QED
    BY <1>1, <1>2, <1>3, <1>5, <2>3, <2>4, <2>5, <2>6, TakeExact DEF actor
<1> QED
  BY <1>4, <1>5 DEF RequestCookie

LEMMA AuthorizeExact ==
    ASSUME ClientInv, ExactInv, NEW t \in Tasks, Authorize(t)
    PROVE  ExactInv'
<1> DEFINE x == task[t]
<1>1. x \in Handlers /\ x.pc = "authorize" /\ Good(x.copy, x.cookie) /\ x.copy \in Records
  BY HandlerFacts DEF Authorize, Good
<1>2. UNCHANGED <<settled, overlapped>>
  BY DEF Authorize
<1>3. ASSUME task' = [task EXCEPT ![t] = WithToken(@, NextGrant)], UNCHANGED actor
      PROVE  ExactInv'
  <2>1. PICK y : y = WithToken(x, NextGrant)
    OBVIOUS
  <2>2. /\ y.cookie = x.cookie /\ y.op = x.op /\ y.kept = x.kept
        /\ y.copy.total = x.copy.total
    BY <1>1, <2>1 DEF WithToken, Handlers, Records
  <2>3. task' = [task EXCEPT ![t] = y]
    BY <1>3, <2>1
  <2> QED
    BY <1>1, <1>2, <1>3, <2>2, <2>3, GoOnExact
<1>4. ASSUME Fail(t) \/ Refuse(t) PROVE ExactInv'
  BY <1>1, <1>2, <1>4, FailExact, RefuseExact
<1> QED
  BY <1>3, <1>4 DEF Authorize

LEMMA RefreshTokenExact ==
    ASSUME ClientInv, ExactInv, NEW t \in Tasks, Refresh(t)
    PROVE  ExactInv'
<1> DEFINE x == task[t]
<1>1. x \in Handlers /\ x.pc = "refresh" /\ Good(x.copy, x.cookie) /\ x.copy \in Records
  BY HandlerFacts DEF Refresh, Good
<1>2. UNCHANGED <<settled, overlapped>>
  BY DEF Refresh, history
<1>3. ASSUME task' = [task EXCEPT ![t] = WithToken(@, NextGrant)], UNCHANGED actor
      PROVE  ExactInv'
  <2>1. PICK y : y = WithToken(x, NextGrant)
    OBVIOUS
  <2>2. /\ y.cookie = x.cookie /\ y.op = x.op /\ y.kept = x.kept
        /\ y.copy.total = x.copy.total
    BY <1>1, <2>1 DEF WithToken, Handlers, Records
  <2>3. task' = [task EXCEPT ![t] = y]
    BY <1>3, <2>1
  <2> QED
    BY <1>1, <1>2, <1>3, <2>2, <2>3, GoOnExact
<1>4. ASSUME UNCHANGED actor,
             task' = [task EXCEPT ![t].pc = "authorize", ![t].copy.token = 0]
      PROVE  ExactInv'
  <2>1. PICK s \in Records : s = [x.copy EXCEPT !.token = 0]
    BY <1>1 DEF Records
  <2>2. s.total = x.copy.total
    BY <1>1, <2>1 DEF Records
  <2>3. PICK y : y = [x EXCEPT !.pc = "authorize", !.copy = s]
    OBVIOUS
  <2>4. y.cookie = x.cookie /\ y.op = x.op /\ y.kept = x.kept /\ y.copy = s
    BY <1>1, <2>3 DEF Handlers
  <2>5. task' = [task EXCEPT ![t] = y]
    BY <1>4, <2>1, <2>3 DEF ClientInv, HandlersInv
  <2> QED
    BY <1>1, <1>2, <1>4, <2>2, <2>4, <2>5, GoOnExact
<1>5. ASSUME Fail(t) PROVE ExactInv'
  BY <1>1, <1>2, <1>5, FailExact
<1> QED
  BY <1>3, <1>4, <1>5 DEF Refresh

LEMMA PublishExact ==
    ASSUME ClientInv, ExactInv, NEW t \in Tasks, Publish(t)
    PROVE  ExactInv'
<1> DEFINE x == task[t]
<1>1. x \in Handlers /\ x.pc = "publish" /\ x.copy \in Records
  BY HandlerFacts DEF Publish, Good
<1>2. UNCHANGED <<settled, overlapped>> /\ Return(x.cookie, x.copy)
  BY DEF Publish, history
<1>3. PICK y : y = [x EXCEPT !.pc = "send"]
  OBVIOUS
<1>4. y.cookie = x.cookie /\ y.op = x.op /\ y.kept = x.kept /\ y.copy = x.copy
  BY <1>1, <1>3 DEF Handlers
<1>5. task' = [task EXCEPT ![t] = y]
  BY <1>3 DEF Publish, ClientInv, HandlersInv
<1> QED
  BY <1>1, <1>2, <1>4, <1>5, GoOnExact

LEMMA SendExact ==
    ASSUME ClientInv, ExactInv, NEW t \in Tasks, Send(t)
    PROVE  ExactInv'
<1> DEFINE x == task[t]
<1>1. /\ x \in Handlers /\ x.pc = "send" /\ x.cookie \in Cookies
      /\ Good(x.copy, x.cookie) /\ x.copy \in Records
  BY HandlerFacts DEF Send, Good
<1>2. UNCHANGED <<settled, overlapped>>
  BY DEF Send, history
<1>3. ASSUME task' = [task EXCEPT ![t].pc = "read"], UNCHANGED actor
      PROVE  ExactInv'
  <2>1. PICK y : y = [x EXCEPT !.pc = "read"]
    OBVIOUS
  <2>2. y.cookie = x.cookie /\ y.op = x.op /\ y.kept = x.kept /\ y.copy = x.copy
    BY <1>1, <2>1 DEF Handlers
  <2>3. task' = [task EXCEPT ![t] = y]
    BY <1>3, <2>1 DEF ClientInv, HandlersInv
  <2> QED
    BY <1>1, <1>2, <1>3, <2>2, <2>3, GoOnExact
<1>4. ASSUME CountTokens(t) PROVE ExactInv'
  <2>1. PICK flag \in {"yes", "no"} : PersistAllowed(x, flag)
    BY <1>4 DEF CountTokens
  <2>2. PICK r : r = [x.copy EXCEPT !.allowed = flag]
    OBVIOUS
  <2>3. r \in Records /\ r.total = x.copy.total
    BY <1>1, <2>2, AllowedIsGood DEF Good
  <2>4. task' = [task EXCEPT ![t] = Idle]
    BY <1>1, <1>4, EndedIsIdle DEF CountTokens, End, ClientInv, HandlersInv
  <2> QED
    BY <1>1, <1>2, <2>1, <2>2, <2>3, <2>4, EndExact, EndReturnExact DEF PersistAllowed
<1>5. ASSUME Fail(t) \/ Refuse(t) PROVE ExactInv'
  BY <1>1, <1>2, <1>5, FailExact, RefuseExact
<1>6. ASSUME GiveUp(t, "useless", x.hurt) PROVE ExactInv'
  BY <1>1, <1>2, <1>6, GiveUpExact
<1> QED
  BY <1>3, <1>4, <1>5, <1>6 DEF Send

LEMMA ReadExact ==
    ASSUME ClientInv, ExactInv, NEW t \in Tasks, Read(t)
    PROVE  ExactInv'
<1> DEFINE x == task[t]
<1>1. /\ x \in Handlers /\ HandlerInv(x) /\ x.pc = "read" /\ x.op \in {"chat", "stream"}
      /\ x.cookie \in Cookies /\ Good(x.copy, x.cookie) /\ x.copy \in Records
  BY HandlerFacts DEF Read, HandlerInv, Good
<1>2. UNCHANGED <<settled, overlapped>>
  BY DEF Read, history
<1>3. ASSUME UNCHANGED actor, NEW r \in Refreshed(x.copy, x.cookie),
             task' = [task EXCEPT ![t] =
                        Checked([x EXCEPT !.kept = r, !.due = Due(x.copy, x.cookie)])]
      PROVE  ExactInv'
  <2>1. GoodOrNone(r, x.cookie) /\ r \in Records /\ r.total = x.copy.total
        /\ Due(x.copy, x.cookie) \in SUBSET Windows
    BY <1>1, <1>3, RefreshedIsGood, SentinelAssumption DEF ClientInv, GoodOrNone, Good, Due
  <2>2. PICK z \in Handlers : z = [x EXCEPT !.kept = r, !.due = Due(x.copy, x.cookie)]
    BY <1>1, <2>1 DEF Handlers
  <2>3. /\ z.copy = x.copy /\ z.kept = r /\ z.op = x.op /\ z.cookie = x.cookie
        /\ z.outcome = x.outcome /\ z.due = Due(x.copy, x.cookie)
    BY <1>1, <2>1, <2>2 DEF Handlers
  <2>4. PICK y : y = Checked(z)
    OBVIOUS
  <2>5. y.cookie = x.cookie /\ y.copy = x.copy /\ y.kept = r /\ y.op = x.op
    BY <1>1, <2>1, <2>3, <2>4, CheckedIsSound DEF ClientInv, HandlerInv, Marked
  <2>6. task' = [task EXCEPT ![t] = y]
    BY <1>3, <2>2, <2>4
  <2> QED
    BY <1>1, <1>2, <1>3, <2>1, <2>5, <2>6, GoOnExact
<1>4. ASSUME UNCHANGED actor, task' = [task EXCEPT ![t] = [x EXCEPT !.pc = "add"]]
      PROVE  ExactInv'
  <2>1. PICK y : y = [x EXCEPT !.pc = "add"]
    OBVIOUS
  <2>2. y.cookie = x.cookie /\ y.op = x.op /\ y.kept = x.kept /\ y.copy = x.copy
    BY <1>1, <2>1 DEF Handlers
  <2> QED
    BY <1>1, <1>2, <1>4, <2>1, <2>2, GoOnExact
<1>5. ASSUME End(t, "served"), UNCHANGED actor
      PROVE  ExactInv'
  <2>1. task' = [task EXCEPT ![t] = Idle]
    BY <1>1, <1>5, EndedIsIdle DEF End, ClientInv, HandlersInv
  <2> QED
    BY <1>2, <1>5, <2>1, EndExact
<1>6. ASSUME Fail(t) PROVE ExactInv'
  BY <1>1, <1>2, <1>6, FailExact
<1> QED
  BY <1>3, <1>4, <1>5, <1>6 DEF Read

LEMMA MetricsExact ==
    ASSUME ClientInv, ExactInv, NEW t \in Tasks, Metrics(t)
    PROVE  ExactInv'
<1> DEFINE x == task[t]
<1>1. /\ x \in Handlers /\ HandlerInv(x) /\ x.pc = "metrics" /\ x.cookie \in Cookies
      /\ Good(x.copy, x.cookie) /\ x.copy \in Records
  BY HandlerFacts DEF Metrics, Good
<1>2. UNCHANGED <<settled, overlapped>>
  BY DEF Metrics, history
<1>3. ASSUME Return(x.cookie, x.copy), End(t, "served")
      PROVE  ExactInv'
  <2>1. task' = [task EXCEPT ![t] = Idle]
    BY <1>1, <1>3, EndedIsIdle DEF End, ClientInv, HandlersInv
  <2> QED
    BY <1>1, <1>2, <1>3, <2>1, EndReturnExact
<1>4. ASSUME Return(x.cookie, x.copy), x.op # "status", NEW given \in SUBSET Windows,
             task' = [task EXCEPT ![t] = [x EXCEPT
                        !.pc = "add", !.kept = NoRecord, !.due = {},
                        !.copy = Boundary(x.copy, x.cookie, x.due, given)]]
      PROVE  ExactInv'
  <2>1. Marked(x) /\ x.due \in SUBSET Windows
    BY <1>1, <1>4 DEF HandlerInv, ForRequest, Handlers
  <2>2. PICK s : s = Boundary(x.copy, x.cookie, x.due, given)
    OBVIOUS
  <2>3. s.total = x.copy.total
    BY <1>1, <2>1, <2>2, BoundaryIsGood DEF ClientInv, Marked
  <2>4. PICK y : y = [x EXCEPT !.pc = "add", !.kept = NoRecord, !.due = {}, !.copy = s]
    OBVIOUS
  <2>5. y.copy = s /\ y.op = x.op /\ y.cookie = x.cookie /\ y.kept = NoRecord
    BY <1>1, <2>4 DEF Handlers
  <2>6. task' = [task EXCEPT ![t] = y]
    BY <1>4, <2>2, <2>4
  <2> QED
    BY <1>1, <1>2, <1>4, <2>3, <2>5, <2>6, GoOnExact
<1>5. ASSUME Fail(t) PROVE ExactInv'
  BY <1>1, <1>2, <1>5, FailExact
<1> QED
  BY <1>3, <1>4, <1>5 DEF Metrics

\* The answer is counted in the record that is handed out next.
LEMMA AddUsageExact ==
    ASSUME ClientInv, ExactInv, NEW t \in Tasks, AddUsage(t)
    PROVE  ExactInv'
<1> DEFINE x == task[t]
<1>1. /\ x \in Handlers /\ HandlerInv(x) /\ x.pc = "add" /\ x.op # "status"
      /\ x.cookie \in Cookies /\ Good(x.copy, x.cookie) /\ x.copy \in Records
  BY HandlerFacts DEF AddUsage, Good, HandlerInv
<1>2. PICK c \in Cookies : c = x.cookie
  BY <1>1
<1>3. settled' = [settled EXCEPT ![c] = @ + 1] /\ UNCHANGED overlapped
  BY <1>2 DEF AddUsage
<1>4. PICK sonnet \in BOOLEAN :
        /\ Return(c, Added(x.copy, c, Counting(sonnet)))
        /\ blind' = blind \cup {<<c, w>> : w \in Unknown(x.copy) \cap Counting(sonnet)}
  BY <1>2 DEF AddUsage
<1>5. Numbers' /\ Grows
  BY <1>3, <1>4 DEF AddUsage, ClientInv, Numbers, Grows
<1>6. settled'[c] = settled[c] + 1
  BY <1>3 DEF ClientInv, Numbers
<1>7. PICK s : s = Added(x.copy, c, Counting(sonnet)) /\ Good(s, c)' /\ s.total = x.copy.total + 1
  <2>1. PICK counting \in SUBSET Windows : counting = Counting(sonnet)
    BY DEF Counting
  <2>2. \A w \in Unknown(x.copy) \cap counting : <<c, w>> \in blind'
    BY <1>4, <2>1
  <2> QED
    BY <1>1, <1>2, <1>5, <1>6, <2>1, <2>2, AddedIsGood DEF ClientInv
<1>8. s \in Records /\ Return(c, s)
  BY <1>4, <1>7 DEF Good
<1>9. ASSUME c \notin overlapped PROVE ActorExact(c)'
  <2>1. ActorExact(c) /\ HandlerExact(x, c)
    BY <1>1, <1>2, <1>9, ExactFacts
  <2>2. limited[c] = NoRecord /\ s.total = settled'[c]
    BY <1>1, <1>6, <1>7, <2>1 DEF ActorExact, HandlerExact
  <2> QED
    BY <1>8, <2>1, <2>2, ReturnExact
<1>10. task' = [task EXCEPT ![t] = Idle]
  BY <1>1, EndedIsIdle DEF AddUsage, End, ClientInv, HandlersInv
<1>11. Idle.cookie = NoCookie /\ c # NoCookie
  BY ParametersAreTyped DEF Idle
<1>12. \A d \in Cookies \ {c} :
            valid'[d] = valid[d] /\ limited'[d] = limited[d] /\ settled'[d] = settled[d]
  BY <1>3, <1>8, ReturnElsewhere DEF ClientInv, Numbers
<1> QED
  BY <1>2, <1>3, <1>9, <1>10, <1>11, <1>12, OwnExact

LEMMA CancelExact ==
    ASSUME ClientInv, ExactInv, NEW t \in Tasks, Cancel(t)
    PROVE  ExactInv'
BY EndExact DEF Cancel, history

LEMMA AloneExact ==
    ASSUME ClientInv, ExactInv, NEW c \in Cookies, CheckReset(c) \/ Reset(c)
    PROVE  ExactInv'
<1>1. UNCHANGED <<task, settled, overlapped>>
  BY DEF CheckReset, Reset, history
<1>2. CASE CheckReset(c)
  BY <1>1, <1>2, RefreshedExact, ActorStepExact DEF CheckReset
<1>3. CASE Reset(c)
  <2>1. PICK s : s = Cleared(limited[c])
    OBVIOUS
  <2>2. s \in Records /\ s.total = limited[c].total /\ limited[c] # NoRecord
    BY <1>3, <2>1, ClearedIsGood DEF ClientInv, ActorInv, GoodOrNone, Reset, Good
  <2>3. \A d \in Cookies : /\ valid'[d] = IF d = c THEN s ELSE valid[d]
                           /\ limited'[d] = IF d = c THEN NoRecord ELSE limited[d]
    BY <1>3, <2>1 DEF Reset, ClientInv, ActorInv
  <2> QED
    BY <1>1, <2>2, <2>3, SentinelAssumption, ActorStepExact DEF ActorExact
<1> QED
  BY <1>2, <1>3

LEMMA NextExact == ClientInv /\ ExactInv /\ [Next]_vars => ExactInv'
<1> SUFFICES ASSUME ClientInv, ExactInv, [Next]_vars
             PROVE  ExactInv'
  OBVIOUS
<1>1. ASSUME NEW k \in DOMAIN grants, Age(k) PROVE ExactInv'
  BY <1>1, ActorStepExact DEF Age, actor, history, ActorExact
<1>2. ASSUME NEW c \in Cookies, NEW w \in Windows, NewWindow(c, w) PROVE ExactInv'
  BY <1>2, ActorStepExact DEF NewWindow, actor, history, ActorExact
<1>3. ASSUME UNCHANGED vars PROVE ExactInv'
  BY <1>3, ActorStepExact DEF vars, actor, history, ActorExact
<1> QED
  BY <1>1, <1>2, <1>3, BeginExact, BeginStatusExact, RequestCookieExact, AuthorizeExact,
     RefreshTokenExact, PublishExact, SendExact, ReadExact, MetricsExact, AddUsageExact,
     CancelExact, AloneExact
     DEF Next, Step

LEMMA ExactInvariant == Spec => []ExactInv
BY InitExact, NextExact, ClientInvariant, PTL DEF Spec

\* lifetime_usage never counts an answer twice, and while requests have the
\* Cookie one at a time it counts every answer that was recorded
\* (persist_usage_totals, return_cookie and the Cookie actor's collect).
THEOREM UsageIsCounted == Spec => []UsageCounted
<1>1. ClientInv /\ ExactInv => UsageCounted
  BY DEF ClientInv, ActorInv, GoodOrNone, Good, ExactInv, Exact, ActorExact, UsageCounted
<1> QED
  BY <1>1, ClientInvariant, ExactInvariant, PTL

=============================================================================
