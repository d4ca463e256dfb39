---------------------------- MODULE QuantumMPI ----------------------------
(***************************************************************************)
(* The MPI-like layer of lib/quantum_mpi: Size rank objects in one         *)
(* process, one thread each, that communicate through the mailbox of their *)
(* world, g_world_mailboxes[world_id_], under the lock g_mailbox_mutex.    *)
(*                                                                         *)
(* A step is one critical section of the lock, together with the thread's  *)
(* own work up to the next one: point-to-point calls are single steps, the *)
(* root's loops in bcast and reduce are one step per message, and calls of *)
(* other ranks come between them.                                          *)
(*                                                                         *)
(* The mailbox is a vector that is only appended to and erased from.  It   *)
(* is modelled as the set of its messages, each with its arrival number:   *)
(* the order of the vector is the order of the arrival numbers.            *)
(***************************************************************************)
EXTENDS Integers, FiniteSets

CONSTANTS
  Size,      \* size_: the number of ranks of the world
  UserTags,  \* the tags that callers pass to send and recv
  Roots,     \* the roots that callers pass to bcast and reduce
  Forms,     \* the forms of payload that callers pass
  Calls,     \* the operations that callers use
  MaxCalls   \* bound on the calls of one rank, to keep the model finite

Rank == 0 .. Size - 1

(***************************************************************************)
(* What a payload string is to the code: a number to                       *)
(* parse_numeric_payload, some other text, or the empty string.            *)
(***************************************************************************)
Form == {"number", "text", "empty"}

Operation == {"init", "finalize", "drop", "barrier",
              "send", "recv", "bcast", "reduce"}

ASSUME SizeAssumption == Size \in Nat \ {0}
ASSUME UserTagsAssumption == UserTags \subseteq Int
ASSUME RootsAssumption == Roots \subseteq Rank
ASSUME FormsAssumption == Forms \subseteq Form
ASSUME CallsAssumption == Calls \subseteq Operation
ASSUME MaxCallsAssumption == MaxCalls \in Nat

VARIABLES
  initialized,  \* initialized_ of each rank object
  mailbox,      \* the messages of g_world_mailboxes[world_id_]
  present,      \* whether g_world_mailboxes has the key world_id_
  arrivals,     \* the number of push_back calls so far
  pc,           \* the loop that each rank's thread is in, if any
  cursor,       \* dst (bcast) or source (reduce): the peer of the next iteration
  values,       \* the payloads that the loop holds
  returned,     \* how the last call of each rank ended, and what it returned
  calls,        \* the number of calls each rank has begun (up to MaxCalls)
  \* History variables: no action reads them to decide what to do.
  done,         \* done[op][p][r]: the calls of op on peer p that r completed
  horizon,      \* horizon[r]: the value of arrivals when r last finalized
  dropped,      \* the ranks whose object was destroyed without finalize()
  lost          \* the channels on which a message was sent and thrown away

vars == <<initialized, mailbox, present, arrivals, pc, cursor, values,
          returned, calls, done, horizon, dropped, lost>>

mailboxVars == <<mailbox, present, arrivals>>
loopVars == <<pc, cursor, values>>
historyVars == <<done, horizon, dropped, lost>>

---------------------------------------------------------------------------
(* Data *)

BcastTag == 0
ReduceTag == -404

Tag == UserTags \cup {BcastTag, ReduceTag}
Channel == Rank \X Rank \X Tag

(***************************************************************************)
(* A payload is named by the call that made it: the n-th call of op by     *)
(* rank by on the same peer (the destination, or the root).                *)
(***************************************************************************)
Origin == {"send", "bcast", "reduce"}
Payload == [op : Origin, by : Rank, n : Nat, form : Form]

Message == [src : Rank, dst : Rank, tag : Tag, payload : Payload, at : Nat]

ChannelOf(m) == <<m.src, m.dst, m.tag>>

Outcome == {"none", "ok", "not_initialized", "out_of_range", "invalid", "no_match"}
Return == [op : Operation \cup {"none"}, outcome : Outcome, values : SUBSET Payload]

NewPayload(op, r, peer, form) ==
  [op |-> op, by |-> r, n |-> done[op][peer][r] + 1, form |-> form]

---------------------------------------------------------------------------
(* The critical sections *)

PushBack(r, dst, tag, payload) ==
  /\ mailbox' = mailbox \cup
       {[src |-> r, dst |-> dst, tag |-> tag, payload |-> payload, at |-> arrivals + 1]}
  /\ arrivals' = arrivals + 1
  /\ present' = TRUE

\* Faulty variant: the tag is left out of the comparison.
MatchesAnyTag(m, src, dst, tag) == m.src = src /\ m.dst = dst

\* The predicate of find_if in recv.
Matches(m, src, dst, tag) == m.src = src /\ m.dst = dst /\ m.tag = tag

Matching(src, dst, tag) == {m \in mailbox : Matches(m, src, dst, tag)}

\* Faulty variant: the search runs from the back of the vector.
IsLast(m, found) == \A x \in found : m.at >= x.at

\* find_if stops at the first match of the vector.
IsFirst(m, found) == \A x \in found : m.at <= x.at

\* Both outcomes of recv go through operator[], which creates the key.
TakeFirst(m, src, dst, tag) ==
  /\ m \in Matching(src, dst, tag)
  /\ IsFirst(m, Matching(src, dst, tag))
  /\ mailbox' = mailbox \ {m}
  /\ present' = TRUE
  /\ UNCHANGED arrivals

\* Faulty variant: recv waits for a message instead of throwing.
FindNothingWaits(src, dst, tag) ==
  /\ FALSE
  /\ UNCHANGED <<mailbox, present, arrivals>>

FindNothing(src, dst, tag) ==
  /\ Matching(src, dst, tag) = {}
  /\ present' = TRUE
  /\ UNCHANGED <<mailbox, arrivals>>

\* Faulty variant: only the messages that wait for r are erased.
IsAddressedTo(m, r) == m.dst = r

\* The predicate of remove_if in finalize.
Involves(m, r) == m.src = r \/ m.dst = r

\* Faulty variant: finalize never erases the key.
KeyStays(kept) == present

\* finalize erases the key of a mailbox that it leaves empty.
KeyAfter(kept) == present /\ kept # {}

---------------------------------------------------------------------------
(* Calls *)

\* Rank r makes a call of op: its thread is in none.
Begin(r, op) ==
  /\ op \in Calls
  /\ pc[r] = "idle"
  /\ calls[r] < MaxCalls
  /\ calls' = [calls EXCEPT ![r] = @ + 1]

Returns(r, op, outcome, result) ==
  returned' = [returned EXCEPT ![r] = [op |-> op, outcome |-> outcome, values |-> result]]

\* A call that throws has no result: how it ended is kept, and not which it was.
Throws(r, outcome) == Returns(r, "none", outcome, {})

Completes(r, op, peer) == done' = [done EXCEPT ![op][peer][r] = @ + 1]

\* The loops visit every rank but r, in ascending order.
NextPeer(r, k) == IF k = r THEN k + 1 ELSE k

EnterLoop(r, loop, payload) ==
  /\ pc' = [pc EXCEPT ![r] = loop]
  /\ cursor' = [cursor EXCEPT ![r] = NextPeer(r, 0)]
  /\ values' = [values EXCEPT ![r] = {payload}]

LeaveLoop(r) ==
  /\ pc' = [pc EXCEPT ![r] = "idle"]
  /\ cursor' = [cursor EXCEPT ![r] = 0]
  /\ values' = [values EXCEPT ![r] = {}]

\* Faulty variant: the loop stops one rank short.
LastPeerButOne(r) == NextPeer(r, cursor[r] + 1) >= Size - 1

\* Faulty variant: the loop goes one rank too far.
LastPeerLate(r) == NextPeer(r, cursor[r] + 1) > Size

LastPeer(r) == NextPeer(r, cursor[r] + 1) >= Size

Advance(r) == cursor' = [cursor EXCEPT ![r] = NextPeer(r, cursor[r] + 1)]

---------------------------------------------------------------------------
(* Life cycle of a rank object *)

\* init() makes no other change, and none on an initialized object.
InitRank(r) ==
  /\ "init" \in Calls
  /\ pc[r] = "idle"
  /\ ~initialized[r]
  /\ initialized' = [initialized EXCEPT ![r] = TRUE]
  /\ UNCHANGED <<mailboxVars, loopVars, returned, calls, historyVars>>

(***************************************************************************)
(* finalize() erases every message that r sent or that is addressed to r,  *)
(* received or not, and the key when nothing is left.                      *)
(***************************************************************************)
Finalize(r) ==
  /\ Begin(r, "finalize")
  /\ Returns(r, "finalize", "ok", {})
  /\ \/ /\ ~initialized[r]
        /\ UNCHANGED <<initialized, mailboxVars, horizon, dropped, lost>>
     \/ /\ initialized[r]
        /\ initialized' = [initialized EXCEPT ![r] = FALSE]
        /\ mailbox' = {m \in mailbox : ~Involves(m, r)}
        /\ present' = KeyAfter(mailbox')
        /\ horizon' = [horizon EXCEPT ![r] = arrivals]
        /\ dropped' = dropped \ {r}
        /\ lost' = lost \cup {ChannelOf(m) : m \in mailbox \ mailbox'}
        /\ UNCHANGED arrivals
  /\ UNCHANGED <<loopVars, done>>

(***************************************************************************)
(* An initialized object is destroyed without finalize(), and a new one    *)
(* constructed for the same rank: the class has no destructor of its own,  *)
(* so the mailbox keeps the messages of the old object.                    *)
(***************************************************************************)
Drop(r) ==
  /\ Begin(r, "drop")
  /\ initialized[r]
  /\ initialized' = [initialized EXCEPT ![r] = FALSE]
  /\ dropped' = dropped \cup {r}
  /\ UNCHANGED <<mailboxVars, loopVars, returned, done, horizon, lost>>

---------------------------------------------------------------------------
(* Communication *)

(***************************************************************************)
(* The two checks that every communication call makes first (barrier, only *)
(* the first of them): they throw before any other state changes.          *)
(***************************************************************************)
Rejected(r) ==
  /\ \E op \in {"barrier", "send", "recv", "bcast", "reduce"}, peer \in -1 .. Size :
       /\ Begin(r, op)
       /\ \/ /\ ~initialized[r]
             /\ Throws(r, "not_initialized")
          \/ /\ initialized[r]
             /\ op # "barrier"
             /\ peer \notin Rank
             /\ Throws(r, "out_of_range")
  /\ UNCHANGED <<initialized, mailboxVars, loopVars, historyVars>>

\* barrier() returns at once.
Barrier(r) ==
  /\ Begin(r, "barrier")
  /\ initialized[r]
  /\ Returns(r, "barrier", "ok", {})
  /\ UNCHANGED <<initialized, mailboxVars, loopVars, historyVars>>

Send(r) ==
  /\ Begin(r, "send")
  /\ initialized[r]
  /\ \E dst \in Rank, tag \in UserTags, form \in Forms :
       \/ /\ form = "empty"
          /\ Throws(r, "invalid")
          /\ UNCHANGED <<mailboxVars, done>>
       \/ /\ form # "empty"
          /\ PushBack(r, dst, tag, NewPayload("send", r, dst, form))
          /\ Returns(r, "send", "ok", {})
          /\ Completes(r, "send", dst)
  /\ UNCHANGED <<initialized, loopVars, horizon, dropped, lost>>

Recv(r) ==
  /\ Begin(r, "recv")
  /\ initialized[r]
  /\ \E src \in Rank, tag \in UserTags :
       \/ /\ FindNothing(src, r, tag)
          /\ Throws(r, "no_match")
       \/ \E m \in mailbox :
            /\ TakeFirst(m, src, r, tag)
            /\ Returns(r, "recv", "ok", {m.payload})
  /\ UNCHANGED <<initialized, loopVars, historyVars>>

---------------------------------------------------------------------------
(* bcast *)

\* The root enters its loop.  An empty payload makes the first send throw.
BcastRoot(r) ==
  /\ Begin(r, "bcast")
  /\ initialized[r]
  /\ r \in Roots
  /\ \E form \in Forms :
       LET payload == NewPayload("bcast", r, r, form) IN
       \/ /\ Size = 1
          /\ Returns(r, "bcast", "ok", {payload})
          /\ Completes(r, "bcast", r)
          /\ UNCHANGED loopVars
       \/ /\ Size > 1
          /\ form = "empty"
          /\ Throws(r, "invalid")
          /\ UNCHANGED <<loopVars, done>>
       \/ /\ Size > 1
          /\ form # "empty"
          /\ EnterLoop(r, "bcast", payload)
          /\ UNCHANGED <<returned, done>>
  /\ UNCHANGED <<initialized, mailboxVars, horizon, dropped, lost>>

BcastSend(r) ==
  /\ pc[r] = "bcast"
  /\ \E payload \in values[r] :
       /\ PushBack(r, cursor[r], BcastTag, payload)
       /\ \/ /\ ~LastPeer(r)
             /\ Advance(r)
             /\ UNCHANGED <<pc, values, returned, done>>
          \/ /\ LastPeer(r)
             /\ LeaveLoop(r)
             /\ Returns(r, "bcast", "ok", {payload})
             /\ Completes(r, "bcast", r)
  /\ UNCHANGED <<initialized, calls, horizon, dropped, lost>>

\* A rank other than the root: one recv, which may find nothing.
BcastRecv(r) ==
  /\ Begin(r, "bcast")
  /\ initialized[r]
  /\ \E root \in Roots \ {r} :
       \/ /\ FindNothing(root, r, BcastTag)
          /\ Throws(r, "no_match")
          /\ UNCHANGED done
       \/ \E m \in mailbox :
            /\ TakeFirst(m, root, r, BcastTag)
            /\ Returns(r, "bcast", "ok", {m.payload})
            /\ Completes(r, "bcast", root)
  /\ UNCHANGED <<initialized, loopVars, horizon, dropped, lost>>

---------------------------------------------------------------------------
(* reduce *)

\* A rank other than the root sends its payload and returns it.
ReduceContribute(r) ==
  /\ Begin(r, "reduce")
  /\ initialized[r]
  /\ \E root \in Roots \ {r}, form \in Forms :
       LET payload == NewPayload("reduce", r, root, form) IN
       \/ /\ form = "empty"
          /\ Throws(r, "invalid")
          /\ UNCHANGED <<mailboxVars, done>>
       \/ /\ form # "empty"
          /\ PushBack(r, root, ReduceTag, payload)
          /\ Returns(r, "reduce", "ok", {payload})
          /\ Completes(r, "reduce", root)
  /\ UNCHANGED <<initialized, loopVars, horizon, dropped, lost>>

\* The root parses its own payload and enters its loop.
ReduceRoot(r) ==
  /\ Begin(r, "reduce")
  /\ initialized[r]
  /\ r \in Roots
  /\ \E form \in Forms :
       LET payload == NewPayload("reduce", r, r, form) IN
       \/ /\ form # "number"
          /\ Throws(r, "invalid")
          /\ UNCHANGED <<loopVars, done>>
       \/ /\ form = "number"
          /\ Size = 1
          /\ Returns(r, "reduce", "ok", {payload})
          /\ Completes(r, "reduce", r)
          /\ UNCHANGED loopVars
       \/ /\ form = "number"
          /\ Size > 1
          /\ EnterLoop(r, "reduce", payload)
          /\ UNCHANGED <<returned, done>>
  /\ UNCHANGED <<initialized, mailboxVars, horizon, dropped, lost>>

\* The channels whose contributions the reduce in progress at r has taken.
Taken(r) == {<<v.by, r, ReduceTag>> : v \in values[r] \ {w \in values[r] : w.by = r}}

(***************************************************************************)
(* One recv of the root's loop.  When it finds nothing, or a payload that  *)
(* is not a number, reduce throws and the contributions that it has taken  *)
(* go with its local vector.                                               *)
(***************************************************************************)
ReduceRecv(r) ==
  /\ pc[r] = "reduce"
  /\ \/ /\ FindNothing(cursor[r], r, ReduceTag)
        /\ LeaveLoop(r)
        /\ Throws(r, "no_match")
        /\ lost' = lost \cup Taken(r)
        /\ UNCHANGED done
     \/ \E m \in mailbox :
          /\ TakeFirst(m, cursor[r], r, ReduceTag)
          /\ \/ /\ m.payload.form # "number"
                /\ LeaveLoop(r)
                /\ Throws(r, "invalid")
                /\ lost' = lost \cup Taken(r) \cup {ChannelOf(m)}
                /\ UNCHANGED done
             \/ /\ m.payload.form = "number"
                /\ ~LastPeer(r)
                /\ Advance(r)
                /\ values' = [values EXCEPT ![r] = @ \cup {m.payload}]
                /\ UNCHANGED <<pc, returned, done, lost>>
             \/ /\ m.payload.form = "number"
                /\ LastPeer(r)
                /\ LeaveLoop(r)
                /\ Returns(r, "reduce", "ok", values[r] \cup {m.payload})
                /\ Completes(r, "reduce", r)
                /\ UNCHANGED lost
  /\ UNCHANGED <<initialized, calls, horizon, dropped>>

---------------------------------------------------------------------------
(* The specification *)

NoReturn == [op |-> "none", outcome |-> "none", values |-> {}]

Init ==
  /\ initialized = [r \in Rank |-> FALSE]
  /\ mailbox = {}
  /\ present = FALSE
  /\ arrivals = 0
  /\ pc = [r \in Rank |-> "idle"]
  /\ cursor = [r \in Rank |-> 0]
  /\ values = [r \in Rank |-> {}]
  /\ returned = [r \in Rank |-> NoReturn]
  /\ calls = [r \in Rank |-> 0]
  /\ done = [op \in Origin |-> [p \in Rank |-> [r \in Rank |-> 0]]]
  /\ horizon = [r \in Rank |-> 0]
  /\ dropped = {}
  /\ lost = {}

RankStep(r) ==
  \/ InitRank(r)
  \/ Finalize(r)
  \/ Drop(r)
  \/ Rejected(r)
  \/ Barrier(r)
  \/ Send(r)
  \/ Recv(r)
  \/ BcastRoot(r)
  \/ BcastSend(r)
  \/ BcastRecv(r)
  \/ ReduceContribute(r)
  \/ ReduceRoot(r)
  \/ ReduceRecv(r)

Next == \E r \in Rank : RankStep(r)

Spec == Init /\ [][Next]_vars

\* A thread inside a loop goes on: nothing in a loop waits for another rank.
LoopStep(r) == BcastSend(r) \/ ReduceRecv(r)

FairSpec == Spec /\ \A r \in Rank : WF_vars(LoopStep(r))

---------------------------------------------------------------------------
(* Properties *)

TypeOK ==
  /\ initialized \in [Rank -> BOOLEAN]
  /\ mailbox \subseteq Message
  /\ present \in BOOLEAN
  /\ arrivals \in Nat
  /\ pc \in [Rank -> {"idle", "bcast", "reduce"}]
  /\ cursor \in [Rank -> Rank]
  /\ values \in [Rank -> SUBSET Payload]
  /\ returned \in [Rank -> Return]
  /\ calls \in [Rank -> 0 .. MaxCalls]
  /\ done \in [Origin -> [Rank -> [Rank -> Nat]]]
  /\ horizon \in [Rank -> Nat]
  /\ dropped \subseteq Rank
  /\ lost \subseteq Channel

(***************************************************************************)
(* finalize() by either end of a message ends it: whatever the other ranks *)
(* were doing meanwhile, the mailbox never holds a message that was sent   *)
(* before its sender or its receiver last finalized, so a rank that calls  *)
(* init() again never meets the mail of its former life.                   *)
(***************************************************************************)
NoStaleMail ==
  \A m \in mailbox : m.at > horizon[m.src] /\ m.at > horizon[m.dst]

(***************************************************************************)
(* g_world_mailboxes does not keep a world that nobody uses: when the last *)
(* of its ranks has finalized, the key is gone, whoever created it (send,  *)
(* or a recv that found nothing) and in whatever order the ranks left.     *)
(***************************************************************************)
WorldReclaimed ==
  present => dropped # {} \/ \E r \in Rank : initialized[r]

(***************************************************************************)
(* A root's reduce() that returns has combined exactly one payload of each *)
(* rank, its own included, all of them numbers, however the sends, the     *)
(* failed attempts and the finalize() calls of other ranks came between    *)
(* the iterations of its loop.                                             *)
(***************************************************************************)
OneOfEach(result) ==
  /\ \A v \in result : v.form = "number"
  /\ \A r \in Rank : \E v \in result : v.by = r
  /\ \A v, w \in result : v.by = w.by => v = w

RootReduced(r) == done["reduce"][r][r] # done'["reduce"][r][r]

ReduceComplete ==
  [][\A r \in Rank : RootReduced(r) => OneOfEach(returned'[r].values)]_vars

(***************************************************************************)
(* Collective calls match up by their number: the k-th reduce() that a     *)
(* root completes combines the k-th contribution of each other rank, and   *)
(* the k-th bcast() that a rank completes for a root returns the root's    *)
(* k-th payload.  That is so on a channel where nothing was sent and       *)
(* thrown away, and when no caller uses the tag of the operation itself.   *)
(***************************************************************************)
InRound(v, op, n) == v.op = op /\ v.n = n

ReduceAligned ==
  ReduceTag \notin UserTags =>
    \A r \in Rank : \A v \in returned[r].values :
      /\ returned[r].op = "reduce"
      /\ v.by # r
      /\ <<v.by, r, ReduceTag>> \notin lost
      => InRound(v, "reduce", done["reduce"][r][r])

BcastAligned ==
  BcastTag \notin UserTags =>
    \A r \in Rank : \A v \in returned[r].values :
      /\ returned[r].op = "bcast"
      /\ v.by # r
      /\ <<v.by, r, BcastTag>> \notin lost
      => InRound(v, "bcast", done["bcast"][v.by][r])

(***************************************************************************)
(* No call waits for another rank: a collective call that has begun ends,  *)
(* with a result or by throwing, even if no other rank ever moves again.   *)
(***************************************************************************)
CallsReturn == \A r \in Rank : []<>(pc[r] = "idle")

---------------------------------------------------------------------------
(* The inductive invariant of the safety properties, in named parts *)

HorizonPast == \A r \in Rank : horizon[r] <= arrivals

\* Only an initialized rank is inside a loop, so only one such rank pushes.
LoopInitialized == \A r \in Rank : pc[r] # "idle" => initialized[r]

\* Each message has a sender whose finalize() will erase it.
MailHasOwner ==
  /\ mailbox # {} => present
  /\ \A m \in mailbox : initialized[m.src] \/ m.src \in dropped

SenderNamed == \A m \in mailbox : m.payload.by = m.src

BcastLoop ==
  \A r \in Rank : pc[r] = "bcast" => \A v \in values[r] : v.by = r

\* The root has one number of itself and of each rank before the cursor.
ReduceLoop ==
  \A r \in Rank : pc[r] = "reduce" =>
    /\ cursor[r] # r
    /\ \A v \in values[r] : v.form = "number" /\ (v.by = r \/ v.by < cursor[r])
    /\ \A p \in Rank : p = r \/ p < cursor[r] => \E v \in values[r] : v.by = p
    /\ \A v, w \in values[r] : v.by = w.by => v = w

MailInv ==
  /\ TypeOK
  /\ HorizonPast
  /\ LoopInitialized
  /\ MailHasOwner
  /\ NoStaleMail
  /\ WorldReclaimed

LoopInv ==
  /\ TypeOK
  /\ SenderNamed
  /\ BcastLoop
  /\ ReduceLoop

\* The mailbox is ordered: no message has a number still to be given.
ArrivalsPast == \A m \in mailbox : m.at <= arrivals

\* The messages ms, in the order of arrival, are the calls low + 1 .. high of op.
Consecutive(ms, op, low, high) ==
  /\ low <= high
  /\ \A m \in ms : m.payload.op = op /\ low < m.payload.n /\ m.payload.n <= high
  /\ \A n \in low + 1 .. high : \E m \in ms : m.payload.n = n
  /\ \A m, x \in ms : m.payload.n = x.payload.n => m = x
  /\ \A m, x \in ms : m.payload.n < x.payload.n => m.at < x.at

\* The contributions of s that d has combined, or taken for the reduce in progress.
Combined(s, d) ==
  IF pc[d] = "reduce" /\ \E v \in values[d] : v.by = s
  THEN done["reduce"][d][d] + 1
  ELSE done["reduce"][d][d]

\* The payloads that s has broadcast to d: the loop passes d before it ends.
Broadcast(s, d) ==
  IF pc[s] = "bcast" /\ d < cursor[s]
  THEN done["bcast"][s][s] + 1
  ELSE done["bcast"][s][s]

\* A channel of reduce holds the contributions that its root has not taken.
ReduceOrder ==
  ReduceTag \notin UserTags =>
    \A s, d \in Rank :
      s # d /\ <<s, d, ReduceTag>> \notin lost =>
        Consecutive(Matching(s, d, ReduceTag), "reduce",
                    Combined(s, d), done["reduce"][d][s])

\* A channel of bcast holds the payloads that its receiver has not taken.
BcastOrder ==
  BcastTag \notin UserTags =>
    \A s, d \in Rank :
      s # d /\ <<s, d, BcastTag>> \notin lost =>
        Consecutive(Matching(s, d, BcastTag), "bcast",
                    done["bcast"][s][d], Broadcast(s, d))

\* The contributions in a loop are those of the round that it will complete.
ReduceRound ==
  ReduceTag \notin UserTags =>
    \A r \in Rank : \A v \in values[r] :
      pc[r] = "reduce" /\ v.by # r /\ <<v.by, r, ReduceTag>> \notin lost =>
        InRound(v, "reduce", done["reduce"][r][r] + 1)

\* The payload in a loop is that of the round that it will complete.
BcastRound ==
  BcastTag \notin UserTags =>
    \A r \in Rank : pc[r] = "bcast" =>
      /\ cursor[r] # r
      /\ \A v \in values[r] : InRound(v, "bcast", done["bcast"][r][r] + 1)

ReduceRounds ==
  /\ ReduceOrder
  /\ ReduceRound
  /\ ReduceAligned

BcastRounds ==
  /\ BcastOrder
  /\ BcastRound
  /\ BcastAligned

---------------------------------------------------------------------------
(* Expectations of the tests that the code does not meet in general *)

(***************************************************************************)
(* test_quantum_mpi.cpp:181-196 has two ranks contribute once each and the *)
(* root combine the two.  As a property: one reduce() never combines       *)
(* contributions of different rounds.                                      *)
(***************************************************************************)
ReduceOneRound ==
  \A r \in Rank : \A v, w \in returned[r].values :
    returned[r].op = "reduce" /\ v.by # r /\ w.by # r => v.n = w.n

(***************************************************************************)
(* test_quantum_mpi.cpp:177-178, "rank1 should receive bcast payload.": as *)
(* a property, what bcast() returns to a rank was broadcast by the root.   *)
(***************************************************************************)
BcastReturnsBroadcast ==
  \A r \in Rank : \A v \in returned[r].values :
    returned[r].op = "bcast" => v.op = "bcast"

===========================================================================
