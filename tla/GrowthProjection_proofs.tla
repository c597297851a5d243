----------------------- MODULE GrowthProjection_proofs -----------------------
(***************************************************************************)
(* The two safety invariants of GrowthProjection, for any number of        *)
(* receipts, accounts and processes and any batch limits.                  *)
(***************************************************************************)
EXTENDS GrowthProjection, TLAPS

\* A process about to write a recipient's event has written, or found, the
\* sender's event saying what it is about to say.
SenderSeen ==
  \A w \in Workers, r \in Receipts :
    /\ worker[w].at \in {"append", "inserting"}
    /\ worker[w].side = "RECEIVED"
    /\ Row(w, r)
    => Committed(<<r, "SENT">>) /\ event[<<r, "SENT">>].synthetic = Flag(w, r)

\* An INSERT under way has drawn its id.
IdDrawn == \A w \in Workers : worker[w].at = "inserting" => worker[w].id > 0

Inv == TypeOK /\ IdDrawn /\ SenderSeen /\ EventsAgree /\ CountedOnce

-----------------------------------------------------------------------------
\* Types.

(* A phase starts with nothing of the phase before it in memory.           *)
LEMMA AtType ==
  ASSUME NEW place \in {"growth", "append", "inserting", "zp", "project"}
  PROVE  At(place) \in Workings
  BY DEF At, Growing, Workings, Sides

(* What projectRow goes on to is a place of the same batch, or its end.    *)
LEMMA AdvancedType ==
  ASSUME TypeOK, NEW w \in Workers, NEW r \in Receipts
  PROVE  Advanced(w, r) \in Workings
<1>1. worker[w] \in Workings
  BY DEF TypeOK
<1>2. Growing("append", worker[w].batch, worker[w].synthetic, "RECEIVED", 0) \in Workings
  BY <1>1 DEF Growing, Workings, Sides
<1>3. Growing("append", worker[w].batch \ {r}, worker[w].synthetic, "SENT", 0) \in Workings
  BY <1>1 DEF Growing, Workings, Sides
<1>4. At("zp") \in Workings
  BY AtType
<1> QED BY <1>2, <1>3, <1>4 DEF Advanced

(* Every step keeps the types.                                             *)
LEMMA TypeStep ==
  ASSUME TypeOK, Next
  PROVE  TypeOK'
<1> USE ReceiptAssumption, LimitAssumption
<1>1. ASSUME NEW r \in Receipts, Settle(r) PROVE TypeOK'
  BY <1>1 DEF TypeOK, Settle
<1>2. ASSUME NEW a \in Accounts, Classify(a) PROVE TypeOK'
  BY <1>2 DEF TypeOK, Classify
<1>3. ASSUME NEW w \in Workers, SelectPending(w) PROVE TypeOK'
  <2>1. Batch \subseteq Receipts
    BY DEF Batch, TypeOK
  <2>2. Growing("append", Batch, {r \in Batch : SyntheticNow(r)}, "SENT", 0) \in Workings
    BY <2>1 DEF Growing, Workings, Sides
  <2>3. At("zp") \in Workings
    BY AtType
  <2> QED BY <1>3, <2>2, <2>3 DEF TypeOK, SelectPending
<1>4. ASSUME NEW w \in Workers, NEW r \in Receipts, FindsExisting(w, r) PROVE TypeOK'
  <2>1. Advanced(w, r) \in Workings /\ At("zp") \in Workings
    BY AdvancedType, AtType
  <2> QED BY <1>4, <2>1 DEF TypeOK, FindsExisting
<1>5. ASSUME NEW w \in Workers, NEW r \in Receipts, DrawsId(w, r) PROVE TypeOK'
  <2>1. UsedIds \subseteq Nat
    BY DEF TypeOK, UsedIds, Events, Workings
  <2>2. PICK last \in UsedIds :
          worker' = [worker EXCEPT ![w] =
            Growing("inserting", @.batch, @.synthetic, @.side, last + 1)]
    BY <1>5 DEF DrawsId
  <2>3. worker[w] \in Workings /\ last + 1 \in Nat
    BY <2>1 DEF TypeOK
  <2>4. Growing("inserting", worker[w].batch, worker[w].synthetic, worker[w].side, last + 1)
          \in Workings
    BY <2>3 DEF Growing, Workings
  <2> QED BY <1>5, <2>2, <2>4 DEF TypeOK, DrawsId
<1>6. ASSUME NEW w \in Workers, NEW r \in Receipts, Commits(w, r) PROVE TypeOK'
  <2>1. Advanced(w, r) \in Workings
    BY AdvancedType
  <2>2. [id |-> worker[w].id, synthetic |-> Flag(w, r)] \in Events
    BY DEF TypeOK, Workings, Events, Flag
  <2> QED BY <1>6, <2>1, <2>2 DEF TypeOK, Commits
<1>7. ASSUME NEW w \in Workers, ListAccounts(w) PROVE TypeOK'
  <2>0. Listed \subseteq Accounts
    BY DEF Listed
  <2>1. Projecting(Listed) \in Workings
    BY <2>0 DEF Projecting, Workings, Sides
  <2>2. At("growth") \in Workings
    BY AtType
  <2> QED BY <1>7, <2>1, <2>2 DEF TypeOK, ListAccounts
<1>8. ASSUME NEW w \in Workers, NEW a \in Accounts PROVE Done(w, a) \in Workings
  <2>1. Projecting(worker[w].accounts \ {a}) \in Workings
    BY DEF Projecting, TypeOK, Workings, Sides
  <2> QED BY <2>1, AtType DEF Done
<1>9. ASSUME NEW w \in Workers, NEW a \in Accounts, ProjectAccount(w, a) PROVE TypeOK'
  <2>1. worker' \in [Workers -> Workings]
    BY <1>8, <1>9 DEF TypeOK, ProjectAccount
  <2>2. cursor' \in [Accounts -> Nat] /\ counted' \in [Facts -> Nat]
    <3>1. CASE UNCHANGED <<cursor, counted>>
      BY <3>1 DEF TypeOK
    <3>2. ASSUME NEW last \in Read(a),
                 cursor' = [cursor EXCEPT ![a] = event[last].id],
                 counted' = [f \in Facts |-> IF f \in Read(a) /\ Eligible(f)
                                             THEN counted[f] + 1 ELSE counted[f]]
          PROVE  cursor' \in [Accounts -> Nat] /\ counted' \in [Facts -> Nat]
      <4>1. event[last].id \in Nat
        BY DEF Read, Beyond, TypeOK, Events
      <4> QED BY <3>2, <4>1 DEF TypeOK
    <3> QED BY <1>9, <3>1, <3>2 DEF ProjectAccount
  <2> QED BY <1>9, <2>1, <2>2 DEF TypeOK, ProjectAccount
<1>10. ASSUME NEW w \in Workers, GrowthFails(w) \/ Crash(w) PROVE TypeOK'
  <2>1. At("zp") \in Workings /\ At("growth") \in Workings
    BY AtType
  <2>2. faults' \in 0..MaxFaults
    BY <1>10 DEF TypeOK, GrowthFails, Crash, Fault
  <2>3. worker' \in [Workers -> Workings]
    BY <1>10, <2>1 DEF TypeOK, GrowthFails, Crash
  <2> QED BY <1>10, <2>2, <2>3 DEF TypeOK, GrowthFails, Crash
<1>11. ASSUME NEW w \in Workers, NEW a \in Accounts, AccountFails(w, a) PROVE TypeOK'
  BY <1>8, <1>11 DEF TypeOK, AccountFails, Fault
<1>12. ASSUME NEW w \in Workers, Iteration(w) PROVE TypeOK'
  BY <1>3, <1>4, <1>5, <1>6, <1>7, <1>9, <1>12 DEF Iteration, Append, FinishInsert
<1> QED
  BY <1>1, <1>2, <1>10, <1>11, <1>12 DEF Next

-----------------------------------------------------------------------------
\* What each step may do to an event and to a count.

(* An event, once committed, stays as it is: rows are append-only.         *)
LEMMA EventsStay ==
  ASSUME TypeOK, Next, NEW f \in Facts, Committed(f)
  PROVE  event'[f] = event[f]
<1>1. ASSUME NEW w \in Workers, NEW r \in Receipts, Commits(w, r)
      PROVE  event'[f] = event[f]
  BY <1>1 DEF Commits, TypeOK
<1>2. ASSUME UNCHANGED event PROVE event'[f] = event[f]
  BY <1>2
<1> QED
  BY <1>1, <1>2, Zenon
  DEF Next, Iteration, Append, FinishInsert, FindsExisting, DrawsId, Settle, Classify,
      SelectPending, ListAccounts, ProjectAccount, GrowthFails, AccountFails, Crash

-----------------------------------------------------------------------------
\* Counting.

(* A step that leaves the totals and cursors alone counts nothing twice.   *)
LEMMA NothingCounted ==
  ASSUME TypeOK, CountedOnce, Next, UNCHANGED <<cursor, counted>>
  PROVE  CountedOnce'
<1> SUFFICES ASSUME NEW f \in Facts
             PROVE  /\ counted[f] <= 1
                    /\ counted[f] > 0 =>
                         /\ Committed(f)' /\ ~event'[f].synthetic
                         /\ event'[f].id <= cursor[AccountOf(f)]
  BY DEF CountedOnce
<1>1. counted[f] <= 1
  BY DEF CountedOnce
<1>2. ASSUME counted[f] > 0
      PROVE  /\ Committed(f)' /\ ~event'[f].synthetic
             /\ event'[f].id <= cursor[AccountOf(f)]
  <2>1. Committed(f) /\ ~event[f].synthetic /\ event[f].id <= cursor[AccountOf(f)]
    BY <1>2 DEF CountedOnce
  <2>2. event'[f] = event[f]
    BY <2>1, EventsStay
  <2> QED BY <2>1, <2>2 DEF Committed
<1> QED BY <1>1, <1>2

(* projectAccount adds only events beyond the cursor, none of which was    *)
(* counted before, and moves the cursor to the last of them.               *)
LEMMA ProjectionCounts ==
  ASSUME TypeOK, CountedOnce, NEW w \in Workers, NEW a \in Accounts,
         ProjectAccount(w, a), Next
  PROVE  CountedOnce'
<1>1. CASE UNCHANGED <<cursor, counted>>
  BY <1>1, NothingCounted
<1>2. ASSUME NEW last \in Read(a),
             \A f \in Read(a) : event[f].id <= event[last].id,
             cursor' = [cursor EXCEPT ![a] = event[last].id],
             counted' = [f \in Facts |-> IF f \in Read(a) /\ Eligible(f)
                                         THEN counted[f] + 1 ELSE counted[f]]
      PROVE  CountedOnce'
  <2>1. \A f \in Read(a) :
          f \in Facts /\ Committed(f) /\ AccountOf(f) = a /\ event[f].id > cursor[a]
    BY DEF Read, Beyond
  <2>2. event' = event
    BY DEF ProjectAccount
  <2> SUFFICES ASSUME NEW f \in Facts
               PROVE  /\ counted'[f] <= 1
                      /\ counted'[f] > 0 =>
                           /\ Committed(f) /\ ~event[f].synthetic
                           /\ event[f].id <= cursor'[AccountOf(f)]
    BY <2>2 DEF CountedOnce, Committed
  <2>3. event[f].id \in Nat /\ counted[f] \in Nat /\ event[last].id \in Nat
    BY <2>1 DEF TypeOK, Events
  <2>4. cursor \in [Accounts -> Nat]
    BY DEF TypeOK
  <2>5. cursor'[a] = event[last].id /\ cursor[a] < cursor'[a]
    BY <1>2, <2>1, <2>4
  <2>6. CASE f \in Read(a) /\ Eligible(f)
    <3>1. counted[f] = 0
      BY <2>1, <2>3, <2>4, <2>6 DEF CountedOnce
    <3>2. counted'[f] = 1
      BY <1>2, <2>6, <3>1
    <3>3. ~event[f].synthetic
      BY <2>6 DEF Eligible
    <3> QED BY <1>2, <2>1, <2>5, <2>6, <3>2, <3>3
  <2>7. CASE ~(f \in Read(a) /\ Eligible(f))
    <3>1. counted'[f] = counted[f]
      BY <1>2, <2>7
    <3>2. CASE counted[f] = 0
      BY <3>1, <3>2
    <3>3. CASE counted[f] > 0
      <4>1. /\ counted[f] <= 1 /\ Committed(f) /\ ~event[f].synthetic
            /\ event[f].id <= cursor[AccountOf(f)]
        BY <3>3 DEF CountedOnce
      <4>2. CASE AccountOf(f) = a
        BY <2>3, <2>4, <2>5, <3>1, <4>1, <4>2
      <4>3. CASE AccountOf(f) /= a
        <5>1. cursor'[AccountOf(f)] = cursor[AccountOf(f)]
          BY <1>2, <2>4, <4>3
        <5> QED BY <3>1, <4>1, <5>1
      <4> QED BY <4>2, <4>3
    <3> QED BY <2>3, <3>2, <3>3
  <2> QED BY <2>6, <2>7
<1> QED BY <1>1, <1>2 DEF ProjectAccount

(* Every step keeps the counting.                                          *)
LEMMA CountStep ==
  ASSUME TypeOK, CountedOnce, Next
  PROVE  CountedOnce'
<1>1. ASSUME NEW w \in Workers, NEW a \in Accounts, ProjectAccount(w, a) PROVE CountedOnce'
  BY <1>1, ProjectionCounts
<1>2. ASSUME UNCHANGED <<cursor, counted>> PROVE CountedOnce'
  BY <1>2, NothingCounted
<1> QED
  BY <1>1, <1>2, Zenon
  DEF Next, Iteration, Append, FinishInsert, FindsExisting, DrawsId, Commits, Settle,
      Classify, SelectPending, ListAccounts, GrowthFails, AccountFails, Crash

-----------------------------------------------------------------------------
\* Agreement.

(* The place projectRow goes on to, seen by what SenderSeen says of it.    *)
LEMMA AdvancedSide ==
  ASSUME TypeOK, NEW w \in Workers, NEW r \in Receipts,
         Advanced(w, r).at \in {"append", "inserting"},
         Advanced(w, r).side = "RECEIVED"
  PROVE  /\ Advanced(w, r).batch = worker[w].batch
         /\ Advanced(w, r).synthetic = worker[w].synthetic
         /\ worker[w].side = "SENT"
  BY DEF Advanced, Growing, At

(* At most one receipt is the oldest of a batch.                           *)
LEMMA OneRow ==
  ASSUME TypeOK, NEW w \in Workers, NEW r \in Receipts, NEW q \in Receipts,
         Row(w, r), Row(w, q)
  PROVE  r = q
  BY ReceiptAssumption DEF Row

(* A step that changes no event and sends no process on to a recipient's   *)
(* event keeps SenderSeen.                                                 *)
LEMMA SeenStays ==
  ASSUME TypeOK, SenderSeen, Next, NEW w \in Workers, NEW m,
         worker' = [worker EXCEPT ![w] = m],
         m.at \in {"append", "inserting"} /\ m.side = "RECEIVED" =>
           \A r \in Receipts :
             r \in m.batch /\ (\A q \in m.batch : r <= q) =>
               /\ Committed(<<r, "SENT">>)'
               /\ event'[<<r, "SENT">>].synthetic = (r \in m.synthetic)
  PROVE  SenderSeen'
<1> SUFFICES ASSUME NEW v \in Workers, NEW r \in Receipts,
                    worker'[v].at \in {"append", "inserting"},
                    worker'[v].side = "RECEIVED",
                    Row(v, r)'
             PROVE  /\ Committed(<<r, "SENT">>)'
                    /\ event'[<<r, "SENT">>].synthetic = Flag(v, r)'
  BY DEF SenderSeen
<1>1. CASE v = w
  <2>1. worker'[v] = m
    BY <1>1 DEF TypeOK
  <2> QED BY <2>1 DEF Row, Flag
<1>2. CASE v /= w
  <2>1. worker'[v] = worker[v]
    BY <1>2 DEF TypeOK
  <2>2. Committed(<<r, "SENT">>) /\ event[<<r, "SENT">>].synthetic = Flag(v, r)
    BY <2>1 DEF SenderSeen, Row
  <2>3. event'[<<r, "SENT">>] = event[<<r, "SENT">>]
    BY <2>2, EventsStay DEF Facts, Sides
  <2> QED BY <2>1, <2>2, <2>3 DEF Committed, Flag
<1> QED BY <1>1, <1>2

(* Only an INSERT that has drawn its id is under way.                      *)
LEMMA DrawnStep ==
  ASSUME TypeOK, IdDrawn, Next
  PROVE  IdDrawn'
<1>1. ASSUME NEW w \in Workers, NEW m, worker' = [worker EXCEPT ![w] = m],
             m.at /= "inserting" \/ m.id > 0
      PROVE  IdDrawn'
  BY <1>1 DEF IdDrawn, TypeOK
<1>2. /\ \A place : At(place).at = place
      /\ \A accounts : Projecting(accounts).at = "project"
      /\ \A batch, synthetic : Growing("append", batch, synthetic, "SENT", 0).at = "append"
      /\ \A w \in Workers, r \in Receipts : Advanced(w, r).at /= "inserting"
  BY DEF At, Projecting, Growing, Advanced
<1>3. ASSUME NEW w \in Workers, NEW r \in Receipts, DrawsId(w, r) PROVE IdDrawn'
  <2>1. PICK last \in UsedIds :
          worker' = [worker EXCEPT ![w] =
            Growing("inserting", @.batch, @.synthetic, @.side, last + 1)]
    BY <1>3 DEF DrawsId
  <2>2. last \in Nat
    BY DEF TypeOK, UsedIds, Events, Workings
  <2> DEFINE m == Growing("inserting", worker[w].batch, worker[w].synthetic,
                          worker[w].side, last + 1)
  <2>3. m.id > 0
    BY <2>2 DEF Growing
  <2>4. worker' = [worker EXCEPT ![w] = m]
    BY <2>1
  <2> HIDE DEF m
  <2> QED BY <1>1, <2>3, <2>4
<1>4. ASSUME NEW w \in Workers, NEW r \in Receipts,
             FindsExisting(w, r) \/ Commits(w, r)
      PROVE  IdDrawn'
  BY <1>1, <1>2, <1>4 DEF FindsExisting, Commits
<1>5. ASSUME NEW w \in Workers,
             SelectPending(w) \/ ListAccounts(w) \/ GrowthFails(w) \/ Crash(w)
      PROVE  IdDrawn'
  BY <1>1, <1>2, <1>5, Zenon DEF SelectPending, ListAccounts, GrowthFails, Crash
<1>6. ASSUME NEW w \in Workers, NEW a \in Accounts, ProjectAccount(w, a) \/ AccountFails(w, a)
      PROVE  IdDrawn'
  BY <1>1, <1>2, <1>6, Zenon DEF ProjectAccount, AccountFails, Done
<1>7. ASSUME worker' = worker PROVE IdDrawn'
  BY <1>7 DEF IdDrawn
<1> QED
  BY <1>3, <1>4, <1>5, <1>6, <1>7, Zenon
  DEF Next, Iteration, Append, FinishInsert, Settle, Classify

(* Every step keeps SenderSeen: projectRow goes on to the recipient's      *)
(* event only from the sender's, written or compared.                      *)
LEMMA SeenStep ==
  ASSUME TypeOK, IdDrawn, SenderSeen, Next
  PROVE  SenderSeen'
<1>0. ASSUME NEW w \in Workers, NEW r \in Receipts, Row(w, r),
             worker' = [worker EXCEPT ![w] = Advanced(w, r)],
             worker[w].side = "SENT" =>
               /\ Committed(<<r, "SENT">>)'
               /\ event'[<<r, "SENT">>].synthetic = Flag(w, r)
      PROVE  SenderSeen'
  <2> DEFINE m == Advanced(w, r)
  <2>1. ASSUME m.at \in {"append", "inserting"}, m.side = "RECEIVED", NEW q \in Receipts,
               q \in m.batch, \A p \in m.batch : q <= p
        PROVE  /\ Committed(<<q, "SENT">>)'
               /\ event'[<<q, "SENT">>].synthetic = (q \in m.synthetic)
    <3>1. /\ m.batch = worker[w].batch /\ m.synthetic = worker[w].synthetic
          /\ worker[w].side = "SENT"
      BY <2>1, AdvancedSide
    <3>2. q = r
      BY <1>0, <2>1, <3>1, OneRow DEF Row
    <3> QED BY <1>0, <3>1, <3>2 DEF Flag
  <2> HIDE DEF m
  <2>2. worker' = [worker EXCEPT ![w] = m]
    BY <1>0 DEF m
  <2> QED BY <2>1, <2>2, SeenStays
<1>1. ASSUME NEW w \in Workers, NEW m, worker' = [worker EXCEPT ![w] = m],
             ~(m.at \in {"append", "inserting"} /\ m.side = "RECEIVED")
      PROVE  SenderSeen'
  BY <1>1, SeenStays
<1>2. \A place : At(place).side = "SENT"
  BY DEF At, Growing
<1>3. \A accounts : Projecting(accounts).at = "project"
  BY DEF Projecting
<1>4. ASSUME NEW w \in Workers, SelectPending(w) PROVE SenderSeen'
  <2>1. Growing("append", Batch, {r \in Batch : SyntheticNow(r)}, "SENT", 0).side = "SENT"
    BY DEF Growing
  <2> QED BY <1>1, <1>2, <1>4, <2>1, Zenon DEF SelectPending
<1>5. ASSUME NEW w \in Workers, NEW r \in Receipts, Row(w, r), FindsExisting(w, r)
      PROVE  SenderSeen'
  <2>1. CASE SameImmutableFact(w, r)
    <3>1. worker' = [worker EXCEPT ![w] = Advanced(w, r)] /\ event' = event
      BY <1>5, <2>1 DEF FindsExisting
    <3>2. worker[w].side = "SENT" =>
            /\ Committed(<<r, "SENT">>)'
            /\ event'[<<r, "SENT">>].synthetic = Flag(w, r)
      BY <1>5, <2>1, <3>1 DEF FindsExisting, Fact, SameImmutableFact, Committed
    <3> QED BY <1>0, <1>5, <3>1, <3>2
  <2>2. CASE ~SameImmutableFact(w, r)
    BY <1>1, <1>2, <1>5, <2>2 DEF FindsExisting
  <2> QED BY <2>1, <2>2
<1>6. ASSUME NEW w \in Workers, NEW r \in Receipts, worker[w].at = "append", Row(w, r),
             DrawsId(w, r)
      PROVE  SenderSeen'
  <2>1. PICK last \in UsedIds :
          worker' = [worker EXCEPT ![w] =
            Growing("inserting", @.batch, @.synthetic, @.side, last + 1)]
    BY <1>6 DEF DrawsId
  <2> DEFINE m == Growing("inserting", worker[w].batch, worker[w].synthetic,
                          worker[w].side, last + 1)
  <2>2. m.batch = worker[w].batch /\ m.synthetic = worker[w].synthetic /\ m.side = worker[w].side
    BY DEF Growing
  <2>3. event' = event
    BY <1>6 DEF DrawsId
  <2>4. worker' = [worker EXCEPT ![w] = m]
    BY <2>1
  <2> HIDE DEF m
  <2>5. ASSUME m.side = "RECEIVED", NEW q \in Receipts,
               q \in m.batch, \A p \in m.batch : q <= p
        PROVE  /\ Committed(<<q, "SENT">>)'
               /\ event'[<<q, "SENT">>].synthetic = (q \in m.synthetic)
    BY <1>6, <2>2, <2>3, <2>5 DEF SenderSeen, Row, Flag, Committed
  <2> QED BY <2>4, <2>5, SeenStays
<1>7. ASSUME NEW w \in Workers, NEW r \in Receipts, worker[w].at = "inserting", Row(w, r),
             Commits(w, r)
      PROVE  SenderSeen'
  <2>1. ASSUME worker[w].side = "SENT"
        PROVE  /\ Committed(<<r, "SENT">>)'
               /\ event'[<<r, "SENT">>].synthetic = Flag(w, r)
    <3>1. event'[<<r, "SENT">>] = [id |-> worker[w].id, synthetic |-> Flag(w, r)]
      BY <1>7, <2>1 DEF Commits, Fact, TypeOK, Facts, Sides
    <3>2. worker[w].id > 0
      BY <1>7 DEF IdDrawn
    <3> QED BY <3>1, <3>2 DEF Committed
  <2> QED BY <1>0, <1>7, <2>1 DEF Commits
<1>8. ASSUME NEW w \in Workers, ListAccounts(w) PROVE SenderSeen'
  BY <1>1, <1>2, <1>3, <1>8, Zenon DEF ListAccounts
<1>9. ASSUME NEW w \in Workers, NEW a \in Accounts, ProjectAccount(w, a) \/ AccountFails(w, a)
      PROVE  SenderSeen'
  BY <1>1, <1>2, <1>3, <1>9, Zenon DEF ProjectAccount, AccountFails, Done
<1>10. ASSUME NEW w \in Workers, GrowthFails(w) \/ Crash(w) PROVE SenderSeen'
  BY <1>1, <1>2, <1>10, Zenon DEF GrowthFails, Crash
<1>11. ASSUME worker' = worker, event' = event PROVE SenderSeen'
  BY <1>11 DEF SenderSeen, Row, Flag, Committed
<1> QED
  BY <1>4, <1>5, <1>6, <1>7, <1>8, <1>9, <1>10, <1>11, Zenon
  DEF Next, Iteration, Append, FinishInsert, Settle, Classify

(* The recipient's event is committed only by a process that has seen the  *)
(* sender's.                                                               *)
LEMMA AgreeStep ==
  ASSUME TypeOK, SenderSeen, EventsAgree, Next
  PROVE  EventsAgree'
<1> SUFFICES ASSUME NEW r \in Receipts, Committed(<<r, "RECEIVED">>)'
             PROVE  /\ Committed(<<r, "SENT">>)'
                    /\ event'[<<r, "SENT">>].synthetic = event'[<<r, "RECEIVED">>].synthetic
  BY DEF EventsAgree
<1> DEFINE sent == <<r, "SENT">>
           received == <<r, "RECEIVED">>
<1>0. sent \in Facts /\ received \in Facts
  BY DEF Facts, Sides
<1>1. CASE Committed(received)
  <2>1. Committed(sent) /\ event[sent].synthetic = event[received].synthetic
    BY <1>1 DEF EventsAgree
  <2>2. event'[sent] = event[sent] /\ event'[received] = event[received]
    BY <1>0, <1>1, <2>1, EventsStay
  <2> QED BY <2>1, <2>2 DEF Committed
<1>2. CASE ~Committed(received)
  <2>1. ASSUME NEW w \in Workers, NEW q \in Receipts, worker[w].at = "inserting", Row(w, q),
               Commits(w, q)
        PROVE  /\ Committed(sent)'
               /\ event'[sent].synthetic = event'[received].synthetic
    <3>1. Fact(w, q) = received
      BY <1>0, <1>2, <2>1 DEF Commits, TypeOK, Committed
    <3>2. q = r /\ worker[w].side = "RECEIVED"
      BY <3>1 DEF Fact
    <3>3. Committed(sent) /\ event[sent].synthetic = Flag(w, q)
      BY <2>1, <3>2 DEF SenderSeen
    <3>4. event'[sent] = event[sent]
      BY <1>0, <3>3, EventsStay
    <3>5. event'[received] = [id |-> worker[w].id, synthetic |-> Flag(w, q)]
      BY <1>0, <2>1, <3>1 DEF Commits, TypeOK
    <3>6. event'[received].synthetic = Flag(w, q)
      BY <3>5
    <3> QED BY <3>3, <3>4, <3>6 DEF Committed
  <2>2. ASSUME event' = event PROVE FALSE
    BY <1>2, <2>2 DEF Committed
  <2> QED
    BY <2>1, <2>2, Zenon
    DEF Next, Iteration, Append, FinishInsert, FindsExisting, DrawsId, Settle, Classify,
        SelectPending, ListAccounts, ProjectAccount, GrowthFails, AccountFails, Crash
<1> QED BY <1>1, <1>2

-----------------------------------------------------------------------------
\* The theorems.

(* Before the first receipt nothing is recorded, counted or under way.     *)
LEMMA InvInit == Init => Inv
<1> SUFFICES ASSUME Init PROVE Inv
  OBVIOUS
<1>1. \A w \in Workers : worker[w] = At("growth")
  BY DEF Init
<1>2. NoEvent \in Events /\ NoEvent.id = 0
  BY DEF NoEvent, Events
<1>3. TypeOK
  BY <1>2, AtType, LimitAssumption DEF Init, TypeOK
<1>4. IdDrawn /\ SenderSeen
  BY <1>1 DEF IdDrawn, SenderSeen, At, Growing
<1>5. \A f \in Facts : ~Committed(f) /\ counted[f] = 0
  BY <1>2 DEF Init, Committed
<1>6. EventsAgree /\ CountedOnce
  BY <1>5 DEF EventsAgree, CountedOnce, Facts, Sides
<1> QED BY <1>3, <1>4, <1>6 DEF Inv

(* Every step, of any process, and every stutter keeps the invariant.      *)
LEMMA InvStep == Inv /\ [Next]_vars => Inv'
<1>1. ASSUME Inv, Next PROVE Inv'
  BY <1>1, TypeStep, DrawnStep, SeenStep, AgreeStep, CountStep DEF Inv
<1>2. ASSUME Inv, UNCHANGED vars PROVE Inv'
  BY <1>2 DEF Inv, TypeOK, IdDrawn, SenderSeen, EventsAgree, CountedOnce, vars, Row, Flag,
              Committed
<1> QED BY <1>1, <1>2

(* The inductive invariant holds throughout.                               *)
LEMMA Invariant == Spec => []Inv
  BY InvInit, InvStep, PTL DEF Spec

(* Rows and process memories keep their types.                             *)
THEOREM GrowthTypes == Spec => []TypeOK
<1>1. Inv => TypeOK
  BY DEF Inv
<1> QED BY <1>1, Invariant, PTL

(* The two events of a payment agree on its classification, whoever wrote  *)
(* them and however actors were classified in between.                     *)
THEOREM ClassifiedAlike == Spec => []EventsAgree
<1>1. Inv => EventsAgree
  BY DEF Inv
<1> QED BY <1>1, Invariant, PTL

(* No event is added to the ZP totals twice, and no synthetic one at all.  *)
THEOREM CountsOnce == Spec => []CountedOnce
<1>1. Inv => CountedOnce
  BY DEF Inv
<1> QED BY <1>1, Invariant, PTL
=============================================================================
