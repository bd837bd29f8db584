-------------------------- MODULE CollectorProofs --------------------------
(* Theorems about CollectorClients, for any number of collectors and tasks. *)
EXTENDS CollectorClients, TLAPS

(***************************************************************************)
(* The inductive invariant behind the order of the output: m_nextOutput is  *)
(* the number of texts printed, and the map holds each text under the id of *)
(* its task.                                                                *)
(***************************************************************************)
NextIsLength ==
    \A c \in Collectors : m_nextOutput[c] = Len(m_outStream[c])

CachedUnderOwnId ==
    \A c \in Collectors : \A i \in Ids :
        m_outputs[c][i] # NoTask => SourceId[m_outputs[c][i]] = i

OrderInv == TypeOK /\ NextIsLength /\ CachedUnderOwnId /\ OutputInOrder

\* The types of all variables hold initially and are kept by every step of any
\* number of tasks and collectors.
LEMMA TypeInit == Init => TypeOK
BY CollectorAssumption DEF Init, TypeOK, CollectorInit, CollectorTypeOK

\* Type correctness is inductive.
LEMMA TypeNext == TypeOK /\ [Next]_vars => TypeOK'
<1> SUFFICES ASSUME TypeOK, [Next]_vars PROVE TypeOK'
  OBVIOUS
<1> USE CollectorAssumption, SourceIdAssumption DEF TypeOK, CollectorTypeOK
<1>1. ASSUME NEW c \in Collectors, NEW t \in Tasks, Write(c, t) PROVE TypeOK'
  <2>1. CASE WriteExpected(c, t, SourceId[t])
    BY <1>1, <2>1 DEF Write, WriteExpected
  <2>2. CASE WriteCached(c, t, SourceId[t])
    BY <1>1, <2>2 DEF Write, WriteCached
  <2> QED BY <1>1, <2>1, <2>2 DEF Write
<1>2. ASSUME NEW c \in Collectors, Drain(c) PROVE TypeOK'
  <2>1. ASSUME NEW key \in FreedKeys(c), DrainNext(c, key) PROVE TypeOK'
    <3>1. m_outputs[c][m_nextOutput[c]] \in Tasks /\ m_nextOutput[c] \in Ids
      BY <2>1 DEF DrainNext, Cached
    <3>2. /\ m_debugStream' \in [Collectors -> Seq(Tasks)]
          /\ m_debugs' \in [Collectors -> [Ids -> Tasks \cup {NoTask}]]
      <4>1. CASE key \in Ids /\ m_debugs[c][key] # NoTask
        <5>1. m_debugs[c][key] \in Tasks
          BY <4>1
        <5>2. m_debugStream' =
                [m_debugStream EXCEPT ![c] = Append(@, m_debugs[c][key])]
          BY <2>1, <4>1 DEF DrainNext
        <5>3. m_debugs' = [m_debugs EXCEPT ![c][key] = NoTask]
          BY <2>1, <4>1 DEF DrainNext
        <5>4. Append(m_debugStream[c], m_debugs[c][key]) \in Seq(Tasks)
          BY <5>1
        <5> QED BY <4>1, <5>2, <5>3, <5>4
      <4>2. CASE ~(key \in Ids /\ m_debugs[c][key] # NoTask)
        BY <2>1, <4>2 DEF DrainNext
      <4> QED BY <4>1, <4>2
    <3>3. m_outStream' \in [Collectors -> Seq(Tasks)]
      BY <2>1, <3>1 DEF DrainNext
    <3>4. m_outputs' \in [Collectors -> [Ids -> Tasks \cup {NoTask}]]
      BY <2>1, <3>1 DEF DrainNext
    <3>5. m_nextOutput' \in [Collectors -> Nat] /\ m_mutex' = m_mutex
      BY <2>1 DEF DrainNext
    <3>6. written' = written
      BY <1>2 DEF Drain
    <3> QED BY <3>2, <3>3, <3>4, <3>5, <3>6
  <2>2. CASE DrainEnd(c)
    BY <1>2, <2>2 DEF Drain, DrainEnd
  <2> QED BY <1>2, <2>1, <2>2 DEF Drain
<1>3. CASE UNCHANGED vars
  BY <1>3 DEF vars, collectorVars
<1> QED BY <1>1, <1>2, <1>3 DEF Next, Finished

\* CollectorClients never leaves its types.
THEOREM TypeCorrect == Spec => []TypeOK
<1>1. Init => TypeOK
  BY TypeInit
<1>2. TypeOK /\ [Next]_vars => TypeOK'
  BY TypeNext
<1> QED BY <1>1, <1>2, PTL DEF Spec

-----------------------------------------------------------------------------
\* A Write that finds its id due keeps the order.
LEMMA OrderWriteExpected ==
    ASSUME OrderInv, NEW c \in Collectors, NEW t \in Tasks,
           WriteExpected(c, t, SourceId[t])
    PROVE  NextIsLength' /\ CachedUnderOwnId' /\ OutputInOrder'
<1> USE CollectorAssumption, SourceIdAssumption
    DEF OrderInv, TypeOK, CollectorTypeOK
<1>1. /\ m_outStream' = [m_outStream EXCEPT ![c] = Append(@, t)]
      /\ m_nextOutput' = [m_nextOutput EXCEPT ![c] = @ + 1]
      /\ m_outputs' = m_outputs
      /\ SourceId[t] = m_nextOutput[c]
  BY DEF WriteExpected
<1>2. NextIsLength'
  BY <1>1 DEF NextIsLength
<1>3. CachedUnderOwnId'
  BY <1>1 DEF CachedUnderOwnId
<1>4. OutputInOrder'
  <2> SUFFICES ASSUME NEW d \in Collectors, NEW k \in 1 .. Len(m_outStream'[d])
               PROVE  SourceId[m_outStream'[d][k]] = k - 1
    BY DEF OutputInOrder
  <2>1. CASE d = c
    <3>1. m_outStream'[d] = Append(m_outStream[c], t)
      BY <1>1, <2>1
    <3>2. CASE k = Len(m_outStream[c]) + 1
      BY <1>1, <3>1, <3>2 DEF NextIsLength
    <3>3. CASE k # Len(m_outStream[c]) + 1
      <4>1. k \in 1 .. Len(m_outStream[c]) /\ m_outStream'[d][k] = m_outStream[c][k]
        BY <3>1, <3>3
      <4> QED BY <4>1 DEF OutputInOrder
    <3> QED BY <3>2, <3>3
  <2>2. CASE d # c
    BY <1>1, <2>2 DEF OutputInOrder
  <2> QED BY <2>1, <2>2
<1> QED BY <1>2, <1>3, <1>4

\* The text the drain prints was cached under the id that is due, and an id is
\* that of its task, so the drain keeps the order.
LEMMA OrderDrainNext ==
    ASSUME OrderInv, NEW c \in Collectors, NEW key, DrainNext(c, key)
    PROVE  NextIsLength' /\ CachedUnderOwnId' /\ OutputInOrder'
<1> USE CollectorAssumption, SourceIdAssumption
    DEF OrderInv, TypeOK, CollectorTypeOK
<1> DEFINE due == m_nextOutput[c]
           t == m_outputs[c][due]
<1>1. /\ m_outStream' = [m_outStream EXCEPT ![c] = Append(@, t)]
      /\ m_nextOutput' = [m_nextOutput EXCEPT ![c] = due + 1]
      /\ m_outputs' = [m_outputs EXCEPT ![c][due] = NoTask]
      /\ due \in Ids /\ t # NoTask
  BY DEF DrainNext, Cached
<1>2. t \in Tasks /\ SourceId[t] = due
  BY <1>1 DEF CachedUnderOwnId
<1> HIDE DEF t
<1>3. NextIsLength'
  BY <1>1, <1>2 DEF NextIsLength
<1>4. CachedUnderOwnId'
  <2> SUFFICES ASSUME NEW d \in Collectors, NEW i \in Ids,
                      m_outputs'[d][i] # NoTask
               PROVE  SourceId[m_outputs'[d][i]] = i
    BY DEF CachedUnderOwnId
  <2>1. m_outputs'[d][i] = m_outputs[d][i]
    BY <1>1
  <2> QED BY <2>1 DEF CachedUnderOwnId
<1>5. OutputInOrder'
  <2> SUFFICES ASSUME NEW d \in Collectors, NEW k \in 1 .. Len(m_outStream'[d])
               PROVE  SourceId[m_outStream'[d][k]] = k - 1
    BY DEF OutputInOrder
  <2>1. CASE d = c
    <3>1. m_outStream'[d] = Append(m_outStream[c], t)
      BY <1>1, <2>1
    <3>2. CASE k = Len(m_outStream[c]) + 1
      BY <1>2, <3>1, <3>2 DEF NextIsLength
    <3>3. CASE k # Len(m_outStream[c]) + 1
      <4>1. k \in 1 .. Len(m_outStream[c]) /\ m_outStream'[d][k] = m_outStream[c][k]
        BY <1>2, <3>1, <3>3
      <4> QED BY <4>1 DEF OutputInOrder
    <3> QED BY <3>2, <3>3
  <2>2. CASE d # c
    BY <1>1, <2>2 DEF OutputInOrder
  <2> QED BY <2>1, <2>2
<1> QED BY <1>3, <1>4, <1>5

\* Every step keeps the order invariant.
LEMMA OrderNext == OrderInv /\ [Next]_vars => OrderInv'
<1> SUFFICES ASSUME OrderInv, [Next]_vars PROVE OrderInv'
  OBVIOUS
<1>0. TypeOK'
  BY TypeNext DEF OrderInv
<1> SUFFICES NextIsLength' /\ CachedUnderOwnId' /\ OutputInOrder'
  BY <1>0 DEF OrderInv
<1> DEFINE Goal == NextIsLength' /\ CachedUnderOwnId' /\ OutputInOrder'
<1>1. ASSUME NEW c \in Collectors, NEW t \in Tasks, Write(c, t) PROVE Goal
  <2>1. CASE WriteExpected(c, t, SourceId[t])
    BY <2>1, OrderWriteExpected
  <2>2. CASE WriteCached(c, t, SourceId[t])
    <3>1. /\ m_outputs' = [m_outputs EXCEPT ![c][SourceId[t]] = t]
          /\ UNCHANGED <<m_nextOutput, m_outStream>>
      BY <2>2 DEF WriteCached
    <3>2. NextIsLength' /\ OutputInOrder'
      BY <3>1 DEF OrderInv, NextIsLength, OutputInOrder
    <3>3. CachedUnderOwnId'
      BY <3>1, SourceIdAssumption
      DEF OrderInv, TypeOK, CollectorTypeOK, CachedUnderOwnId
    <3> QED BY <3>2, <3>3
  <2> QED BY <1>1, <2>1, <2>2 DEF Write
<1>2. ASSUME NEW c \in Collectors, Drain(c) PROVE Goal
  <2>1. ASSUME NEW key \in FreedKeys(c), DrainNext(c, key) PROVE Goal
    BY <2>1, OrderDrainNext
  <2>2. CASE DrainEnd(c)
    BY <2>2 DEF DrainEnd, OrderInv, NextIsLength, CachedUnderOwnId, OutputInOrder
  <2> QED BY <1>2, <2>1, <2>2 DEF Drain
<1>3. CASE UNCHANGED vars
  BY <1>3 DEF vars, collectorVars, OrderInv, NextIsLength, CachedUnderOwnId,
              OutputInOrder
<1> QED BY <1>1, <1>2, <1>3 DEF Next, Finished

\* "Makes sure output goes in the correct order": for any tasks, ids and
\* interleaving, the k-th text of a stream is that of the task with id k - 1.
THEOREM OrderCorrect == Spec => []OutputInOrder
<1>1. Init => OrderInv
  <2> HAVE Init
  <2>1. TypeOK
    BY TypeInit
  <2>2. NextIsLength /\ CachedUnderOwnId /\ OutputInOrder
    BY DEF Init, CollectorInit, NextIsLength, CachedUnderOwnId, OutputInOrder
  <2> QED BY <2>1, <2>2 DEF OrderInv
<1>2. OrderInv /\ [Next]_vars => OrderInv'
  BY OrderNext
<1>3. OrderInv => OutputInOrder
  BY DEF OrderInv
<1> QED BY <1>1, <1>2, <1>3, PTL DEF Spec
-----------------------------------------------------------------------------
(***************************************************************************)
(* No text is lost: the invariant says in addition that only tasks that have *)
(* called Write are printed or cached, so that a new one is neither.         *)
(***************************************************************************)
OnlyWritten ==
    \A c \in Collectors :
        /\ \A k \in 1 .. Len(m_outStream[c]) : m_outStream[c][k] \in written[c]
        /\ \A i \in Ids : m_outputs[c][i] # NoTask => m_outputs[c][i] \in written[c]

LostInv == OrderInv /\ OnlyWritten /\ NoTextLost

Printed(stream, t) == \E k \in 1 .. Len(stream) : stream[k] = t

\* Appending a text prints it and nothing else.
LEMMA PrintedAppend ==
    ASSUME NEW stream \in Seq(Tasks), NEW t \in Tasks, NEW u
    PROVE  Printed(Append(stream, t), u) <=> Printed(stream, u) \/ u = t
<1>1. /\ Len(Append(stream, t)) = Len(stream) + 1 /\ Len(stream) \in Nat
      /\ \A k \in 1 .. Len(stream) : Append(stream, t)[k] = stream[k]
      /\ Append(stream, t)[Len(stream) + 1] = t
  OBVIOUS
<1>2. ASSUME Printed(stream, u) \/ u = t PROVE Printed(Append(stream, t), u)
  <2>1. CASE Printed(stream, u)
    <3>1. PICK k \in 1 .. Len(stream) : stream[k] = u
      BY <2>1 DEF Printed
    <3>2. k \in 1 .. Len(stream) + 1 /\ Append(stream, t)[k] = u
      BY <1>1, <3>1
    <3> QED BY <1>1, <3>2 DEF Printed
  <2>2. CASE u = t
    <3>1. Len(stream) + 1 \in 1 .. Len(Append(stream, t))
      BY <1>1
    <3> QED BY <1>1, <2>2, <3>1 DEF Printed
  <2> QED BY <1>2, <2>1, <2>2
<1>3. ASSUME Printed(Append(stream, t), u) PROVE Printed(stream, u) \/ u = t
  <2>1. PICK k \in 1 .. Len(stream) + 1 : Append(stream, t)[k] = u
    BY <1>1, <1>3 DEF Printed
  <2>2. CASE k = Len(stream) + 1
    BY <1>1, <2>1, <2>2
  <2>3. CASE k # Len(stream) + 1
    <3>1. k \in 1 .. Len(stream)
      BY <1>1, <2>3
    <3> QED BY <1>1, <2>1, <3>1 DEF Printed
  <2> QED BY <2>2, <2>3
<1> QED BY <1>2, <1>3

\* Different tasks have different ids.
DistinctIds == \A t, u \in Tasks : SourceId[t] = SourceId[u] => t = u

\* Where a text of c is, in terms of Printed.
LEMMA LostByPrinted ==
    NoTextLost <=>
        \A c \in Collectors : \A t \in written[c] :
            Printed(m_outStream[c], t) <=> m_outputs[c][SourceId[t]] # t
BY Zenon DEF NoTextLost, Printed

\* A text that is due when it is written is printed, and no other is touched.
LEMMA LostWriteExpected ==
    ASSUME LostInv, NEW c \in Collectors, NEW t \in Tasks,
           Write(c, t), WriteExpected(c, t, SourceId[t])
    PROVE  OnlyWritten' /\ NoTextLost'
<1> USE CollectorAssumption, SourceIdAssumption
    DEF LostInv, OrderInv, TypeOK, CollectorTypeOK
<1>1. /\ m_outStream' = [m_outStream EXCEPT ![c] = Append(@, t)]
      /\ m_outputs' = m_outputs
      /\ written' = [written EXCEPT ![c] = @ \cup {t}]
      /\ t \notin written[c]
  BY DEF Write, WriteExpected
<1>2. OnlyWritten'
  <2> SUFFICES ASSUME NEW d \in Collectors
               PROVE  /\ \A k \in 1 .. Len(m_outStream'[d]) : m_outStream'[d][k] \in written'[d]
                      /\ \A i \in Ids : m_outputs'[d][i] # NoTask
                                          => m_outputs'[d][i] \in written'[d]
    BY DEF OnlyWritten
  <2>1. \A i \in Ids : m_outputs'[d][i] # NoTask => m_outputs'[d][i] \in written'[d]
    BY <1>1 DEF OnlyWritten
  <2>2. CASE d = c
    <3>1. m_outStream'[d] = Append(m_outStream[c], t) /\ written'[d] = written[c] \cup {t}
      BY <1>1, <2>2
    <3>2. ASSUME NEW k \in 1 .. Len(m_outStream'[d]) PROVE m_outStream'[d][k] \in written'[d]
      <4>1. CASE k = Len(m_outStream[c]) + 1
        BY <3>1, <4>1
      <4>2. CASE k # Len(m_outStream[c]) + 1
        <5>1. k \in 1 .. Len(m_outStream[c]) /\ m_outStream'[d][k] = m_outStream[c][k]
          BY <3>1, <4>2
        <5> QED BY <3>1, <5>1 DEF OnlyWritten
      <4> QED BY <4>1, <4>2
    <3> QED BY <2>1, <3>2
  <2>3. CASE d # c
    BY <1>1, <2>1, <2>3 DEF OnlyWritten
  <2> QED BY <2>2, <2>3
<1>3. ASSUME NEW d \in Collectors, NEW u \in written'[d]
      PROVE  Printed(m_outStream'[d], u) <=> m_outputs'[d][SourceId[u]] # u
  <2>1. CASE d # c
    <3>1. m_outStream'[d] = m_outStream[d] /\ written'[d] = written[d]
      BY <1>1, <2>1
    <3> QED BY <1>1, <3>1, LostByPrinted
  <2>2. CASE d = c /\ u # t
    <3>1. m_outStream'[d] = Append(m_outStream[d], t) /\ u \in written[d]
      BY <1>1, <2>2
    <3>2. Printed(m_outStream'[d], u) <=> Printed(m_outStream[d], u)
      BY <2>2, <3>1, PrintedAppend
    <3>3. Printed(m_outStream[d], u) <=> m_outputs[d][SourceId[u]] # u
      BY <3>1, LostByPrinted
    <3> QED BY <1>1, <3>2, <3>3
  <2>3. CASE d = c /\ u = t
    <3>1. Printed(m_outStream'[d], u)
      <4>1. m_outStream'[d] = Append(m_outStream[d], t)
        BY <1>1, <2>3
      <4> QED BY <2>3, <4>1, PrintedAppend
    <3>2. m_outputs[c][SourceId[t]] # t
      <4>1. SourceId[t] \in Ids /\ t # NoTask
        OBVIOUS
      <4>2. \A i \in Ids : m_outputs[c][i] # NoTask => m_outputs[c][i] \in written[c]
        BY Zenon DEF OnlyWritten
      <4> HIDE DEF LostInv
      <4> QED BY <1>1, <4>1, <4>2
    <3> QED BY <1>1, <2>3, <3>1, <3>2
  <2> QED BY <2>1, <2>2, <2>3
<1>4. NoTextLost'
  BY <1>3, LostByPrinted, Zenon DEF NoTextLost, Printed
<1> QED BY <1>2, <1>4

\* A text that is not due yet is cached under its own id, which no other has.
LEMMA LostWriteCached ==
    ASSUME LostInv, DistinctIds, NEW c \in Collectors, NEW t \in Tasks,
           Write(c, t), WriteCached(c, t, SourceId[t])
    PROVE  OnlyWritten' /\ NoTextLost'
<1> USE CollectorAssumption, SourceIdAssumption
    DEF LostInv, OrderInv, TypeOK, CollectorTypeOK
<1>1. /\ m_outputs' = [m_outputs EXCEPT ![c][SourceId[t]] = t]
      /\ m_outStream' = m_outStream
      /\ written' = [written EXCEPT ![c] = @ \cup {t}]
      /\ t \notin written[c]
  BY DEF Write, WriteCached
<1>2. OnlyWritten'
  BY <1>1 DEF OnlyWritten
<1>3. ASSUME NEW d \in Collectors, NEW u \in written'[d]
      PROVE  Printed(m_outStream'[d], u) <=> m_outputs'[d][SourceId[u]] # u
  <2>1. CASE ~(d = c /\ u = t)
    <3>1. u \in written[d] /\ u \in Tasks
      BY <1>1, <2>1
    <3>2. ~(d = c /\ SourceId[u] = SourceId[t])
      BY <2>1, <3>1 DEF DistinctIds
    <3>3. m_outputs'[d][SourceId[u]] = m_outputs[d][SourceId[u]]
      BY <1>1, <3>1, <3>2
    <3> QED BY <1>1, <3>1, <3>3, LostByPrinted
  <2>2. CASE d = c /\ u = t
    <3>1. ~Printed(m_outStream[c], t)
      BY <1>1 DEF OnlyWritten, Printed
    <3>2. m_outputs'[c][SourceId[t]] = t
      BY <1>1
    <3> QED BY <1>1, <2>2, <3>1, <3>2
  <2> QED BY <2>1, <2>2
<1>4. NoTextLost'
  BY <1>3, LostByPrinted, Zenon DEF NoTextLost, Printed
<1> QED BY <1>2, <1>4

\* The drain moves one text from the map to the stream.
LEMMA LostDrainNext ==
    ASSUME LostInv, DistinctIds, NEW c \in Collectors, NEW key,
           DrainNext(c, key), UNCHANGED written
    PROVE  OnlyWritten' /\ NoTextLost'
<1> USE CollectorAssumption, SourceIdAssumption
    DEF LostInv, OrderInv, TypeOK, CollectorTypeOK
<1> DEFINE due == m_nextOutput[c]
           t == m_outputs[c][due]
<1>1. /\ m_outStream' = [m_outStream EXCEPT ![c] = Append(@, t)]
      /\ m_outputs' = [m_outputs EXCEPT ![c][due] = NoTask]
      /\ due \in Ids /\ t # NoTask
      /\ written' = written
  BY DEF DrainNext, Cached
<1>2. t \in Tasks /\ SourceId[t] = due /\ t \in written[c]
  BY <1>1 DEF CachedUnderOwnId, OnlyWritten
<1>3. m_outputs[c][SourceId[t]] = t
  BY <1>2
<1> HIDE DEF t
<1>4. OnlyWritten'
  <2> SUFFICES ASSUME NEW d \in Collectors
               PROVE  /\ \A k \in 1 .. Len(m_outStream'[d]) : m_outStream'[d][k] \in written[d]
                      /\ \A i \in Ids : m_outputs'[d][i] # NoTask
                                          => m_outputs'[d][i] \in written[d]
    BY <1>1 DEF OnlyWritten
  <2>1. \A i \in Ids : m_outputs'[d][i] # NoTask => m_outputs'[d][i] \in written[d]
    BY <1>1 DEF OnlyWritten
  <2>2. CASE d = c
    <3>1. m_outStream'[d] = Append(m_outStream[c], t)
      BY <1>1, <2>2
    <3>2. ASSUME NEW k \in 1 .. Len(m_outStream'[d]) PROVE m_outStream'[d][k] \in written[d]
      <4>1. CASE k = Len(m_outStream[c]) + 1
        BY <1>2, <2>2, <3>1, <4>1
      <4>2. CASE k # Len(m_outStream[c]) + 1
        <5>1. k \in 1 .. Len(m_outStream[c]) /\ m_outStream'[d][k] = m_outStream[c][k]
          BY <1>2, <3>1, <4>2
        <5> QED BY <2>2, <5>1 DEF OnlyWritten
      <4> QED BY <4>1, <4>2
    <3> QED BY <2>1, <3>2
  <2>3. CASE d # c
    BY <1>1, <2>1, <2>3 DEF OnlyWritten
  <2> QED BY <2>2, <2>3
<1>5. ASSUME NEW d \in Collectors, NEW u \in written[d]
      PROVE  Printed(m_outStream'[d], u) <=> m_outputs'[d][SourceId[u]] # u
  <2>1. CASE d # c
    <3>1. m_outStream'[d] = m_outStream[d] /\ m_outputs'[d] = m_outputs[d]
      BY <1>1, <2>1
    <3> QED BY <3>1, LostByPrinted
  <2>2. CASE d = c /\ u # t
    <3>1. m_outStream'[d] = Append(m_outStream[d], t) /\ u \in Tasks
      BY <1>1, <2>2
    <3>2. Printed(m_outStream'[d], u) <=> Printed(m_outStream[d], u)
      BY <1>2, <2>2, <3>1, PrintedAppend
    <3>3. m_outputs'[d][SourceId[u]] = m_outputs[d][SourceId[u]]
      BY <1>1, <1>2, <2>2, <3>1 DEF DistinctIds
    <3> QED BY <3>2, <3>3, LostByPrinted
  <2>3. CASE d = c /\ u = t
    <3>1. Printed(m_outStream'[d], u)
      <4>1. m_outStream'[d] = Append(m_outStream[d], t)
        BY <1>1, <2>3
      <4> QED BY <1>2, <2>3, <4>1, PrintedAppend
    <3>2. m_outputs'[c][SourceId[t]] # t
      BY <1>1, <1>2
    <3> QED BY <2>3, <3>1, <3>2
  <2> QED BY <2>1, <2>2, <2>3
<1>6. NoTextLost'
  <2>1. \A d \in Collectors : \A u \in written'[d] :
            Printed(m_outStream'[d], u) <=> m_outputs'[d][SourceId[u]] # u
    BY <1>1, <1>5
  <2> QED BY <2>1, Zenon DEF NoTextLost, Printed
<1> QED BY <1>4, <1>6

\* Every step keeps every text in one place.
LEMMA LostNext == DistinctIds /\ LostInv /\ [Next]_vars => LostInv'
<1> SUFFICES ASSUME DistinctIds, LostInv, [Next]_vars PROVE OnlyWritten' /\ NoTextLost'
  BY OrderNext DEF LostInv
<1> DEFINE Goal == OnlyWritten' /\ NoTextLost'
<1>1. ASSUME NEW c \in Collectors, NEW t \in Tasks, Write(c, t) PROVE Goal
  BY <1>1, LostWriteExpected, LostWriteCached DEF Write
<1>2. ASSUME NEW c \in Collectors, Drain(c) PROVE Goal
  <2>1. ASSUME NEW key \in FreedKeys(c), DrainNext(c, key) PROVE Goal
    BY <1>2, <2>1, LostDrainNext DEF Drain
  <2>2. CASE DrainEnd(c)
    BY <1>2, <2>2 DEF Drain, DrainEnd, LostInv, OnlyWritten, NoTextLost
  <2> QED BY <1>2, <2>1, <2>2 DEF Drain
<1>3. CASE UNCHANGED vars
  BY <1>3 DEF vars, collectorVars, LostInv, OnlyWritten, NoTextLost
<1> QED BY <1>1, <1>2, <1>3 DEF Next, Finished

\* Nothing has been written, cached or printed.
LEMMA LostInit == Init => LostInv
<1> HAVE Init
<1>1. OrderInv
  BY TypeInit DEF OrderInv, Init, CollectorInit, NextIsLength, CachedUnderOwnId, OutputInOrder
<1>2. OnlyWritten /\ NoTextLost
  BY DEF Init, CollectorInit, OnlyWritten, NoTextLost
<1> QED BY <1>1, <1>2 DEF LostInv

\* If the tasks have different ids, a text handed to Write is ever after in
\* exactly one place, printed or in the map under its id.
THEOREM NothingLost == DistinctIds => (Spec => []NoTextLost)
<1> SUFFICES ASSUME DistinctIds PROVE Spec => []NoTextLost
  OBVIOUS
<1>1. Init => LostInv
  BY LostInit
<1>2. LostInv /\ [Next]_vars => LostInv'
  BY LostNext
<1>3. LostInv => NoTextLost
  BY DEF LostInv
<1> QED BY <1>1, <1>2, <1>3, PTL DEF Spec

-----------------------------------------------------------------------------
(***************************************************************************)
(* The two maps and the two streams change together, provided the key that   *)
(* the drain reads from the freed node is still the one it was erased under. *)
(***************************************************************************)
DebugInv == TypeOK /\ m_debugs = m_outputs /\ m_debugStream = m_outStream

\* One iteration of the drain erases and prints the debug text of the text it
\* erases and prints.
LEMMA DebugDrainNext ==
    ASSUME DebugInv, NEW c \in Collectors, DrainNext(c, m_nextOutput[c])
    PROVE  m_debugs' = m_outputs' /\ m_debugStream' = m_outStream'
<1> DEFINE due == m_nextOutput[c]
<1>1. due \in Ids /\ m_debugs[c][due] # NoTask
  BY DEF DrainNext, Cached, DebugInv
<1>2. /\ m_debugStream' = [m_debugStream EXCEPT ![c] = Append(@, m_debugs[c][due])]
      /\ m_debugs' = [m_debugs EXCEPT ![c][due] = NoTask]
  BY <1>1 DEF DrainNext
<1>3. /\ m_outStream' = [m_outStream EXCEPT ![c] = Append(@, m_outputs[c][due])]
      /\ m_outputs' = [m_outputs EXCEPT ![c][due] = NoTask]
  BY DEF DrainNext
<1> QED BY <1>2, <1>3 DEF DebugInv

\* Every step keeps outputs and debug texts together.
LEMMA DebugNext == FreedKeyIntact /\ DebugInv /\ [Next]_vars => DebugInv'
<1> SUFFICES ASSUME FreedKeyIntact, DebugInv, [Next]_vars
             PROVE  m_debugs' = m_outputs' /\ m_debugStream' = m_outStream'
  BY TypeNext DEF DebugInv
<1> DEFINE Goal == m_debugs' = m_outputs' /\ m_debugStream' = m_outStream'
<1>1. ASSUME NEW c \in Collectors, NEW t \in Tasks, Write(c, t) PROVE Goal
  BY <1>1 DEF Write, WriteExpected, WriteCached, DebugInv
<1>2. ASSUME NEW c \in Collectors, Drain(c) PROVE Goal
  <2>1. ASSUME NEW key \in FreedKeys(c), DrainNext(c, key) PROVE Goal
    BY <2>1, DebugDrainNext DEF FreedKeys
  <2>2. CASE DrainEnd(c)
    BY <2>2 DEF DrainEnd, DebugInv
  <2> QED BY <1>2, <2>1, <2>2 DEF Drain
<1>3. CASE UNCHANGED vars
  BY <1>3 DEF vars, collectorVars, DebugInv
<1> QED BY <1>1, <1>2, <1>3 DEF Next, Finished

\* If a freed node keeps its key, the debug stream follows the output stream
\* for any tasks, collectors and ids, repeated ids included.
THEOREM DebugCorrect == FreedKeyIntact => (Spec => []DebugFollowsOutput)
<1> SUFFICES ASSUME FreedKeyIntact PROVE Spec => []DebugFollowsOutput
  OBVIOUS
<1>1. Init => DebugInv
  BY TypeInit DEF Init, CollectorInit, DebugInv
<1>2. DebugInv /\ [Next]_vars => DebugInv'
  BY DebugNext
<1>3. DebugInv => DebugFollowsOutput
  BY DEF DebugInv, DebugFollowsOutput
<1> QED BY <1>1, <1>2, <1>3, PTL DEF Spec

-----------------------------------------------------------------------------
(***************************************************************************)
(* The refinement: what a step does to a collector the ordered stream can do *)
(* to its texts.                                                             *)
(***************************************************************************)
OrderedVars == <<written[AnyCollector], m_outStream[AnyCollector]>>

\* Write delivers a text, and prints it exactly if it is due; an iteration of
\* the drain emits the text that is due; other steps stutter.
LEMMA StepRefines ==
    ASSUME Collectors # {}, LostInv, [Next]_vars
    PROVE  [Ordered!Next]_OrderedVars
<1> USE CollectorAssumption, SourceIdAssumption DEF LostInv, OrderInv, TypeOK, CollectorTypeOK
<1> DEFINE a == AnyCollector
           Goal == Ordered!Next \/ UNCHANGED OrderedVars
<1>1. a \in Collectors
  BY DEF AnyCollector
<1>2. m_nextOutput[a] = Len(m_outStream[a])
  BY <1>1 DEF NextIsLength
<1> HIDE DEF a
<1>3. ASSUME NEW c \in Collectors, NEW t \in Tasks, Write(c, t) PROVE Goal
  <2>1. CASE c # a
    BY <1>1, <1>3, <2>1 DEF Write, WriteExpected, WriteCached, OrderedVars, a
  <2>2. CASE c = a
    <3>1. t \notin written[a] /\ written'[a] = written[a] \cup {t}
      BY <1>1, <1>3, <2>2 DEF Write
    <3>2. m_outStream'[a] = IF SourceId[t] = Len(m_outStream[a])
                            THEN Append(m_outStream[a], t) ELSE m_outStream[a]
      BY <1>1, <1>2, <1>3, <2>2 DEF Write, WriteExpected, WriteCached
    <3>3. Ordered!Deliver(t)
      BY <3>1, <3>2 DEF Ordered!Deliver, Ordered!Due, a
    <3> QED BY <3>3 DEF Ordered!Next
  <2> QED BY <2>1, <2>2
<1>4. ASSUME NEW c \in Collectors, Drain(c) PROVE Goal
  <2>1. ASSUME NEW key \in FreedKeys(c), DrainNext(c, key) PROVE Goal
    <3>1. CASE c # a
      BY <1>1, <1>4, <2>1, <3>1 DEF Drain, DrainNext, OrderedVars, a
    <3>2. CASE c = a
      <4> DEFINE t == m_outputs[a][m_nextOutput[a]]
      <4>1. /\ m_nextOutput[a] \in Ids /\ t # NoTask
            /\ m_outStream'[a] = Append(m_outStream[a], t)
        BY <1>1, <2>1, <3>2 DEF DrainNext, Cached
      <4>2. t \in written[a] /\ SourceId[t] = m_nextOutput[a] /\ t \in Tasks
        BY <1>1, <4>1 DEF OnlyWritten, CachedUnderOwnId
      <4>3. written' = written
        BY <1>4 DEF Drain
      <4> HIDE DEF t
      <4>4. Ordered!Emit(t)
        BY <1>2, <4>1, <4>2, <4>3 DEF Ordered!Emit, Ordered!Due, a
      <4> QED BY <4>2, <4>4 DEF Ordered!Next
    <3> QED BY <3>1, <3>2
  <2>2. CASE DrainEnd(c)
    BY <1>4, <2>2 DEF Drain, DrainEnd, OrderedVars
  <2> QED BY <1>4, <2>1, <2>2 DEF Drain
<1>5. CASE UNCHANGED vars
  BY <1>5 DEF vars, collectorVars, OrderedVars
<1> QED BY <1>3, <1>4, <1>5 DEF Next, Finished

\* A collector whose tasks have different ids implements the ordered stream, as
\* far as safety goes.
THEOREM RefinesOrderedOutput ==
    ASSUME Collectors # {}, DistinctIds
    PROVE  Spec => Ordered!Init /\ [][Ordered!Next]_OrderedVars
<1>1. Init => LostInv /\ Ordered!Init
  <2> HAVE Init
  <2>1. LostInv
    BY LostInit
  <2>2. AnyCollector \in Collectors
    BY DEF AnyCollector
  <2> QED BY <2>1, <2>2 DEF Init, CollectorInit, Ordered!Init
<1>2. LostInv /\ [Next]_vars => LostInv'
  BY LostNext
<1>3. LostInv /\ [Next]_vars => [Ordered!Next]_OrderedVars
  BY StepRefines
<1> QED BY <1>1, <1>2, <1>3, PTL DEF Spec
=============================================================================
