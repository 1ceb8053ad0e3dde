-------------------------- MODULE MpscQueue_proofs --------------------------
(***************************************************************************)
(* Theorems about module MpscQueue for any sets of nodes, batches and      *)
(* producers: the steps of the queue are described by positions in the     *)
(* history queue (Appended, Removed, LinkedBatch), the rest is about those.*)
(***************************************************************************)
EXTENDS MpscQueue, SequenceTheorems, TLAPS

\* Positions next to each other.
LEMMA Neighbours ==
  ASSUME NEW n \in Nat, NEW i \in 1 .. n
  PROVE  /\ i # n => i + 1 \in 1 .. n /\ i \in 1 .. n - 1
         /\ i # 1 => i - 1 \in 1 .. n /\ i - 1 \in 1 .. n - 1 /\ (i - 1) + 1 = i
         /\ i \in 1 .. n - 1 => i + 1 \in 1 .. n
         /\ n - 1 \in Nat /\ n \in 1 .. n
  OBVIOUS

\* Sequences, by position.
LEMMA Positions ==
  ASSUME NEW s \in Seq(Nodes)
  PROVE  /\ Len(s) \in Nat /\ \A i \in 1 .. Len(s) : s[i] \in Nodes
         /\ Members(s) = {s[i] : i \in 1 .. Len(s)}
         /\ s = <<>> <=> Len(s) = 0
         /\ s # <<>> => Head(s) = s[1] /\ 1 \in 1 .. Len(s) /\ Len(s) \in 1 .. Len(s)
  BY LenProperties, ElementOfSeq, EmptySeq DEF Members

LEMMA NoMembers == Members(<<>>) = {}
  <1> DEFINE s == <<>>
  <1>1. s \in Seq(Nodes) /\ Len(s) = 0
    BY EmptySeq
  <1> HIDE DEF s
  <1>2. Members(s) = {s[i] : i \in 1 .. 0}
    BY <1>1, Positions
  <1>3. QED
    BY <1>2 DEF s

LEMMA Appended ==
  ASSUME NEW s \in Seq(Nodes), NEW t \in Seq(Nodes)
  PROVE  /\ s \o t \in Seq(Nodes) /\ Len(s \o t) = Len(s) + Len(t)
         /\ \A i \in 1 .. Len(s) : (s \o t)[i] = s[i]
         /\ \A i \in 1 .. Len(t) : (s \o t)[Len(s) + i] = t[i]
         /\ Members(s \o t) = Members(s) \cup Members(t)
  <1>1. /\ s \o t \in Seq(Nodes) /\ Len(s \o t) = Len(s) + Len(t)
        /\ \A i \in 1 .. Len(s) + Len(t) :
              (s \o t)[i] = IF i <= Len(s) THEN s[i] ELSE t[i - Len(s)]
    BY ConcatProperties
  <1>2. Len(s) \in Nat /\ Len(t) \in Nat
    BY LenProperties
  <1>3. \A i \in 1 .. Len(s) : (s \o t)[i] = s[i]
    BY <1>1, <1>2
  <1>4. \A i \in 1 .. Len(t) : (s \o t)[Len(s) + i] = t[i]
    BY <1>1, <1>2
  <1>5. ASSUME NEW i \in 1 .. Len(s) + Len(t)
        PROVE  i \in 1 .. Len(s) \/ (i - Len(s) \in 1 .. Len(t) /\ i = Len(s) + (i - Len(s)))
    BY <1>2
  <1>6. \A i \in 1 .. Len(t) : Len(s) + i \in 1 .. Len(s) + Len(t)
    BY <1>2
  <1>7. Members(s \o t) = {(s \o t)[i] : i \in 1 .. Len(s) + Len(t)}
    BY <1>1, Positions
  <1>8. Members(s \o t) \subseteq Members(s) \cup Members(t)
    BY <1>1, <1>5, <1>7, Positions
  <1>9. Members(s) \subseteq Members(s \o t)
    BY <1>2, <1>3, <1>7, Positions
  <1>10. Members(t) \subseteq Members(s \o t)
    BY <1>4, <1>6, <1>7, Positions
  <1>11. QED
    BY <1>1, <1>3, <1>4, <1>8, <1>9, <1>10

LEMMA Removed ==
  ASSUME NEW s \in Seq(Nodes), s # <<>>
  PROVE  /\ Tail(s) \in Seq(Nodes) /\ Len(Tail(s)) = Len(s) - 1
         /\ \A i \in 1 .. Len(s) - 1 : Tail(s)[i] = s[i + 1]
         /\ Members(Tail(s)) \subseteq Members(s)
         /\ \A n \in Members(s) : n # s[1] => n \in Members(Tail(s))
  <1>1. /\ Tail(s) \in Seq(Nodes) /\ Len(Tail(s)) = Len(s) - 1
        /\ \A i \in 1 .. Len(s) - 1 : Tail(s)[i] = s[i + 1]
    BY HeadTailProperties
  <1>2. Len(s) \in Nat
    BY LenProperties
  <1>3. Members(Tail(s)) = {s[i + 1] : i \in 1 .. Len(s) - 1}
    <2>1. Members(Tail(s)) = {Tail(s)[i] : i \in 1 .. Len(s) - 1}
      BY <1>1, Positions
    <2>2. QED
      BY <1>1, <2>1
  <1>4. Members(s) = {s[i] : i \in 1 .. Len(s)}
    BY Positions
  <1>5. ASSUME NEW i \in 1 .. Len(s), i # 1
        PROVE  i - 1 \in 1 .. Len(s) - 1 /\ (i - 1) + 1 = i
    BY <1>2, <1>5, Neighbours
  <1>6. \A i \in 1 .. Len(s) - 1 : i + 1 \in 1 .. Len(s) /\ i \in 1 .. Len(s)
    BY <1>2
  <1>7. Members(Tail(s)) \subseteq Members(s)
    BY <1>3, <1>4, <1>6
  <1>8. ASSUME NEW n \in Members(s), n # s[1] PROVE n \in Members(Tail(s))
    BY <1>3, <1>4, <1>5, <1>8
  <1>9. QED
    BY <1>1, <1>7, <1>8

\* What StartPush does to the next fields.
LEMMA LinkedBatch ==
  ASSUME QueueTypeOK, NEW s \in Batches, next' = Override(next, Linked(s))
  PROVE  /\ next' \in [Nodes -> Nodes \cup {Null}]
         /\ \A i \in 1 .. Len(s) : next'[s[i]] = IF i = Len(s) THEN Null ELSE s[i + 1]
         /\ \A n \in Nodes \ Members(s) : next'[n] = next[n]
  <1>1. /\ s \in Seq(Nodes) /\ DOMAIN s = 1 .. Len(s) /\ Len(s) \in Nat
        /\ \A i, j \in 1 .. Len(s) : s[i] = s[j] => i = j
        /\ \A i \in 1 .. Len(s) : s[i] \in Nodes
    BY MpscQueueAssumption, LenProperties, ElementOfSeq
  <1>2. Members(s) = {s[i] : i \in 1 .. Len(s)} /\ Members(s) \subseteq Nodes
    BY <1>1 DEF Members
  <1>3. ASSUME NEW i \in 1 .. Len(s)
        PROVE  Linked(s)[s[i]] = IF i = Len(s) THEN Null ELSE s[i + 1]
    <2> DEFINE k == CHOOSE k \in DOMAIN s : s[k] = s[i]
    <2>1. k \in 1 .. Len(s) /\ s[k] = s[i]
      BY <1>1
    <2>2. k = i
      BY <1>1, <2>1
    <2>3. s[i] \in Members(s)
      BY <1>2
    <2>4. Linked(s)[s[i]] = IF k = Len(s) THEN Null ELSE s[k + 1]
      BY <2>3 DEF Linked
    <2>5. QED
      BY <2>2, <2>4
  <1>4. DOMAIN Linked(s) = Members(s)
    BY DEF Linked
  <1>5. next' = [n \in Nodes |-> IF n \in Members(s) THEN Linked(s)[n] ELSE next[n]]
    BY <1>4 DEF QueueTypeOK, Override
  <1>6. \A n \in Members(s) : Linked(s)[n] \in Nodes \cup {Null}
    <2>1. ASSUME NEW i \in 1 .. Len(s), i # Len(s) PROVE i + 1 \in 1 .. Len(s)
      BY <1>1, <2>1, Neighbours
    <2>2. QED
      BY <1>1, <1>2, <1>3, <2>1
  <1>7. next' \in [Nodes -> Nodes \cup {Null}]
    BY <1>5, <1>6 DEF QueueTypeOK
  <1>8. ASSUME NEW i \in 1 .. Len(s)
        PROVE  next'[s[i]] = IF i = Len(s) THEN Null ELSE s[i + 1]
    <2>1. s[i] \in Members(s) /\ s[i] \in Nodes
      BY <1>1, <1>2
    <2>2. next'[s[i]] = Linked(s)[s[i]]
      BY <1>5, <2>1
    <2>3. QED
      BY <1>3, <2>2
  <1>9. \A n \in Nodes \ Members(s) : next'[n] = next[n]
    BY <1>5
  <1>10. QED
    BY <1>7, <1>8, <1>9

LEMMA QueueType ==
  ASSUME QueueTypeOK
  PROVE  /\ queue \in Seq(Nodes) /\ Len(queue) \in Nat
         /\ \A i \in 1 .. Len(queue) : queue[i] \in Nodes
         /\ queue # <<>> => /\ 1 \in 1 .. Len(queue) /\ Len(queue) \in 1 .. Len(queue)
                            /\ queue[1] \in Nodes /\ queue[Len(queue)] \in Nodes
         /\ queue = <<>> <=> Len(queue) = 0
  BY Positions DEF QueueTypeOK

LEMMA BatchType ==
  ASSUME QueueTypeOK, NodesApart, NEW p \in Producers
  PROVE  /\ batch[p] \in Seq(Nodes) /\ Len(batch[p]) \in Nat
         /\ \A i \in 1 .. Len(batch[p]) : batch[p][i] \in Nodes /\ batch[p][i] \in Members(batch[p])
         /\ ppc[p] # "idle" => /\ batch[p] # <<>> /\ 1 \in 1 .. Len(batch[p])
                               /\ Len(batch[p]) \in 1 .. Len(batch[p]) /\ batch[p] \in Batches
                               /\ Head(batch[p]) = batch[p][1] /\ batch[p][1] \in Nodes
  <1>1. batch[p] \in Seq(Nodes) /\ (batch[p] # <<>> => batch[p] \in Batches)
    <2>1. <<>> \in Seq(Nodes)
      BY EmptySeq
    <2>2. Batches \subseteq Seq(Nodes)
      BY MpscQueueAssumption
    <2>3. batch[p] \in Batches \cup {<<>>}
      BY DEF QueueTypeOK
    <2>4. QED
      BY <2>1, <2>2, <2>3
  <1>2. ppc[p] = "idle" <=> batch[p] = <<>>
    BY DEF NodesApart, InPlace
  <1>3. QED
    BY <1>1, <1>2, Positions

LEMMA TypeStep ==
  ASSUME QueueTypeOK, NodesApart, ListFollows, ConsumerFollows, QueueNext
  PROVE  QueueTypeOK'
  <1>1. /\ Null \notin Nodes /\ Stub \notin Nodes /\ Unread \notin Nodes
        /\ Null # Stub /\ Null # Unread /\ Stub # Unread
    BY MpscQueueAssumption
  \* The node that the consumer stands at.
  <1>2. /\ cpc \notin Closing /\ front # Stub => queue # <<>>
        /\ cpc = "callback" => front # Stub /\ nxt \in Nodes /\ cur \in Nodes /\ queue # <<>>
        /\ cpc = "stop" => front # Stub /\ nxt \in Nodes
        /\ cpc = "store" => front # Stub /\ cur \in Nodes
        /\ cpc = "load" => cur # Null
        /\ cpc = "loop" /\ cur # Stub => cur \in Nodes
        /\ cpc = "drain" => queue # <<>>
        /\ cpc = "closing" /\ cur # Null => cur \in Nodes
    <2>1. cpc \notin Closing /\ front # Stub => queue # <<>> /\ queue[1] \in Nodes
      BY QueueType DEF ConsumerFollows, AtFront, AtDrain
    <2>2. cpc = "callback" => front # Stub /\ nxt \in Nodes /\ cur \in Nodes /\ queue # <<>>
      <3>1. cpc = "callback" => cpc \notin Closing /\ front # Stub /\ Len(queue) > 1 /\ nxt = queue[2]
        BY DEF ConsumerFollows, AtFront, AtDrain, Closing
      <3>2. Len(queue) > 1 => 2 \in 1 .. Len(queue)
        BY QueueType
      <3>3. QED
        BY <2>1, <3>1, <3>2, QueueType DEF ConsumerFollows, AtFront, AtDrain
    <2>3. cpc \in {"stop", "store", "load", "loop"} => cpc \notin Closing
      BY DEF Closing
    <2>4. cpc \in {"stop", "store"} => front # Stub
      BY <2>3 DEF ConsumerFollows, AtFront, AtDrain
    <2>5. cpc \in {"drain", "closing"} => cpc \in Closing
      BY DEF Closing
    <2>6. QED
      BY <1>1, <2>1, <2>2, <2>3, <2>4, <2>5, QueueType DEF QueueTypeOK, ConsumerFollows, AtFront, AtDrain
  <1>3. ASSUME NEW p \in Producers, NEW s \in Batches, StartPush(p, s)
        PROVE  QueueTypeOK'
    <2>1. next' \in [Nodes -> Nodes \cup {Null}]
      BY <1>3, LinkedBatch DEF StartPush
    <2>2. QED
      BY <1>3, <2>1 DEF QueueTypeOK, StartPush, consuming
  <1>4. ASSUME NEW p \in Producers, ExchangeBack(p)
        PROVE  QueueTypeOK'
    <2>1. batch[p][Len(batch[p])] \in Nodes /\ queue' \in Seq(Nodes)
      BY <1>4, BatchType, QueueType, Appended DEF ExchangeBack
    <2>2. QED
      BY <1>4, <2>1 DEF QueueTypeOK, ExchangeBack, consuming
  <1>5. ASSUME NEW p \in Producers, LinkPrev(p)
        PROVE  QueueTypeOK'
    <2>1. Head(batch[p]) \in Nodes
      BY <1>5, BatchType DEF LinkPrev
    <2>2. QED
      BY <1>5, <2>1 DEF QueueTypeOK, LinkPrev, consuming
  <1>6. CASE StartProcess
    BY <1>1, <1>2, <1>6 DEF QueueTypeOK, StartProcess, shared, pushing
  <1>7. CASE LoadFront
    BY <1>1, <1>2, <1>7 DEF QueueTypeOK, LoadFront, shared, pushing
  <1>8. CASE LoadBack
    BY <1>1, <1>2, <1>8 DEF QueueTypeOK, LoadBack, shared, pushing
  <1>9. CASE AtStub
    BY <1>1, <1>2, <1>9 DEF QueueTypeOK, AtStub, Done, shared, pushing
  <1>10. CASE ReadNext
    BY <1>1, <1>2, <1>10 DEF QueueTypeOK, ReadNext, shared, pushing
  <1>11. CASE ReachBack
    BY <1>1, <1>2, <1>11 DEF QueueTypeOK, ReachBack, shared, pushing
  <1>12. CASE StoreStop
    BY <1>1, <1>2, <1>12 DEF QueueTypeOK, StoreStop, Done, shared, pushing
  <1>13. CASE StoreEnd
    BY <1>1, <1>2, <1>13 DEF QueueTypeOK, StoreEnd, Done, shared, pushing
  <1>14. CASE StartClosing
    BY <1>1, <1>2, <1>14 DEF QueueTypeOK, StartClosing, shared, pushing
  <1>15. CASE DrainNext
    BY <1>1, <1>2, <1>15 DEF QueueTypeOK, DrainNext, shared, pushing
  <1>16. CASE EndClosing
    BY <1>1, <1>2, <1>16 DEF QueueTypeOK, EndClosing, shared, pushing
  <1>17. CASE Callback
    <2>1. queue' \in Seq(Nodes)
      BY <1>2, <1>17, QueueType, Removed DEF Callback
    <2>2. QED
      BY <1>1, <1>2, <1>17, <2>1 DEF QueueTypeOK, Callback, shared, pushing
  <1>18. CASE DrainCallback
    <2>1. queue' \in Seq(Nodes)
      BY <1>2, <1>18, QueueType, Removed DEF DrainCallback
    <2>2. QED
      BY <1>1, <1>2, <1>18, <2>1 DEF QueueTypeOK, DrainCallback, shared, pushing
  <1>19. QED
    BY <1>3, <1>4, <1>5, <1>6, <1>7, <1>8, <1>9, <1>10, <1>11, <1>12, <1>13, <1>14, <1>15, <1>16, <1>17, <1>18
       DEF QueueNext, Push, Process, Drain

----------------------------------------------------------------------------
\* Where the nodes are.

\* Two producers do not wait for the same link.
LEMMA OneJoiner ==
  ASSUME QueueTypeOK, NodesApart, NEW p \in Producers, NEW q \in Producers, p # q,
         ppc[p] = "link", ppc[q] = "link"
  PROVE  prev[p] # prev[q]
  <1> PICK i \in 1 .. Len(queue) : Joins(p, i)
    BY DEF NodesApart, InPlace
  <1> PICK k \in 1 .. Len(queue) : Joins(q, k)
    BY DEF NodesApart, InPlace
  <1>1. Members(batch[p]) \cap Members(batch[q]) = {}
    BY DEF NodesApart, InPlace
  <1>2. \A r \in {p, q} : 1 \in 1 .. Len(batch[r]) /\ batch[r][1] \in Members(batch[r])
    BY BatchType
  <1>3. queue[i] = batch[p][1] /\ queue[k] = batch[q][1]
    BY <1>2, QueueType DEF Joins
  <1>4. i # k
    BY <1>1, <1>2, <1>3
  <1>5. CASE prev[p] = Null
    BY <1>4, <1>5, QueueType DEF Joins
  <1>6. CASE prev[p] # Null
    <2>1. i > 1 /\ queue[i - 1] = prev[p] /\ i - 1 \in 1 .. Len(queue)
      BY <1>6, QueueType, Neighbours DEF Joins
    <2>2. CASE prev[q] = Null
      BY <1>6, <2>2
    <2>3. CASE prev[q] # Null
      <3>1. k > 1 /\ queue[k - 1] = prev[q] /\ k - 1 \in 1 .. Len(queue)
        BY <2>3, QueueType, Neighbours DEF Joins
      <3>2. i - 1 # k - 1
        BY <1>4
      <3>3. QED
        BY <2>1, <3>1, <3>2 DEF NodesApart, InPlace
    <2>4. QED
      BY <2>2, <2>3
  <1>7. QED
    BY <1>5, <1>6

\* What a producer waits to link to is in the queue.
LEMMA PrevInQueue ==
  ASSUME QueueTypeOK, NodesApart, NEW p \in Producers, ppc[p] = "link", prev[p] # Null
  PROVE  prev[p] \in Members(queue) /\ prev[p] \in Nodes /\ next[prev[p]] = Null
  <1> PICK i \in 1 .. Len(queue) : Joins(p, i)
    BY DEF NodesApart, InPlace
  <1>1. i - 1 \in 1 .. Len(queue) /\ queue[i - 1] = prev[p] /\ next[prev[p]] = Null
    BY QueueType, Neighbours DEF Joins
  <1>2. QED
    BY <1>1, QueueType, Positions

LEMMA ApartSame ==
  ASSUME NodesApart, UNCHANGED <<queue, next, batch, prev, ppc>>, front' = front \/ front # Stub
  PROVE  NodesApart'
  <1>1. ASSUME NEW p \in Producers, NEW i \in 1 .. Len(queue), Joins(p, i)
        PROVE  Joins(p, i)'
    BY <1>1 DEF Joins
  <1>2. QED
    BY <1>1 DEF NodesApart, InPlace

LEMMA ApartStep ==
  ASSUME QueueTypeOK, NodesApart, ListFollows, ConsumerFollows, QueueNext
  PROVE  NodesApart'
  <1>1. ASSUME NEW p \in Producers, NEW s \in Batches, StartPush(p, s)
        PROVE  NodesApart'
    <2>1. /\ Members(s) \cap Members(queue) = {}
          /\ \A q \in Producers : Members(s) \cap Members(batch[q]) = {}
          /\ ppc[p] = "idle" /\ s # <<>>
      BY <1>1, MpscQueueAssumption DEF StartPush, Free
    <2>2. /\ batch'[p] = s /\ ppc'[p] = "exchange"
          /\ \A q \in Producers : q # p => batch'[q] = batch[q] /\ ppc'[q] = ppc[q]
          /\ front' = front /\ prev' = prev /\ queue' = queue
      BY <1>1 DEF QueueTypeOK, StartPush
    <2>3. /\ \A i \in 1 .. Len(s) : next'[s[i]] = IF i = Len(s) THEN Null ELSE s[i + 1]
          /\ \A n \in Nodes \ Members(s) : next'[n] = next[n]
      BY <1>1, LinkedBatch DEF StartPush
    <2>4. ASSUME NEW q \in Producers, q # p, NEW i \in 1 .. Len(batch[q])
          PROVE  next'[batch[q][i]] = next[batch[q][i]]
      <3>1. batch[q][i] \in Nodes /\ batch[q][i] \in Members(batch[q])
        BY BatchType
      <3>2. QED
        BY <2>1, <2>3, <3>1
    <2>5. ASSUME NEW q \in Producers, q # p, ppc[q] = "link"
          PROVE  \E i \in 1 .. Len(queue) : Joins(q, i)'
      <3>1. PICK i \in 1 .. Len(queue) : Joins(q, i)
        BY <2>5 DEF NodesApart, InPlace
      <3>2. prev[q] # Null => next'[prev[q]] = next[prev[q]]
        BY <2>1, <2>3, <2>5, PrevInQueue
      <3>3. QED
        BY <2>2, <2>5, <3>1, <3>2 DEF Joins
    <2>6. \A q, r \in Producers : q # r => Members(batch'[q]) \cap Members(batch'[r]) = {}
      BY <2>1, <2>2 DEF NodesApart, InPlace
    <2>7. ASSUME NEW q \in Producers PROVE InPlace(q)'
      <3>1. CASE q = p
        BY <2>1, <2>2, <2>3, <3>1 DEF NodesApart, InPlace
      <3>2. CASE q # p
        BY <2>2, <2>4, <2>5, <3>2 DEF NodesApart, InPlace
      <3>3. QED
        BY <3>1, <3>2
    <2>8. QED
      BY <2>2, <2>6, <2>7 DEF NodesApart
  <1>2. ASSUME NEW p \in Producers, ExchangeBack(p)
        PROVE  NodesApart'
    <2>1. /\ Members(batch[p]) \cap Members(queue) = {}
          /\ \A q \in Producers : q # p => Members(batch[p]) \cap Members(batch[q]) = {}
          /\ cpc \notin Closing /\ ppc[p] = "exchange"
      BY <1>2 DEF NodesApart, InPlace, ConsumerFollows, AtFront, AtDrain, ExchangeBack
    <2>2. /\ next' = next /\ batch' = batch /\ front' = front /\ queue' = queue \o batch[p]
          /\ prev'[p] = back /\ ppc'[p] = "link"
          /\ \A q \in Producers : q # p => prev'[q] = prev[q] /\ ppc'[q] = ppc[q]
      BY <1>2 DEF QueueTypeOK, ExchangeBack
    <2>3. /\ queue \in Seq(Nodes) /\ batch[p] \in Seq(Nodes)
          /\ Len(queue) \in Nat /\ Len(batch[p]) \in Nat /\ Len(batch[p]) \in 1 .. Len(batch[p])
          /\ Len(queue') = Len(queue) + Len(batch[p])
          /\ \A i \in 1 .. Len(queue) : queue'[i] = queue[i]
          /\ \A i \in 1 .. Len(batch[p]) : queue'[Len(queue) + i] = batch[p][i]
          /\ Members(queue') = Members(queue) \cup Members(batch[p])
      BY <2>1, <2>2, QueueType, BatchType, Appended
    <2>4. \A i, j \in 1 .. Len(queue') : queue'[i] = queue'[j] => i = j
      <3>1. \A i \in 1 .. Len(queue) : queue[i] \in Members(queue)
        BY <2>3, Positions
      <3>2. \A i \in 1 .. Len(batch[p]) : batch[p][i] \in Members(batch[p])
        BY BatchType
      <3>3. \A i, j \in 1 .. Len(batch[p]) : batch[p][i] = batch[p][j] => i = j
        <4>1. batch[p] \in Batches /\ DOMAIN batch[p] = 1 .. Len(batch[p])
          BY <2>1, <2>3, BatchType, LenProperties
        <4>2. QED
          BY <4>1, MpscQueueAssumption
      <3>4. ASSUME NEW i \in 1 .. Len(queue'), i \notin 1 .. Len(queue)
            PROVE  /\ i - Len(queue) \in 1 .. Len(batch[p])
                   /\ queue'[i] = batch[p][i - Len(queue)]
        <4>1. i - Len(queue) \in 1 .. Len(batch[p]) /\ i = Len(queue) + (i - Len(queue))
          BY <2>3, <3>4
        <4>2. QED
          BY <2>3, <4>1
      <3>5. SUFFICES ASSUME NEW i \in 1 .. Len(queue'), NEW j \in 1 .. Len(queue'),
                            queue'[i] = queue'[j]
                     PROVE  i = j
        OBVIOUS
      <3>6. CASE i \in 1 .. Len(queue) /\ j \in 1 .. Len(queue)
        BY <2>3, <3>5, <3>6 DEF NodesApart, InPlace
      <3>7. CASE i \notin 1 .. Len(queue) /\ j \notin 1 .. Len(queue)
        <4>1. i - Len(queue) = j - Len(queue)
          BY <3>3, <3>4, <3>5, <3>7
        <4>2. QED
          BY <2>3, <4>1
      <3>8. CASE i \in 1 .. Len(queue) /\ j \notin 1 .. Len(queue)
        BY <2>1, <2>3, <3>1, <3>2, <3>4, <3>5, <3>8
      <3>9. CASE i \notin 1 .. Len(queue) /\ j \in 1 .. Len(queue)
        BY <2>1, <2>3, <3>1, <3>2, <3>4, <3>5, <3>9
      <3>10. QED
        BY <3>6, <3>7, <3>8, <3>9
    <2>5. ASSUME NEW q \in Producers, ppc[q] = "link"
          PROVE  \E i \in 1 .. Len(queue') : Joins(q, i)'
      <3>1. PICK i \in 1 .. Len(queue) : Joins(q, i)
        BY <2>5 DEF NodesApart, InPlace
      <3>2. q # p /\ i \in 1 .. Len(queue')
        BY <2>1, <2>3, <2>5
      <3>3. \A j \in 1 .. Len(batch[q]) : i + j - 1 \in 1 .. Len(queue)
        BY <2>3, <3>1, BatchType DEF Joins
      <3>4. i > 1 => i - 1 \in 1 .. Len(queue)
        BY <2>3, Neighbours
      <3>5. i + Len(batch[q]) - 1 <= Len(queue')
        BY <2>3, <3>1, BatchType DEF Joins
      <3>6. QED
        BY <2>2, <2>3, <3>1, <3>2, <3>3, <3>4, <3>5, SMTT(40) DEF Joins
    <2>6. \E i \in 1 .. Len(queue') : Joins(p, i)'
      <3>1. Len(queue) + 1 \in 1 .. Len(queue')
            /\ (Len(queue) + 1) + Len(batch[p]) - 1 <= Len(queue')
        <4> DEFINE k == Len(queue)
                   m == Len(batch[p])
        <4>1. k \in Nat /\ m \in Nat /\ m \in 1 .. m /\ Len(queue') = k + m
          BY <2>3
        <4> HIDE DEF k, m
        <4>2. k + 1 \in 1 .. k + m /\ (k + 1) + m - 1 <= k + m
          BY <4>1
        <4>3. QED
          BY <4>1, <4>2 DEF k, m
      <3>2. ASSUME NEW j \in 1 .. Len(batch[p])
            PROVE  queue'[(Len(queue) + 1) + j - 1] = batch[p][j]
        <4>1. (Len(queue) + 1) + j - 1 = Len(queue) + j
          BY <2>3
        <4>2. QED
          BY <2>3, <4>1
      <3>3. CASE queue = <<>>
        <4>1. back = Null /\ front = Stub /\ Len(queue) + 1 = 1
          BY <2>1, <3>3, QueueType DEF ListFollows, ConsumerFollows, AtFront, AtDrain
        <4>2. QED
          BY <2>2, <3>1, <3>2, <4>1 DEF Joins
      <3>4. CASE queue # <<>>
        <4>1. back = queue[Len(queue)] /\ next[back] = Null /\ back # Null
          BY <2>1, <3>4, QueueType, MpscQueueAssumption DEF ListFollows
        <4>2. (Len(queue) + 1) - 1 = Len(queue) /\ Len(queue) + 1 > 1
              /\ Len(queue) \in 1 .. Len(queue)
          BY <3>4, QueueType
        <4>3. queue'[(Len(queue) + 1) - 1] = back
          BY <2>3, <4>1, <4>2
        <4>4. QED
          BY <2>2, <3>1, <3>2, <4>1, <4>2, <4>3 DEF Joins
      <3>5. QED
        BY <3>3, <3>4
    <2>7. \A q, r \in Producers : q # r => Members(batch'[q]) \cap Members(batch'[r]) = {}
      BY <2>2 DEF NodesApart, InPlace
    <2>8. ASSUME NEW q \in Producers PROVE InPlace(q)'
      <3>1. CASE q = p
        BY <2>1, <2>2, <2>6, <3>1 DEF NodesApart, InPlace
      <3>2. CASE q # p
        BY <2>1, <2>2, <2>3, <2>5, <3>2 DEF NodesApart, InPlace
      <3>3. QED
        BY <3>1, <3>2
    <2>9. QED
      BY <2>4, <2>7, <2>8 DEF NodesApart
  <1>3. ASSUME NEW p \in Producers, LinkPrev(p)
        PROVE  NodesApart'
    <2>1. /\ queue' = queue /\ prev'[p] = Null /\ batch'[p] = <<>> /\ ppc'[p] = "idle"
          /\ ppc[p] = "link"
          /\ \A q \in Producers : q # p =>
                /\ prev'[q] = prev[q] /\ batch'[q] = batch[q] /\ ppc'[q] = ppc[q]
      BY <1>3 DEF QueueTypeOK, LinkPrev
    <2>2. /\ prev[p] = Null => next' = next
          /\ prev[p] # Null => front' = front /\ prev[p] \in Members(queue)
          /\ \A n \in Nodes : n # prev[p] => next'[n] = next[n]
      BY <1>3, <2>1, PrevInQueue DEF QueueTypeOK, LinkPrev
    <2>3. Members(<<>>) = {}
      BY NoMembers
    <2>4. ASSUME NEW q \in Producers, q # p, ppc[q] = "exchange", NEW i \in 1 .. Len(batch[q])
          PROVE  next'[batch[q][i]] = next[batch[q][i]]
      <3>1. batch[q][i] \in Members(batch[q]) /\ batch[q][i] \in Nodes
        BY BatchType
      <3>2. Members(batch[q]) \cap Members(queue) = {}
        BY <2>4 DEF NodesApart, InPlace
      <3>3. QED
        BY <2>2, <3>1, <3>2
    <2>5. ASSUME NEW q \in Producers, q # p, ppc[q] = "link"
          PROVE  \E i \in 1 .. Len(queue) : Joins(q, i)'
      <3>1. PICK i \in 1 .. Len(queue) : Joins(q, i)
        BY <2>5 DEF NodesApart, InPlace
      <3>2. prev[q] # prev[p]
        BY <2>1, <2>5, OneJoiner
      <3>3. prev[q] # Null => next'[prev[q]] = next[prev[q]]
        BY <2>2, <2>5, <3>2, PrevInQueue
      <3>4. prev[q] = Null => front' = front
        BY <2>2, <3>2
      <3>5. QED
        BY <2>1, <2>5, <3>1, <3>3, <3>4 DEF Joins
    <2>6. ASSUME NEW q \in Producers, NEW r \in Producers, q # r
          PROVE  Members(batch'[q]) \cap Members(batch'[r]) = {}
      <3>1. CASE p \in {q, r}
        BY <2>1, <2>3, <3>1
      <3>2. CASE p \notin {q, r}
        BY <2>1, <2>6, <3>2 DEF NodesApart
      <3>3. QED
        BY <3>1, <3>2
    <2>7. ASSUME NEW q \in Producers PROVE InPlace(q)'
      <3>1. CASE q = p
        BY <2>1, <3>1 DEF NodesApart, InPlace
      <3>2. CASE q # p
        BY <2>1, <2>4, <2>5, <3>2 DEF NodesApart, InPlace
      <3>3. QED
        BY <3>1, <3>2
    <2>8. QED
      BY <2>1, <2>6, <2>7 DEF NodesApart
  <1>4. ASSUME queue # <<>>, queue' = Tail(queue), UNCHANGED <<front, next, pushing>>,
               \A p \in Producers : ppc[p] = "link" => prev[p] \notin {Null, queue[1]}
        PROVE  NodesApart'
    <2>1. /\ Len(queue) \in Nat \ {0} /\ Len(queue') = Len(queue) - 1
          /\ \A i \in 1 .. Len(queue') : queue'[i] = queue[i + 1]
          /\ Members(queue') \subseteq Members(queue)
      BY <1>4, QueueType, Removed
    <2>2. \A i, j \in 1 .. Len(queue') : queue'[i] = queue'[j] => i = j
      <3>1. SUFFICES ASSUME NEW i \in 1 .. Len(queue'), NEW j \in 1 .. Len(queue'),
                            queue'[i] = queue'[j]
                     PROVE  i = j
        OBVIOUS
      <3>2. i + 1 \in 1 .. Len(queue) /\ j + 1 \in 1 .. Len(queue)
        BY <2>1, Neighbours
      <3>3. i + 1 = j + 1
        BY <2>1, <3>1, <3>2 DEF NodesApart, InPlace
      <3>4. QED
        BY <3>3
    <2>3. ASSUME NEW q \in Producers, ppc[q] = "link"
          PROVE  \E i \in 1 .. Len(queue') : Joins(q, i)'
      <3>1. PICK i \in 1 .. Len(queue) : Joins(q, i)
        BY <2>3 DEF NodesApart, InPlace
      <3>2. i > 1 /\ i - 1 \in 1 .. Len(queue) /\ queue[i - 1] = prev[q] /\ i # 2
        BY <1>4, <2>1, <2>3, <3>1, Neighbours DEF Joins
      <3>3. i - 1 \in 1 .. Len(queue') /\ i - 1 > 1
            /\ i - 2 \in 1 .. Len(queue') /\ (i - 2) + 1 = i - 1 /\ (i - 1) - 1 = i - 2
        BY <2>1, <3>2
      <3>4. /\ (i - 1) + Len(batch[q]) - 1 <= Len(queue')
            /\ \A j \in 1 .. Len(batch[q]) :
                  /\ (i - 1) + j - 1 \in 1 .. Len(queue')
                  /\ ((i - 1) + j - 1) + 1 = i + j - 1
        BY <2>1, <3>1, <3>2, <3>3, BatchType DEF Joins
      <3>5. queue'[(i - 1) - 1] = prev[q]
        BY <2>1, <3>2, <3>3
      <3>6. \A j \in 1 .. Len(batch[q]) : queue'[(i - 1) + j - 1] = batch[q][j]
        BY <2>1, <3>1, <3>4 DEF Joins
      <3>7. Joins(q, i - 1)'
        BY <1>4, <2>3, <3>1, <3>3, <3>4, <3>5, <3>6 DEF Joins, pushing
      <3>8. QED
        BY <3>3, <3>7
    <2>4. QED
      BY <1>4, <2>1, <2>2, <2>3, ZenonT(40) DEF NodesApart, InPlace, pushing
  <1>5. CASE Callback
    <2>1. /\ front # Stub /\ Len(queue) > 1 /\ next[queue[1]] # Null
      BY <1>5, MpscQueueAssumption, QueueType, Neighbours
         DEF ConsumerFollows, AtFront, AtDrain, Closing, Callback
    <2>2. ASSUME NEW p \in Producers, ppc[p] = "link"
          PROVE  prev[p] \notin {Null, queue[1]}
      <3>1. prev[p] # Null
        BY <2>1, <2>2 DEF NodesApart, InPlace, Joins
      <3>2. QED
        BY <2>1, <2>2, <3>1, PrevInQueue
    <2>3. QED
      BY <1>4, <1>5, <2>1, <2>2, QueueType DEF Callback, shared
  <1>6. CASE DrainCallback
    BY <1>4, <1>6 DEF ConsumerFollows, AtFront, AtDrain, Closing, DrainCallback, shared
  <1>7. CASE \/ StartProcess \/ LoadFront \/ LoadBack \/ AtStub \/ ReadNext \/ ReachBack
             \/ StartClosing \/ DrainNext \/ EndClosing
    BY <1>7, ApartSame DEF StartProcess, LoadFront, LoadBack, AtStub, ReadNext, ReachBack,
       StartClosing, DrainNext, EndClosing, shared, pushing
  <1>8. CASE StoreStop \/ StoreEnd
    <2>1. front # Stub
      BY <1>8 DEF ConsumerFollows, AtFront, AtDrain, Closing, StoreStop, StoreEnd
    <2>2. QED
      BY <1>8, <2>1, ApartSame DEF StoreStop, StoreEnd, pushing
  <1>9. QED
    BY <1>1, <1>2, <1>3, <1>5, <1>6, <1>7, <1>8 DEF QueueNext, Push, Process, Drain


----------------------------------------------------------------------------
\* How they are linked.

LEMMA FollowsStep ==
  ASSUME QueueTypeOK, NodesApart, ListFollows, ConsumerFollows, QueueNext
  PROVE  ListFollows'
  <1>1. /\ Len(queue) \in Nat /\ Null \notin Nodes
        /\ \A i \in 1 .. Len(queue) : queue[i] \in Nodes /\ queue[i] \in Members(queue)
    BY QueueType, Positions, MpscQueueAssumption
  <1>2. \A i \in 1 .. Len(queue) - 1 : i \in 1 .. Len(queue) /\ i + 1 \in 1 .. Len(queue)
    BY <1>1
  <1>3. queue # <<>> => Len(queue) \in 1 .. Len(queue)
    BY QueueType
  <1>4. ASSUME NEW p \in Producers, NEW s \in Batches, StartPush(p, s)
        PROVE  ListFollows'
    <2>1. /\ queue' = queue /\ back' = back /\ cpc' = cpc /\ prev' = prev /\ ppc[p] = "idle"
          /\ \A q \in Producers : q # p => batch'[q] = batch[q] /\ ppc'[q] = ppc[q]
      BY <1>4 DEF QueueTypeOK, StartPush, consuming
    <2>2. \A i \in 1 .. Len(queue) : next'[queue[i]] = next[queue[i]]
      BY <1>1, <1>4, LinkedBatch DEF StartPush, Free
    <2>3. \A q \in Producers, m \in Nodes, n \in Nodes : Owes(q, m, n) => Owes(q, m, n)'
      BY <2>1 DEF Owes
    <2>4. ASSUME NEW i \in 1 .. Len(queue) - 1 PROVE Follows(i)'
      BY <1>1, <1>2, <2>1, <2>2, <2>3 DEF ListFollows, Follows
    <2>5. QED
      BY <1>3, <2>1, <2>2, <2>4 DEF ListFollows
  <1>5. ASSUME NEW p \in Producers, ExchangeBack(p)
        PROVE  ListFollows'
    <2> DEFINE t == batch[p]
               m == Len(batch[p])
    <2> PICK k \in Nat : k = Len(queue)
      BY <1>1
    <2>1. /\ t \in Seq(Nodes) /\ m \in Nat /\ 1 \in 1 .. m /\ m \in 1 .. m
          /\ Head(t) = t[1] /\ cpc \notin Closing /\ ppc[p] = "exchange"
          /\ \A i \in 1 .. m : next[t[i]] = IF i = m THEN Null ELSE t[i + 1]
      BY <1>5, BatchType DEF NodesApart, InPlace, ConsumerFollows, AtFront, AtDrain, ExchangeBack
    <2>2. /\ next' = next /\ batch' = batch /\ queue' = queue \o t /\ back' = t[m]
          /\ prev'[p] = back /\ ppc'[p] = "link" /\ cpc' = cpc
          /\ \A q \in Producers : q # p => prev'[q] = prev[q] /\ ppc'[q] = ppc[q]
      BY <1>5 DEF QueueTypeOK, ExchangeBack, consuming
    <2>3. /\ Len(queue') = k + m /\ k \in Nat
          /\ \A i \in 1 .. k : queue'[i] = queue[i]
          /\ \A i \in 1 .. m : queue'[k + i] = t[i]
      BY <1>1, <2>1, <2>2, QueueType, Appended
    <2>4. ASSUME NEW i \in 1 .. k - 1 PROVE Follows(i)'
      <3>1. queue'[i] = queue[i] /\ queue'[i + 1] = queue[i + 1] /\ queue[i] \in Nodes
        BY <1>1, <1>2, <2>3
      <3>2. \A q \in Producers : Owes(q, queue[i], queue[i + 1]) => Owes(q, queue[i], queue[i + 1])'
        BY <2>1, <2>2 DEF Owes
      <3>3. QED
        BY <2>2, <3>1, <3>2 DEF ListFollows, Follows
    <2>5. ASSUME queue # <<>> PROVE Follows(k)'
      <3>1. k \in 1 .. k /\ back = queue[k] /\ next[back] = Null
        BY <1>3, <2>1, <2>5 DEF ListFollows
      <3>2. queue'[k] = back /\ queue'[k + 1] = t[1]
        BY <2>1, <2>3, <3>1
      <3>3. Owes(p, queue[k], t[1])'
        BY <2>1, <2>2, <3>1, <3>2 DEF Owes
      <3>4. QED
        BY <2>2, <3>1, <3>2, <3>3 DEF Follows
    <2>6. ASSUME NEW j \in 1 .. m, j # m PROVE Follows(k + j)'
      <3>1. j + 1 \in 1 .. m
        BY <2>1, <2>6, Neighbours
      <3>2. (k + j) + 1 = k + (j + 1)
        BY <2>1, <2>3
      <3>3. queue'[k + j] = t[j] /\ queue'[(k + j) + 1] = t[j + 1]
        BY <2>3, <3>1, <3>2
      <3>4. QED
        BY <2>1, <2>2, <2>6, <3>3 DEF Follows
    <2>7. ASSUME NEW i \in 1 .. Len(queue') - 1
          PROVE  i \in 1 .. k - 1 \/ (queue # <<>> /\ i = k)
                 \/ (i - k \in 1 .. m /\ i - k # m /\ i = k + (i - k))
      <3>1. queue = <<>> <=> k = 0
        BY QueueType
      <3> HIDE DEF m
      <3>2. QED
        BY <2>1, <2>3, <3>1
    <2>8. \A i \in 1 .. Len(queue') - 1 : Follows(i)'
      BY <2>4, <2>5, <2>6, <2>7
    <2>9. queue' # <<>> /\ queue'[Len(queue')] = t[m]
      <3>1. Len(queue') # 0 /\ queue' \in Seq(Nodes)
        BY <2>1, <2>2, <2>3, QueueType, Appended
      <3>2. QED
        BY <2>1, <2>3, <3>1, Positions
    <2>10. QED
      BY <2>1, <2>2, <2>8, <2>9 DEF ListFollows
  <1>6. ASSUME NEW p \in Producers, LinkPrev(p)
        PROVE  ListFollows'
    <2>1. /\ queue' = queue /\ back' = back /\ cpc' = cpc /\ ppc[p] = "link"
          /\ \A q \in Producers : q # p =>
                /\ prev'[q] = prev[q] /\ batch'[q] = batch[q] /\ ppc'[q] = ppc[q]
      BY <1>6 DEF QueueTypeOK, LinkPrev, consuming
    <2>2. ASSUME NEW n \in Nodes, n # prev[p]
          PROVE  /\ next'[n] = next[n]
                 /\ \A q \in Producers, o \in Nodes : Owes(q, n, o) => Owes(q, n, o)'
      BY <1>6, <2>1, <2>2 DEF QueueTypeOK, LinkPrev, Owes
    <2>3. CASE prev[p] = Null
      <3>1. \A i \in 1 .. Len(queue) : queue[i] # prev[p]
        BY <1>1, <2>3
      <3>2. ASSUME NEW i \in 1 .. Len(queue) - 1 PROVE Follows(i)'
        BY <1>1, <1>2, <2>1, <2>2, <3>1 DEF ListFollows, Follows
      <3>3. QED
        BY <1>1, <1>3, <2>1, <2>2, <3>1, <3>2 DEF ListFollows
    <2>4. CASE prev[p] # Null
      <3>1. PICK k \in 1 .. Len(queue) : Joins(p, k)
        BY <2>1 DEF NodesApart, InPlace
      <3>2. k - 1 \in 1 .. Len(queue) /\ queue[k - 1] = prev[p] /\ k - 1 # Len(queue)
            /\ k - 1 \in Nat /\ (k - 1) + 1 = k
        BY <1>1, <2>4, <3>1, Neighbours DEF Joins
      <3>3. queue[k] = Head(batch[p])
        BY <1>1, <2>1, <3>1, BatchType DEF Joins
      <3>4. \A i \in 1 .. Len(queue) : i # k - 1 => queue[i] # prev[p]
        BY <3>2 DEF NodesApart
      <3>5. next'[prev[p]] = queue[k]
        BY <1>1, <1>6, <2>4, <3>2, <3>3 DEF QueueTypeOK, LinkPrev
      <3>6. ASSUME NEW i \in 1 .. Len(queue) - 1 PROVE Follows(i)'
        <4>1. CASE i = k - 1
          BY <2>1, <3>2, <3>5, <4>1 DEF Follows
        <4>2. CASE i # k - 1
          BY <1>1, <1>2, <2>1, <2>2, <3>4, <4>2 DEF ListFollows, Follows
        <4>3. QED
          BY <4>1, <4>2
      <3>7. QED
        BY <1>1, <1>3, <2>1, <2>2, <3>2, <3>4, <3>6 DEF ListFollows
    <2>5. QED
      BY <2>3, <2>4
  <1>7. ASSUME queue # <<>>, queue' = Tail(queue), UNCHANGED <<back, next, batch, prev, ppc>>,
               cpc' \notin Closing => cpc \notin Closing /\ Len(queue) > 1
        PROVE  ListFollows'
    <2>1. /\ Len(queue') = Len(queue) - 1 /\ queue' \in Seq(Nodes)
          /\ \A i \in 1 .. Len(queue') : queue'[i] = queue[i + 1]
      BY <1>7, QueueType, Removed
    <2>2. ASSUME NEW i \in 1 .. Len(queue') - 1 PROVE Follows(i)'
      <3>1. i + 1 \in 1 .. Len(queue) - 1 /\ i \in 1 .. Len(queue') /\ i + 1 \in 1 .. Len(queue')
        BY <1>1, <2>1
      <3>2. queue'[i] = queue[i + 1] /\ queue'[i + 1] = queue[(i + 1) + 1] /\ Follows(i + 1)
        BY <2>1, <3>1 DEF ListFollows
      <3>3. QED
        BY <1>7, <3>2 DEF Follows, Owes
    <2>3. ASSUME queue' # <<>> PROVE queue'[Len(queue')] = queue[Len(queue)]
      <3>1. Len(queue') \in 1 .. Len(queue') /\ Len(queue') + 1 = Len(queue)
        BY <1>1, <2>1, <2>3, Positions
      <3>2. QED
        BY <2>1, <3>1
    <2>4. Len(queue) > 1 => queue' # <<>>
      BY <1>1, <2>1, Positions
    <2>5. QED
      BY <1>7, <2>2, <2>3, <2>4 DEF ListFollows
  <1>8. CASE Callback
    <2>1. Len(queue) > 1 /\ queue # <<>> /\ cpc \notin Closing
      BY <1>8, QueueType DEF ConsumerFollows, AtFront, AtDrain, Closing, Callback
    <2>2. QED
      BY <1>7, <1>8, <2>1 DEF Callback, shared, pushing
  <1>9. CASE DrainCallback
    BY <1>7, <1>9 DEF ConsumerFollows, AtFront, AtDrain, Closing, DrainCallback, shared, pushing
  <1>10. ASSUME UNCHANGED <<back, next, batch, prev, ppc, queue>>,
                cpc' \notin Closing => cpc \notin Closing
         PROVE  ListFollows'
    <2>1. \A i \in 1 .. Len(queue) - 1 : Follows(i) => Follows(i)'
      BY <1>10 DEF Follows, Owes
    <2>2. QED
      BY <1>10, <2>1 DEF ListFollows
  <1>11. CASE \/ StartProcess \/ LoadFront \/ LoadBack \/ AtStub \/ ReadNext \/ ReachBack
              \/ StartClosing \/ DrainNext \/ EndClosing
    BY <1>10, <1>11 DEF StartProcess, LoadFront, LoadBack, AtStub, Done, ReadNext, ReachBack,
       StartClosing, DrainNext, EndClosing, Closing, shared, pushing
  <1>12. CASE StoreStop \/ StoreEnd
    BY <1>10, <1>12 DEF StoreStop, StoreEnd, Done, Closing, pushing
  <1>13. QED
    BY <1>4, <1>5, <1>6, <1>8, <1>9, <1>11, <1>12 DEF QueueNext, Push, Process, Drain


----------------------------------------------------------------------------
\* Where the consumer stands.

\* What holds of the first nodes.
LEMMA FirstNodes ==
  ASSUME QueueTypeOK, NodesApart, ListFollows, ConsumerFollows
  PROVE  /\ cpc \notin Closing /\ front # Stub =>
               queue # <<>> /\ queue[1] \in Nodes /\ queue[1] \in Members(queue)
         /\ queue # <<>> =>
               /\ queue[1] \in Nodes /\ queue[1] \notin {Null, Stub, Unread}
               /\ next[queue[1]] # Null =>
                     Len(queue) > 1 /\ next[queue[1]] = queue[2]
               /\ Len(queue) > 1 => Follows(1) /\ queue[2] \in Nodes /\ queue[2] # Stub
               /\ Len(queue) = 1 => next[queue[1]] = Null
  <1>1. queue # <<>> =>
           /\ 1 \in 1 .. Len(queue) /\ queue[1] \in Nodes /\ queue[1] \in Members(queue)
           /\ Len(queue) > 1 => 1 \in 1 .. Len(queue) - 1 /\ 2 \in 1 .. Len(queue)
           /\ ~(Len(queue) > 1) => Len(queue) = 1
    <2>1. queue # <<>> => 1 \in 1 .. Len(queue) /\ queue[1] \in Nodes /\ Len(queue) \in Nat
      BY QueueType
    <2>2. queue # <<>> => queue[1] \in Members(queue)
      BY <2>1, QueueType, Positions
    <2>3. ASSUME NEW k \in Nat, 1 \in 1 .. k
          PROVE  /\ k > 1 => 1 \in 1 .. k - 1 /\ 2 \in 1 .. k
                 /\ ~(k > 1) => k = 1
      BY <2>3
    <2>4. QED
      BY <2>1, <2>2, <2>3
  <1>2. queue # <<>> /\ Len(queue) > 1 => Follows(1) /\ queue[1 + 1] = queue[2]
    BY <1>1 DEF ListFollows
  <1>3. queue # <<>> /\ Len(queue) = 1 => next[queue[1]] = Null
    BY DEF ListFollows
  <1>4. queue # <<>> /\ Len(queue) > 1 => queue[2] \in Nodes
    BY <1>1, QueueType
  <1>5. queue # <<>> /\ next[queue[1]] # Null => Len(queue) > 1 /\ next[queue[1]] = queue[2]
    BY <1>1, <1>2, <1>3 DEF Follows
  <1>6. cpc \notin Closing /\ front # Stub => queue # <<>>
    BY DEF ConsumerFollows, AtFront
  <1>7. QED
    BY <1>1, <1>2, <1>3, <1>4, <1>5, <1>6, MpscQueueAssumption

LEMMA ConsumerStep ==
  ASSUME QueueTypeOK, NodesApart, ListFollows, ConsumerFollows, QueueNext
  PROVE  ConsumerFollows'
  <1>1. Null \notin Nodes /\ Stub \notin Nodes /\ Unread \notin Nodes
        /\ Null # Stub /\ Null # Unread /\ Stub # Unread
    BY MpscQueueAssumption
  <1>2. ASSUME NEW p \in Producers, NEW s \in Batches, StartPush(p, s)
        PROVE  ConsumerFollows'
    <2>1. /\ UNCHANGED <<queue, front, cpc, cur, b, nxt, prev>> /\ ppc[p] = "idle"
          /\ cpc \notin Closing
          /\ \A q \in Producers : q # p => batch'[q] = batch[q] /\ ppc'[q] = ppc[q]
      BY <1>2 DEF QueueTypeOK, StartPush, consuming, Closing
    <2>2. AtFront
      BY <2>1 DEF ConsumerFollows
    <2>3. \A q \in Producers, n \in Nodes : Owes(q, Null, n) => Owes(q, Null, n)'
      BY <2>1 DEF Owes
    <2>4. queue # <<>> => next'[queue[1]] = next[queue[1]]
      <3>1. queue # <<>> => queue[1] \in Nodes /\ queue[1] \in Members(queue)
        BY QueueType, Positions
      <3>2. QED
        BY <1>2, <3>1, LinkedBatch DEF StartPush, Free
    <2>5. cpc = "callback" => cur = queue[1] /\ queue # <<>>
      BY <2>1, <2>2 DEF AtFront
    <2>6. AtFront'
      BY <2>1, <2>2, <2>3, <2>4, <2>5, FirstNodes DEF AtFront
    <2>7. QED
      BY <2>1, <2>6 DEF ConsumerFollows
  <1>3. ASSUME NEW p \in Producers, ExchangeBack(p)
        PROVE  ConsumerFollows'
    <2>1. /\ UNCHANGED <<front, next, cpc, cur, b, nxt, batch>> /\ ppc[p] = "exchange"
          /\ queue' = queue \o batch[p] /\ prev'[p] = back /\ ppc'[p] = "link"
          /\ \A q \in Producers : q # p => prev'[q] = prev[q] /\ ppc'[q] = ppc[q]
      BY <1>3 DEF QueueTypeOK, ExchangeBack, consuming
    <2>2. cpc \notin Closing /\ AtFront
      BY <2>1 DEF ConsumerFollows, AtDrain
    <2>3. /\ queue \in Seq(Nodes) /\ batch[p] \in Seq(Nodes) /\ Len(queue) \in Nat
          /\ Len(batch[p]) \in Nat /\ 1 \in 1 .. Len(batch[p]) /\ Head(batch[p]) = batch[p][1]
      BY <2>1, QueueType, BatchType
    <2>4. /\ queue' \in Seq(Nodes) /\ Len(queue') = Len(queue) + Len(batch[p])
          /\ \A i \in 1 .. Len(queue) : queue'[i] = queue[i]
          /\ \A i \in 1 .. Len(batch[p]) : queue'[Len(queue) + i] = batch[p][i]
          /\ Members(queue) \subseteq Members(queue')
      BY <2>1, <2>3, Appended
    <2>5. queue' # <<>>
      <3>1. Len(queue') # 0
        BY <2>3, <2>4
      <3>2. QED
        BY <2>4, <3>1, Positions
    <2>6. /\ queue = <<>> => queue'[1] = batch[p][1]
          /\ queue # <<>> => queue'[1] = queue[1]
          /\ Len(queue) > 1 => queue'[2] = queue[2] /\ Len(queue') > 1
      <3>1. queue = <<>> => Len(queue) = 0
        BY QueueType
      <3>2. queue # <<>> => 1 \in 1 .. Len(queue)
        BY QueueType
      <3>3. Len(queue) > 1 => 2 \in 1 .. Len(queue) /\ Len(queue') > 1
        BY <2>3, <2>4
      <3>4. QED
        BY <2>3, <2>4, <3>1, <3>2, <3>3
    <2>7. front = Stub => \E q \in Producers : Owes(q, Null, queue[1])'
      <3>1. CASE queue = <<>>
        <4>1. back = Null
          BY <2>2, <3>1 DEF ListFollows
        <4>2. Owes(p, Null, queue[1])'
          BY <2>1, <2>3, <2>6, <3>1, <4>1 DEF Owes
        <4>3. QED
          BY <4>2
      <3>2. CASE queue # <<>>
        BY <2>1, <2>2, <2>6, <3>2 DEF AtFront, Owes
      <3>3. QED
        BY <3>1, <3>2
    <2>8. front # Stub => queue # <<>>
      BY <2>2 DEF AtFront
    <2>9. cpc = "stop" => front # Stub
      BY <2>2 DEF AtFront
    <2>10. AtFront'
      BY <2>1, <2>2, <2>4, <2>5, <2>6, <2>7, <2>8, <2>9 DEF AtFront
    <2>11. QED
      BY <2>1, <2>2, <2>10 DEF ConsumerFollows
  <1>4. ASSUME NEW p \in Producers, LinkPrev(p)
        PROVE  ConsumerFollows'
    <2>1. /\ UNCHANGED <<queue, cpc, cur, b, nxt>> /\ ppc[p] = "link"
          /\ \A q \in Producers : q # p =>
                /\ prev'[q] = prev[q] /\ batch'[q] = batch[q] /\ ppc'[q] = ppc[q]
      BY <1>4 DEF QueueTypeOK, LinkPrev, consuming
    <2>2. cpc \notin Closing /\ AtFront
      BY <2>1 DEF ConsumerFollows, AtDrain
    <2>3. PICK i \in 1 .. Len(queue) : Joins(p, i)
      BY <2>1 DEF NodesApart, InPlace
    <2>4. queue # <<>>
      BY <2>3, QueueType
    <2>5. CASE prev[p] = Null
      <3>1. i = 1 /\ front = Stub /\ queue[1] = Head(batch[p])
        BY <2>1, <2>3, <2>5, BatchType, QueueType DEF Joins
      <3>2. front' = queue[1] /\ next' = next
        BY <1>4, <2>5, <3>1 DEF LinkPrev
      <3>3. front' # Stub
        BY <2>4, <3>2, FirstNodes
      <3>4. AtFront'
        BY <1>1, <2>1, <2>2, <2>4, <3>1, <3>2, <3>3 DEF AtFront
      <3>5. QED
        BY <2>1, <2>2, <3>4 DEF ConsumerFollows
    <2>6. CASE prev[p] # Null
      <3>1. front' = front /\ \A n \in Nodes : n # prev[p] => next'[n] = next[n]
        BY <1>4, <2>6 DEF QueueTypeOK, LinkPrev
      <3>2. next[prev[p]] = Null
        BY <2>1, <2>6, PrevInQueue
      <3>3. front = Stub => \E q \in Producers : Owes(q, Null, queue[1])'
        BY <2>1, <2>2, <2>4, <2>6 DEF AtFront, Owes
      <3>4. cpc = "callback" => next'[cur] = next[cur]
        <4>1. cpc = "callback" => cur = queue[1] /\ next[cur] = queue[2] /\ Len(queue) > 1
          BY <2>2 DEF AtFront
        <4>2. QED
          BY <1>1, <2>4, <3>1, <3>2, <4>1, FirstNodes
      <3>5. AtFront'
        BY <2>1, <2>2, <2>4, <3>1, <3>3, <3>4 DEF AtFront
      <3>6. QED
        BY <2>1, <2>2, <3>5 DEF ConsumerFollows
    <2>7. QED
      BY <2>5, <2>6
  \* The consumer's steps leave the list alone.
  <1>5. ASSUME UNCHANGED <<queue, next, batch, prev, ppc>>
        PROVE  \A q \in Producers, n, m \in Nodes \cup {Null} : Owes(q, n, m) => Owes(q, n, m)'
    BY <1>5 DEF Owes
  <1>6. cpc \notin Closing => AtFront
    BY DEF ConsumerFollows
  <1>7. cpc \in Closing => AtDrain
    BY DEF ConsumerFollows
  <1>8. ASSUME cpc \notin Closing, UNCHANGED <<queue, next, batch, prev, ppc, front>>
        PROVE  /\ front = Stub /\ queue # <<>> => \E p \in Producers : Owes(p, Null, queue[1])'
               /\ AtFront
    BY <1>6, <1>8 DEF AtFront, Owes
  <1>9. CASE StartProcess
    <2>1. cpc \notin Closing /\ cpc' \notin Closing
          /\ UNCHANGED <<queue, next, batch, prev, ppc, front>>
      BY <1>9 DEF StartProcess, Closing, shared, pushing
    <2>2. AtFront'
      BY <1>1, <1>8, <1>9, <2>1 DEF AtFront, StartProcess
    <2>3. QED
      BY <2>1, <2>2 DEF ConsumerFollows
  <1>10. CASE LoadFront
    <2>1. cpc \notin Closing /\ cpc' \notin Closing
          /\ UNCHANGED <<queue, next, batch, prev, ppc, front>>
      BY <1>10 DEF LoadFront, Closing, shared, pushing
    <2>2. AtFront'
      BY <1>1, <1>8, <1>10, <2>1 DEF AtFront, LoadFront
    <2>3. QED
      BY <2>1, <2>2 DEF ConsumerFollows
  <1>11. CASE LoadBack
    <2>1. cpc \notin Closing /\ cpc' \notin Closing
          /\ UNCHANGED <<queue, next, batch, prev, ppc, front, cur, nxt>>
      BY <1>11 DEF LoadBack, Closing, shared, pushing
    <2>2. back \in {Null} \cup Members(queue)
      <3>1. queue # <<>> => queue[Len(queue)] \in Members(queue)
        BY QueueType, Positions
      <3>2. QED
        BY <2>1, <3>1 DEF ListFollows
    <2>3. AtFront'
      BY <1>1, <1>8, <1>11, <2>1, <2>2 DEF AtFront, LoadBack
    <2>4. QED
      BY <2>1, <2>3 DEF ConsumerFollows
  <1>12. CASE AtStub
    <2>1. cpc \notin Closing /\ cpc' \notin Closing
          /\ UNCHANGED <<queue, next, batch, prev, ppc, front>>
      BY <1>12 DEF AtStub, Done, Closing, shared, pushing
    <2>2. AtFront'
      BY <1>1, <1>8, <1>12, <2>1 DEF AtFront, AtStub, Done
    <2>3. QED
      BY <2>1, <2>2 DEF ConsumerFollows
  <1>13. CASE ReadNext
    <2>1. cpc \notin Closing /\ cpc' \notin Closing /\ UNCHANGED <<cur, b>>
          /\ UNCHANGED <<queue, next, batch, prev, ppc, front>>
      BY <1>13 DEF ReadNext, Closing, shared, pushing
    <2>2. front # Stub /\ cur = queue[1] /\ cur # Stub /\ cur # b /\ queue # <<>>
      BY <1>6, <1>13, <2>1, FirstNodes DEF AtFront, ReadNext, QueueTypeOK
    <2>3. cpc' \in {"store", "callback"} /\ nxt' = next[queue[1]]
          /\ (cpc' = "callback" => nxt' # Null)
      BY <1>13, <2>2 DEF ReadNext
    <2>4. cpc' = "callback" => Len(queue) > 1 /\ nxt' = queue[2] /\ next[cur] = nxt'
      BY <2>2, <2>3, FirstNodes
    <2>5. AtFront'
      BY <1>8, <2>1, <2>2, <2>3, <2>4 DEF AtFront
    <2>6. QED
      BY <2>1, <2>5 DEF ConsumerFollows
  <1>14. CASE ReachBack
    <2>1. cpc \notin Closing /\ cpc' \notin Closing
          /\ UNCHANGED <<queue, next, batch, prev, ppc, front>>
      BY <1>14 DEF ReachBack, Closing, shared, pushing
    <2>2. front # Stub /\ cur = queue[1] /\ cur # Stub
      BY <1>6, <1>14, <2>1 DEF AtFront, ReachBack, QueueTypeOK
    <2>3. AtFront'
      BY <1>8, <1>14, <2>1, <2>2 DEF AtFront, ReachBack
    <2>4. QED
      BY <2>1, <2>3 DEF ConsumerFollows
  <1>15. CASE Callback
    <2>1. /\ cpc \notin Closing /\ cpc' \in {"loop", "stop"} /\ AtFront
          /\ queue' = Tail(queue) /\ UNCHANGED <<front, b, nxt>>
          /\ cpc' = "loop" => cur' = nxt
          /\ cpc' = "stop" => cur' = cur
      BY <1>6, <1>15 DEF Callback, Closing, shared
    <2>2. /\ front # Stub /\ cur = queue[1] /\ Len(queue) > 1 /\ nxt = queue[2]
          /\ cur # b /\ queue # <<>>
      BY <1>15, <2>1, FirstNodes DEF AtFront, Callback
    <2>3. /\ queue' \in Seq(Nodes) /\ Len(queue') = Len(queue) - 1
          /\ queue'[1] = queue[2] /\ queue' # <<>>
          /\ \A n \in Members(queue) : n # queue[1] => n \in Members(queue')
      <3>1. /\ queue' \in Seq(Nodes) /\ Len(queue') = Len(queue) - 1
            /\ \A i \in 1 .. Len(queue) - 1 : queue'[i] = queue[i + 1]
            /\ \A n \in Members(queue) : n # queue[1] => n \in Members(queue')
        BY <2>1, <2>2, QueueType, Removed
      <3>2. 1 \in 1 .. Len(queue) - 1 /\ Len(queue') # 0
        BY <2>2, <3>1, QueueType
      <3>3. queue' # <<>>
        BY <3>1, <3>2, Positions
      <3>4. QED
        BY <3>1, <3>2, <3>3
    <2>4. cur # Stub /\ nxt # Stub
      BY <2>2, FirstNodes
    <2>5. AtFront'
      BY <2>1, <2>2, <2>3, <2>4 DEF AtFront
    <2>6. cpc' \notin Closing
      BY <2>1 DEF Closing
    <2>7. QED
      BY <2>5, <2>6 DEF ConsumerFollows
  <1>16. ASSUME UNCHANGED queue, Done, front' = queue[1], queue # <<>>
         PROVE  ConsumerFollows'
    <2>1. cpc' = "idle" /\ cur' = Unread /\ b' = Unread
      BY <1>16 DEF Done
    <2>2. front' # Stub
      BY <1>16, FirstNodes
    <2>3. AtFront'
      BY <1>1, <1>16, <2>1, <2>2 DEF AtFront
    <2>4. QED
      BY <2>1, <2>3 DEF ConsumerFollows, Closing
  <1>17. CASE StoreStop
    <2>1. cpc \notin Closing /\ front # Stub /\ nxt = queue[1]
      BY <1>6, <1>17 DEF StoreStop, Closing, AtFront
    <2>2. QED
      BY <1>16, <1>17, <2>1, FirstNodes DEF StoreStop
  <1>18. CASE StoreEnd
    <2>1. cpc \notin Closing /\ front # Stub /\ cur = queue[1]
      BY <1>6, <1>18 DEF StoreEnd, Closing, AtFront
    <2>2. QED
      BY <1>16, <1>18, <2>1, FirstNodes DEF StoreEnd
  <1>19. CASE StartClosing
    <2>1. cpc = "idle" /\ cpc \notin Closing /\ AtFront /\ \A p \in Producers : ppc[p] = "idle"
      BY <1>6, <1>19 DEF StartClosing, Closing
    <2>2. front = Stub <=> queue = <<>>
      BY <2>1 DEF AtFront, Owes
    <2>3. cur' = IF queue = <<>> THEN Null ELSE queue[1]
      BY <1>19, <2>1, <2>2 DEF StartClosing, AtFront
    <2>4. cpc' = "closing" /\ queue' = queue /\ ppc' = ppc
      BY <1>19 DEF StartClosing, pushing
    <2>5. AtDrain'
      BY <2>1, <2>3, <2>4 DEF AtDrain
    <2>6. QED
      BY <2>4, <2>5 DEF ConsumerFollows, Closing
  <1>20. CASE DrainNext
    <2>1. AtDrain /\ cpc = "closing" /\ cur # Null
      BY <1>7, <1>20 DEF DrainNext, Closing
    <2>2. queue # <<>> /\ cur = queue[1]
      BY <2>1 DEF AtDrain
    <2>3. Len(queue) # 1 => next[cur] = queue[2]
      <3>1. Len(queue) # 1 => Len(queue) > 1
        <4> DEFINE l == Len(queue)
        <4>1. l \in Nat /\ l # 0
          BY <2>2, QueueType
        <4> HIDE DEF l
        <4>2. l # 1 => l > 1
          BY <4>1
        <4>3. QED
          BY <4>2 DEF l
      <3>2. \A p \in Producers : ppc[p] = "idle"
        BY <2>1 DEF AtDrain
      <3>3. QED
        BY <2>2, <3>1, <3>2, FirstNodes DEF Follows, Owes
    <2>4. Len(queue) = 1 => next[cur] = Null
      BY <2>2, FirstNodes
    <2>5. cpc' = "drain" /\ nxt' = next[cur] /\ UNCHANGED <<queue, ppc, cur>>
      BY <1>20 DEF DrainNext, pushing
    <2>6. AtDrain'
      BY <2>1, <2>2, <2>3, <2>4, <2>5 DEF AtDrain
    <2>7. QED
      BY <2>5, <2>6 DEF ConsumerFollows, Closing
  <1>21. CASE DrainCallback
    <2>1. AtDrain /\ cpc = "drain"
      BY <1>7, <1>21 DEF DrainCallback, Closing
    <2>2. cpc' = "closing" /\ cur' = nxt /\ queue' = Tail(queue) /\ ppc' = ppc
      BY <1>21 DEF DrainCallback, pushing
    <2>3. queue # <<>> /\ nxt = IF Len(queue) = 1 THEN Null ELSE queue[2]
      BY <2>1 DEF AtDrain
    <2>4. /\ Len(queue) \in Nat /\ queue' \in Seq(Nodes) /\ Len(queue') = Len(queue) - 1
          /\ \A i \in 1 .. Len(queue) - 1 : queue'[i] = queue[i + 1]
      BY <2>2, <2>3, QueueType, Removed
    <2>5. queue' = <<>> <=> Len(queue) = 1
      <3>1. queue' = <<>> <=> Len(queue') = 0
        BY <2>4, Positions
      <3>2. Len(queue') = 0 <=> Len(queue) = 1
        BY <2>4
      <3>3. QED
        BY <3>1, <3>2
    <2>6. Len(queue) # 1 => queue'[1] = queue[2]
      <3>1. Len(queue) # 0
        BY <2>3, QueueType
      <3>2. Len(queue) # 1 => 1 \in 1 .. Len(queue) - 1
        BY <2>4, <3>1
      <3>3. QED
        BY <2>4, <3>2
    <2>7. cur' = IF queue' = <<>> THEN Null ELSE queue'[1]
      BY <2>2, <2>3, <2>5, <2>6
    <2>8. AtDrain'
      BY <2>1, <2>2, <2>7 DEF AtDrain
    <2>9. QED
      BY <2>2, <2>8 DEF ConsumerFollows, Closing
  <1>22. CASE EndClosing
    <2>1. AtDrain /\ cpc = "closing" /\ cur = Null
      BY <1>7, <1>22 DEF EndClosing, Closing
    <2>2. queue = <<>>
      BY <1>1, <2>1, FirstNodes DEF AtDrain
    <2>3. cpc' = "closed" /\ queue' = queue /\ ppc' = ppc
      BY <1>22 DEF EndClosing, pushing
    <2>4. AtDrain'
      BY <2>1, <2>2, <2>3 DEF AtDrain
    <2>5. QED
      BY <2>3, <2>4 DEF ConsumerFollows, Closing
  <1>23. QED
    BY <1>2, <1>3, <1>4, <1>9, <1>10, <1>11, <1>12, <1>13, <1>14, <1>15, <1>17, <1>18, <1>19,
       <1>20, <1>21, <1>22 DEF QueueNext, Push, Process, Drain


----------------------------------------------------------------------------
\* The inductive invariant, and what the runs check of it.

LEMMA InitInvariant == QueueInit => QueueIInv
  <1> SUFFICES ASSUME QueueInit PROVE QueueIInv
    OBVIOUS
  <1>1. queue \in Seq(Nodes) /\ Len(queue) = 0 /\ queue = <<>>
    BY EmptySeq DEF QueueInit
  <1>2. QueueTypeOK
    BY <1>1 DEF QueueInit, QueueTypeOK
  <1>3. NodesApart
    <2>1. \A p \in Producers : batch[p] = <<>> /\ ppc[p] = "idle"
      BY DEF QueueInit
    <2>2. QED
      BY <1>1, <2>1, NoMembers DEF NodesApart, InPlace
  <1>4. ListFollows
    BY <1>1 DEF QueueInit, ListFollows, Closing
  <1>5. AtFront /\ cpc \notin Closing
    BY <1>1, MpscQueueAssumption DEF QueueInit, AtFront, Closing
  <1>6. QED
    BY <1>2, <1>3, <1>4, <1>5 DEF QueueIInv, ConsumerFollows

LEMMA Stuttering == QueueIInv /\ UNCHANGED queueVars => QueueIInv'
  <1> SUFFICES ASSUME QueueIInv, UNCHANGED queueVars PROVE QueueIInv'
    OBVIOUS
  <1>1. UNCHANGED <<front, back, next, batch, prev, ppc, cpc, cur, b, nxt, queue>>
    BY DEF queueVars
  <1>2. QueueTypeOK'
    BY <1>1 DEF QueueIInv, QueueTypeOK
  <1>3. NodesApart'
    BY <1>1, ApartSame DEF QueueIInv
  <1>4. ListFollows'
    BY <1>1 DEF QueueIInv, ListFollows, Follows, Owes
  <1>5. ConsumerFollows'
    BY <1>1 DEF QueueIInv, ConsumerFollows, AtFront, AtDrain, Owes
  <1>6. QED
    BY <1>2, <1>3, <1>4, <1>5 DEF QueueIInv

\* What the lemmas above amount to: the invariant holds in every state of every
\* behaviour, whatever the producers and the consumer are scheduled to do.
THEOREM Invariance == QueueSafety => []QueueIInv
  <1>1. QueueIInv /\ [QueueNext]_queueVars => QueueIInv'
    BY TypeStep, ApartStep, FollowsStep, ConsumerStep, Stuttering DEF QueueIInv
  <1>2. QED
    BY InitInvariant, <1>1, PTL DEF QueueSafety

\* The linked list holds the nodes of the queue in the order of the exchanges of
\* back_, and wherever a link is missing, or front_ is still the stub, a producer
\* between its exchange and its store is about to write it (push and process).
THEOREM ListIsQueueCorrect == QueueSpec => []ListIsQueue
  <1>1. QueueIInv => ListIsQueue
    <2> SUFFICES ASSUME QueueIInv PROVE ListIsQueue
      OBVIOUS
    <2>1. QueueTypeOK /\ NodesApart /\ ListFollows /\ ConsumerFollows
      BY DEF QueueIInv
    <2>2. ASSUME cpc \notin Closing
          PROVE  /\ back = IF queue = <<>> THEN Null ELSE queue[Len(queue)]
                 /\ back # Null => next[back] = Null
                 /\ queue # <<>> =>
                       \/ Oldest = queue[1]
                       \/ /\ Oldest = Stub
                          /\ front = Stub => \E p \in Producers : Owes(p, Null, queue[1])
      <3>1. AtFront
        BY <2>1, <2>2 DEF ConsumerFollows
      <3>2. cpc \in {"idle", "load", "loop", "callback", "stop", "store"}
        BY <2>1, <2>2 DEF QueueTypeOK, Closing
      <3>3. back = IF queue = <<>> THEN Null ELSE queue[Len(queue)]
        BY <2>1, <2>2 DEF ListFollows
      <3>4. back # Null => next[back] = Null
        BY <2>1, <3>3 DEF ListFollows
      <3>5. cpc = "loop" => cur # Unread
        BY <2>1 DEF QueueTypeOK
      <3>6. front # Stub /\ queue # <<>> => Oldest = queue[1] \/ Oldest = Stub
        BY <3>1, <3>2, <3>5 DEF AtFront, Oldest
      <3>7. front = Stub /\ queue # <<>> =>
               Oldest = Stub /\ \E p \in Producers : Owes(p, Null, queue[1])
        BY <3>1, <3>2, <3>5 DEF AtFront, Oldest
      <3>8. QED
        BY <3>3, <3>4, <3>6, <3>7
    <2>3. \A i \in 1 .. Len(queue) - 1 : Follows(i)
      BY <2>1 DEF ListFollows
    <2>4. QED
      BY <2>1, <2>2, <2>3 DEF ListIsQueue, Closing, Follows
  <1>2. QED
    BY Invariance, <1>1, PTL DEF QueueSpec

\* A node is given to the callback exactly once and in the order of the pushes:
\* the node given is the oldest one that has not been, and destructive_process
\* leaves none behind.
THEOREM ProcessesInOrderCorrect == QueueSpec => []ProcessesInOrder
  <1>1. QueueIInv => ProcessesInOrder
    <2> SUFFICES ASSUME QueueIInv PROVE ProcessesInOrder
      OBVIOUS
    <2>1. cpc = "callback" => queue # <<>> /\ cur = queue[1]
      BY DEF QueueIInv, ConsumerFollows, AtFront, Closing
    <2>2. cpc = "drain" => queue # <<>> /\ cur = queue[1]
      BY DEF QueueIInv, ConsumerFollows, AtDrain, Closing
    <2>3. cpc = "closed" => queue = <<>>
      BY DEF QueueIInv, ConsumerFollows, AtDrain, Closing
    <2>4. QED
      BY <2>1, <2>2, <2>3 DEF ProcessesInOrder
  <1>2. QED
    BY Invariance, <1>1, PTL DEF QueueSpec

\* The node that a producer stores its link into has not been given to the
\* callback, which may have freed it, nobody else links to it, and the nodes
\* linked have not been given either.
THEOREM NoLateLinkCorrect == QueueSpec => []NoLateLink
  <1>1. QueueIInv => NoLateLink
    <2> SUFFICES ASSUME QueueIInv PROVE NoLateLink
      OBVIOUS
    <2>1. QueueTypeOK /\ NodesApart
      BY DEF QueueIInv
    <2>2. ASSUME NEW p \in Producers, ppc[p] = "link"
          PROVE  Members(batch[p]) \subseteq Members(queue)
      <3>1. PICK i \in 1 .. Len(queue) : Joins(p, i)
        BY <2>1, <2>2 DEF NodesApart, InPlace
      <3>2. Members(queue) = {queue[j] : j \in 1 .. Len(queue)}
        BY <2>1, QueueType, Positions
      <3>3. Members(batch[p]) = {batch[p][j] : j \in 1 .. Len(batch[p])}
        BY <2>1, BatchType, Positions
      <3>4. \A j \in 1 .. Len(batch[p]) : i + j - 1 \in 1 .. Len(queue)
        BY <2>1, <3>1, QueueType, BatchType DEF Joins
      <3>5. QED
        BY <3>1, <3>2, <3>3, <3>4 DEF Joins
    <2>3. QED
      BY <2>1, <2>2, OneJoiner, PrevInQueue DEF NoLateLink
  <1>2. QED
    BY Invariance, <1>1, PTL DEF QueueSpec

\* The safety part of ImplementsFifo: whatever the interleaving, a push puts its
\* batch in with its exchange and a callback takes the oldest node out, the newest
\* one being kept back until destructive_process; every other step changes
\* nothing that a user of the queue sees.
THEOREM RefinesFifo == QueueSafety => QueuePromise!Safety
  <1> DEFINE items == queue
             closed == cpc \in {"closing", "drain", "closed"}
  <1>1. QueueInit => QueuePromise!Init
    BY DEF QueueInit, QueuePromise!Init
  <1>2. QueueIInv /\ [QueueNext]_queueVars => [QueuePromise!Next]_<<items, closed>>
    <2> SUFFICES ASSUME QueueIInv, [QueueNext]_queueVars PROVE [QueuePromise!Next]_<<items, closed>>
      OBVIOUS
    <2>1. QueueTypeOK /\ NodesApart /\ ListFollows /\ ConsumerFollows
      BY DEF QueueIInv
    <2>2. ASSUME NEW p \in Producers, NEW s \in Batches, StartPush(p, s)
          PROVE  UNCHANGED <<items, closed>>
      BY <2>2 DEF StartPush, consuming
    <2>3. ASSUME NEW p \in Producers, ExchangeBack(p)
          PROVE  QueuePromise!Next
      <3>1. batch[p] \in Batches /\ ~closed /\ ppc[p] = "exchange"
        BY <2>1, <2>3, BatchType DEF ExchangeBack, ConsumerFollows, AtDrain, Closing
      <3>2. queue' = queue \o batch[p] /\ cpc' = cpc
        BY <2>3 DEF ExchangeBack, consuming
      <3>3. PICK t \in Batches : t = batch[p]
        BY <3>1
      <3>4. QueuePromise!Put(t)
        BY <3>1, <3>2, <3>3 DEF QueuePromise!Put
      <3>5. QED
        BY <3>4 DEF QueuePromise!Next
    <2>4. ASSUME NEW p \in Producers, LinkPrev(p)
          PROVE  UNCHANGED <<items, closed>>
      BY <2>4 DEF LinkPrev, consuming
    <2>5. CASE Callback
      <3>1. Len(queue) > 1 /\ ~closed /\ ~closed'
        BY <2>1, <2>5 DEF ConsumerFollows, AtFront, Closing, Callback
      <3>2. QueuePromise!Take
        BY <2>5, <3>1 DEF Callback, QueuePromise!Take
      <3>3. QED
        BY <3>2 DEF QueuePromise!Next
    <2>6. CASE StartClosing
      <3>1. QueuePromise!Close
        BY <2>6 DEF StartClosing, QueuePromise!Close
      <3>2. QED
        BY <3>1 DEF QueuePromise!Next
    <2>7. CASE DrainCallback
      <3>1. queue # <<>> /\ closed /\ closed'
        BY <2>1, <2>7 DEF ConsumerFollows, AtDrain, Closing, DrainCallback
      <3>2. Len(queue) > 0
        BY <2>1, <3>1, QueueType
      <3>3. QueuePromise!Take
        BY <2>7, <3>1, <3>2 DEF DrainCallback, QueuePromise!Take
      <3>4. QED
        BY <3>3 DEF QueuePromise!Next
    <2>8. CASE \/ StartProcess \/ LoadFront \/ LoadBack \/ AtStub \/ ReadNext \/ ReachBack
               \/ StoreStop \/ StoreEnd \/ DrainNext \/ EndClosing
      BY <2>8 DEF StartProcess, LoadFront, LoadBack, AtStub, ReadNext, ReachBack,
         StoreStop, StoreEnd, Done, DrainNext, EndClosing
    <2>9. CASE UNCHANGED queueVars
      BY <2>9 DEF queueVars
    <2>10. QED
      BY <2>2, <2>3, <2>4, <2>5, <2>6, <2>7, <2>8, <2>9 DEF QueueNext, Push, Process, Drain
  <1>3. QED
    BY Invariance, <1>1, <1>2, PTL DEF QueueSafety, QueuePromise!Safety
=============================================================================
