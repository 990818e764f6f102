--------------------------- MODULE Registry_proofs ---------------------------
(***************************************************************************)
(* Proofs about Registry, for any number of connections and requests.      *)
(*                                                                         *)
(* The two parts of IdsHold are not inductive: both need to know that the  *)
(* list is ordered by threadId, how far a threadId can run ahead of its    *)
(* position, and how an id compares with the position it was taken from.   *)
(* IInv adds these facts.                                                  *)
(***************************************************************************)
EXTENDS Registry, TLAPS

Listed(c) == phase[c] \in {"open", "finished"}

Increasing(s) == \A i, j \in 1 .. Len(s) : i < j => s[i] < s[j]

\* The list is ordered by threadId and holds the live connections.
Ordered ==
    /\ Increasing(connectionList)
    /\ \A i \in 1 .. Len(connectionList) :
          connectionList[i] < internalId /\ Listed(connectionList[i])
    /\ \A c \in Conn : Listed(c) => \E i \in 1 .. Len(connectionList) : connectionList[i] = c
    /\ \A c \in Conn : c >= internalId => phase[c] = "unborn"

\* A position is bounded by the threadId and by the id found there.
Positions ==
    \A i \in 1 .. Len(connectionList) : /\ i - 1 <= connectionList[i]
                                        /\ i - 1 <= id[connectionList[i]]

\* While nothing older than c has been removed, c sits at position c and has
\* id c.
PrefixIntact ==
    \A c \in Conn : (\A d \in 0 .. c : Listed(d)) =>
                       c < Len(connectionList) /\ connectionList[c + 1] = c /\ id[c] = c

IInv == TypeOK /\ Ordered /\ Positions /\ PrefixIntact

-----------------------------------------------------------------------------
\* Sequences

\* Connections are natural numbers.
LEMMA ConnNat == Conn \subseteq Nat /\ \A c \in Conn : 0 .. c \subseteq Conn
BY RegistryAssumption DEF Conn

\* What most steps need of the types: the list and the ids.
LEMMA ListTypes ==
    ASSUME IInv
    PROVE  /\ connectionList \in Seq(Conn) /\ Len(connectionList) \in Nat
           /\ \A i \in 1 .. Len(connectionList) : connectionList[i] \in Conn
           /\ \A c \in Conn : id[c] \in Conn /\ id[c] \in Nat
<1>1. connectionList \in Seq(Conn) /\ id \in [Conn -> Conn]
  BY DEF IInv, TypeOK
<1>2. \A c \in Conn : id[c] \in Conn
  BY <1>1
<1>3. QED BY <1>1, <1>2, ConnNat

\* Without(s, i) is a sequence over the same set, one shorter.
LEMMA WithoutType ==
    ASSUME NEW S, NEW s \in Seq(S), NEW i \in 1 .. Len(s)
    PROVE  /\ Without(s, i) \in Seq(S)
           /\ Len(Without(s, i)) = Len(s) - 1
           /\ \A j \in 1 .. i - 1 : Without(s, i)[j] = s[j]
           /\ \A j \in i .. Len(s) - 1 : Without(s, i)[j] = s[j + 1]
BY DEF Without

\* Removing an entry keeps an increasing sequence increasing, and the removed
\* value does not occur any more.
LEMMA WithoutIncreasing ==
    ASSUME NEW S \in SUBSET Nat, NEW s \in Seq(S), NEW i \in 1 .. Len(s), Increasing(s)
    PROVE  /\ Increasing(Without(s, i))
           /\ \A j \in 1 .. Len(s) - 1 : Without(s, i)[j] # s[i]
<1> DEFINE t == Without(s, i)
<1>1. /\ t \in Seq(S) /\ Len(t) = Len(s) - 1 /\ Len(s) \in Nat
      /\ \A j \in 1 .. i - 1 : t[j] = s[j]
      /\ \A j \in i .. Len(s) - 1 : t[j] = s[j + 1]
  BY WithoutType
<1>2. \A j \in 1 .. Len(s) : s[j] \in Nat
  <2>1. \A j \in 1 .. Len(s) : s[j] \in S
    OBVIOUS
  <2>2. QED BY <2>1
<1> HIDE DEF t
<1>3. ASSUME NEW k \in 1 .. Len(t), NEW l \in 1 .. Len(t), k < l PROVE t[k] < t[l]
  <2>1. CASE l < i
    <3>1. t[k] = s[k] /\ t[l] = s[l] /\ k \in 1 .. Len(s) /\ l \in 1 .. Len(s)
      BY <1>1, <1>3, <2>1
    <3>2. s[k] < s[l] BY <1>3, <3>1 DEF Increasing
    <3>3. QED BY <3>1, <3>2
  <2>2. CASE k < i /\ i <= l
    <3>1. t[k] = s[k] /\ t[l] = s[l + 1] /\ k \in 1 .. Len(s) /\ l + 1 \in 1 .. Len(s) /\ k < l + 1
      BY <1>1, <1>3, <2>2
    <3>2. s[k] < s[l + 1] BY <3>1 DEF Increasing
    <3>3. QED BY <3>1, <3>2
  <2>3. CASE i <= k
    <3>1. /\ t[k] = s[k + 1] /\ t[l] = s[l + 1] /\ k + 1 \in 1 .. Len(s)
          /\ l + 1 \in 1 .. Len(s) /\ k + 1 < l + 1
      <4>1. k \in i .. Len(s) - 1 /\ l \in i .. Len(s) - 1 BY <1>1, <1>3, <2>3
      <4>2. t[k] = s[k + 1] /\ t[l] = s[l + 1] BY <1>1, <4>1
      <4>3. QED BY <1>1, <1>3, <4>1, <4>2
    <3>2. s[k + 1] < s[l + 1] BY <3>1 DEF Increasing
    <3>3. QED BY <3>1, <3>2
  <2>4. QED BY <2>1, <2>2, <2>3, <1>1
<1>4. ASSUME NEW j \in 1 .. Len(s) - 1 PROVE t[j] # s[i]
  <2>1. CASE j < i
    <3>1. t[j] = s[j] /\ j \in 1 .. Len(s) BY <1>1, <2>1
    <3>2. s[j] < s[i] BY <2>1, <3>1 DEF Increasing
    <3>3. QED BY <1>2, <3>1, <3>2
  <2>2. CASE j >= i
    <3>1. t[j] = s[j + 1] /\ i < j + 1 /\ j + 1 \in 1 .. Len(s) BY <1>1, <2>2
    <3>2. s[i] < s[j + 1] BY <3>1 DEF Increasing
    <3>3. QED BY <1>2, <3>1, <3>2
  <2>3. QED BY <2>1, <2>2, <1>1
<1>5. QED BY <1>3, <1>4 DEF Increasing, t

\* Every remaining entry comes from an entry at the same or the next position.
LEMMA WithoutFrom ==
    ASSUME NEW S, NEW s \in Seq(S), NEW i \in 1 .. Len(s), NEW j \in 1 .. Len(s) - 1
    PROVE  \E k \in 1 .. Len(s) : k >= j /\ Without(s, i)[j] = s[k]
<1>1. CASE j < i
  <2>1. j \in 1 .. Len(s) /\ Without(s, i)[j] = s[j] BY <1>1, WithoutType
  <2>2. QED BY <2>1
<1>2. CASE j >= i
  <2>1. j \in i .. Len(s) - 1 /\ j + 1 \in 1 .. Len(s) /\ j + 1 >= j BY <1>2
  <2>2. Without(s, i)[j] = s[j + 1] BY <2>1, WithoutType
  <2>3. QED BY <2>1, <2>2
<1>3. QED BY <1>1, <1>2

\* Every entry but the removed one is still there.
LEMMA WithoutKeeps ==
    ASSUME NEW S, NEW s \in Seq(S), NEW i \in 1 .. Len(s), NEW k \in 1 .. Len(s), k # i
    PROVE  \E j \in 1 .. Len(s) - 1 : Without(s, i)[j] = s[k]
<1>1. CASE k < i
  <2>1. k \in 1 .. Len(s) - 1 /\ Without(s, i)[k] = s[k] BY <1>1, WithoutType
  <2>2. QED BY <2>1
<1>2. CASE k > i
  <2>1. k - 1 \in i .. Len(s) - 1 BY <1>2
  <2>2. Without(s, i)[k - 1] = s[(k - 1) + 1] BY <2>1, WithoutType
  <2>3. k - 1 \in 1 .. Len(s) - 1 /\ Without(s, i)[k - 1] = s[k] BY <2>1, <2>2
  <2>4. QED BY <2>3
<1>3. QED BY <1>1, <1>2

-----------------------------------------------------------------------------
\* The inductive invariant

\* The service starts with an empty list.
LEMMA InitIInv == Init => IInv
BY RegistryAssumption DEF Init, IInv, TypeOK, Ordered, Increasing, Positions, PrefixIntact, Listed, Conn, Phases

\* The list is never longer than the number of connections accepted.
LEMMA LengthBound == IInv => Len(connectionList) <= internalId
<1> SUFFICES ASSUME IInv PROVE Len(connectionList) <= internalId
  OBVIOUS
<1>1. Len(connectionList) \in Nat /\ internalId \in Nat
  BY RegistryAssumption DEF IInv, TypeOK
<1>2. CASE Len(connectionList) > 0
  <2> DEFINE n == Len(connectionList)
  <2>1. n \in 1 .. Len(connectionList) BY <1>1, <1>2
  <2>2. connectionList[n] \in Nat BY <2>1, ConnNat DEF IInv, TypeOK
  <2>3. n - 1 <= connectionList[n] BY <2>1 DEF IInv, Positions
  <2>4. connectionList[n] < internalId BY <2>1 DEF IInv, Ordered
  <2>5. QED BY <1>1, <2>2, <2>3, <2>4
<1>3. QED BY <1>1, <1>2

\* incomingConnection keeps the list ordered and hands out an id that is the
\* position.
LEMMA AcceptIInv ==
    ASSUME NEW check \in Checks PROVE IInv /\ incomingConnection(check) => IInv'
<1> SUFFICES ASSUME IInv, incomingConnection(check) PROVE IInv'
  OBVIOUS
<1> DEFINE n == Len(connectionList)
<1>1. /\ internalId \in Conn
      /\ connectionList' = Append(connectionList, internalId)
      /\ id' = [id EXCEPT ![internalId] = n]
      /\ phase' = [phase EXCEPT ![internalId] = "open"]
      /\ checked' = [checked EXCEPT ![internalId] = check]
      /\ internalId' = internalId + 1
      /\ UNCHANGED <<stopTimers, running, requests, routed>>
  BY RegistryAssumption DEF incomingConnection, add, count, Conn, IInv, TypeOK
<1>2. /\ n \in Nat /\ internalId \in Nat /\ connectionList \in Seq(Conn)
      /\ id \in [Conn -> Conn] /\ phase \in [Conn -> Phases]
      /\ \A i \in 1 .. n : connectionList[i] \in Conn
  BY ConnNat, <1>1 DEF IInv, TypeOK
<1>3. n <= internalId
  BY LengthBound
<1>4. /\ Len(connectionList') = n + 1
      /\ \A i \in 1 .. n : connectionList'[i] = connectionList[i]
      /\ connectionList'[n + 1] = internalId
  BY <1>1, <1>2
<1>5. TypeOK'
  <2>1. n \in Conn
    BY <1>1, <1>2, <1>3, ConnNat DEF Conn
  <2>2. connectionList' \in Seq(Conn) /\ id' \in [Conn -> Conn]
    BY <1>1, <1>2, <2>1
  <2>3. internalId' \in 0 .. MaxConnections
    BY <1>1, <1>2, RegistryAssumption DEF Conn
  <2>4. phase' \in [Conn -> Phases]
    BY <1>1, <1>2 DEF Phases
  <2>5. checked' \in [Conn -> Checks \cup {None}]
    <3>1. checked \in [Conn -> Checks \cup {None}]
      BY DEF IInv, TypeOK
    <3>2. QED BY <1>1, <3>1
  <2>6. stopTimers' \in Nat /\ running' \in BOOLEAN
    BY <1>1 DEF IInv, TypeOK
  <2>7. requests' \in SUBSET Request /\ routed' \in Route \cup {NoRoute}
    BY <1>1 DEF IInv, TypeOK
  <2>8. QED BY <2>2, <2>3, <2>4, <2>5, <2>6, <2>7 DEF TypeOK
<1>6. \A i \in 1 .. n : connectionList[i] < internalId /\ Listed(connectionList[i])
  BY DEF IInv, Ordered
<1>7. \A c \in Conn : c # internalId => phase'[c] = phase[c] /\ id'[c] = id[c]
  BY <1>1, <1>2
<1>8. phase'[internalId] = "open" /\ id'[internalId] = n
  BY <1>1, <1>2
<1>9. \A i \in 1 .. n : connectionList[i] # internalId
  BY <1>2, <1>6, ConnNat
<1> HIDE DEF n
<1>10. Ordered'
  <2>1. Increasing(connectionList)'
    <3> SUFFICES ASSUME NEW i \in 1 .. n + 1, NEW j \in 1 .. n + 1, i < j
                 PROVE  connectionList'[i] < connectionList'[j]
      BY <1>4 DEF Increasing
    <3>1. i \in 1 .. n BY <1>2
    <3>2. CASE j = n + 1 BY <1>4, <1>6, <3>1, <3>2
    <3>3. CASE j \in 1 .. n BY <1>4, <3>1, <3>3 DEF IInv, Ordered, Increasing, n
    <3>4. QED BY <1>2, <3>2, <3>3
  <2>2. ASSUME NEW i \in 1 .. n + 1
        PROVE  connectionList'[i] < internalId' /\ phase'[connectionList'[i]] \in {"open", "finished"}
    <3>1. CASE i \in 1 .. n
      <4>1. connectionList'[i] = connectionList[i] /\ connectionList[i] \in Nat
        BY <1>2, <1>4, <3>1, ConnNat
      <4>2. connectionList[i] < internalId' BY <1>1, <1>2, <1>6, <3>1, <4>1
      <4>3. phase'[connectionList[i]] = phase[connectionList[i]] BY <1>2, <1>7, <1>9, <3>1
      <4>4. QED BY <1>6, <3>1, <4>1, <4>2, <4>3 DEF Listed
    <3>2. CASE i = n + 1
      BY <1>1, <1>2, <1>4, <1>8, <3>2 DEF Listed
    <3>3. QED BY <1>2, <3>1, <3>2
  <2>3. ASSUME NEW c \in Conn, Listed(c)'
        PROVE  \E i \in 1 .. n + 1 : connectionList'[i] = c
    <3>1. CASE c = internalId BY <1>2, <1>4, <3>1
    <3>2. CASE c # internalId
      <4>1. Listed(c) BY <1>7, <2>3, <3>2 DEF Listed
      <4>2. PICK i \in 1 .. n : connectionList[i] = c BY <4>1 DEF IInv, Ordered, n
      <4>3. i \in 1 .. n + 1 /\ connectionList'[i] = c BY <1>2, <1>4, <4>2
      <4>4. QED BY <4>3
    <3>3. QED BY <3>1, <3>2
  <2>4. \A c \in Conn : c >= internalId' => phase'[c] = "unborn"
    BY <1>1, <1>2, <1>7, ConnNat DEF IInv, Ordered
  <2>5. QED BY <1>4, <2>1, <2>2, <2>3, <2>4 DEF Ordered, Listed
<1>11. Positions'
  <2> SUFFICES ASSUME NEW i \in 1 .. n + 1
               PROVE  i - 1 <= connectionList'[i] /\ i - 1 <= id'[connectionList'[i]]
    BY <1>4 DEF Positions
  <2>1. CASE i \in 1 .. n
    <3>1. id'[connectionList[i]] = id[connectionList[i]] BY <1>2, <1>7, <1>9, <2>1
    <3>2. QED BY <1>4, <2>1, <3>1 DEF IInv, Positions, n
  <2>2. CASE i = n + 1
    BY <1>2, <1>3, <1>4, <1>8, <2>2
  <2>3. QED BY <1>2, <2>1, <2>2
<1>12. PrefixIntact'
  <2> SUFFICES ASSUME NEW c \in Conn, \A d \in 0 .. c : Listed(d)'
               PROVE  c < n + 1 /\ connectionList'[c + 1] = c /\ id'[c] = c
    BY <1>4 DEF PrefixIntact
  <2>0. c \in Nat /\ \A d \in 0 .. c : d \in Conn /\ d \in Nat BY ConnNat
  <2>1. c <= internalId
    <3>1. Listed(c)' BY <2>0
    <3>2. c > internalId => phase[c] = "unborn" BY <1>2, <2>0 DEF IInv, Ordered
    <3>3. QED BY <1>2, <1>7, <2>0, <3>1, <3>2 DEF Listed
  <2>2. CASE c < internalId
    <3>1. \A d \in 0 .. c : Listed(d)
      <4> SUFFICES ASSUME NEW d \in 0 .. c PROVE Listed(d) OBVIOUS
      <4>1. d # internalId /\ d \in Conn BY <1>2, <2>0, <2>2
      <4>2. QED BY <1>7, <4>1 DEF Listed
    <3>2. c < n /\ connectionList[c + 1] = c /\ id[c] = c
      BY <3>1 DEF IInv, PrefixIntact, n
    <3>3. c + 1 \in 1 .. n BY <1>2, <2>0, <3>2
    <3>4. QED BY <1>2, <1>4, <1>7, <2>0, <2>2, <3>2, <3>3
  <2>3. CASE c = internalId
    <3>1. n >= c
      <4>1. CASE c = 0 BY <4>1, <1>2
      <4>2. CASE c > 0
        <5>1. c - 1 \in Conn BY <2>0, <4>2
        <5>2. \A d \in 0 .. c - 1 : Listed(d)
          <6> SUFFICES ASSUME NEW d \in 0 .. c - 1 PROVE Listed(d) OBVIOUS
          <6>1. d \in 0 .. c /\ d # internalId BY <1>2, <2>0, <2>3
          <6>2. QED BY <1>7, <2>0, <6>1 DEF Listed
        <5>3. c - 1 < n BY <5>1, <5>2 DEF IInv, PrefixIntact, n
        <5>4. QED BY <5>3, <1>2, <2>0
      <4>3. QED BY <4>1, <4>2, <2>0
    <3>2. n = c BY <1>2, <1>3, <2>3, <3>1
    <3>3. QED BY <1>2, <1>4, <1>8, <2>3, <3>2
  <2>4. QED BY <1>2, <2>0, <2>1, <2>2, <2>3
<1>13. QED BY <1>5, <1>10, <1>11, <1>12 DEF IInv

\* slotQuitThread leaves the list alone.
LEMMA QuitIInv ==
    ASSUME NEW c \in Conn PROVE IInv /\ slotQuitThread(c) => IInv'
<1> SUFFICES ASSUME IInv, slotQuitThread(c) PROVE IInv'
  OBVIOUS
<1>1. /\ phase \in [Conn -> Phases] /\ phase[c] = "open"
      /\ phase' = [phase EXCEPT ![c] = "finished"]
      /\ UNCHANGED <<connectionList, internalId, id, checked, stopTimers, running, requests, routed>>
  BY DEF IInv, TypeOK, slotQuitThread
<1>2. \A d \in Conn : (Listed(d)' <=> Listed(d)) /\ (phase[d] = "unborn" => phase'[d] = "unborn")
  BY <1>1 DEF Listed
<1>3. TypeOK'
  BY <1>1 DEF IInv, TypeOK, Phases
<1>4. \A i \in 1 .. Len(connectionList) : connectionList[i] \in Conn
  BY DEF IInv, TypeOK
<1>5. Ordered'
  BY <1>1, <1>2, <1>4 DEF IInv, Ordered, Increasing, Listed
<1>6. Positions'
  BY <1>1 DEF IInv, Positions
<1>7. PrefixIntact'
  BY <1>1, <1>2, ConnNat DEF IInv, PrefixIntact, Listed
<1>8. QED BY <1>3, <1>5, <1>6, <1>7 DEF IInv

\* slotThreadFinished removes one entry and moves the younger ones down.
LEMMA FinishedIInv ==
    ASSUME NEW c \in Conn PROVE IInv /\ slotThreadFinished(c) => IInv'
<1> SUFFICES ASSUME IInv, slotThreadFinished(c) PROVE IInv'
  OBVIOUS
<1> DEFINE n == Len(connectionList)
<1>1. /\ connectionList \in Seq(Conn) /\ n \in Nat
      /\ id \in [Conn -> Conn] /\ internalId \in Nat
      /\ phase \in [Conn -> Phases] /\ phase[c] = "finished"
      /\ phase' = [phase EXCEPT ![c] = "gone"]
      /\ UNCHANGED <<internalId, id, checked, running, routed>>
  BY RegistryAssumption DEF IInv, TypeOK, slotThreadFinished
<1>2. PICK i \in 1 .. n :
         connectionList[i] = c /\ connectionList' = Without(connectionList, i)
  BY DEF IInv, Ordered, Listed, slotThreadFinished, remove, count
<1>3. connectionList' \in Seq(Conn) /\ Len(connectionList') = n - 1
  BY <1>1, <1>2, WithoutType
<1>4. \A j \in 1 .. n : connectionList[j] \in Conn /\ connectionList[j] \in Nat
  <2>1. \A j \in 1 .. n : connectionList[j] \in Conn
    BY <1>1
  <2>2. QED BY <2>1, ConnNat
<1>5. \A d \in Conn : (Listed(d)' <=> Listed(d) /\ d # c)
  BY <1>1 DEF Listed
<1>6. \A j \in 1 .. n - 1 : \E k \in 1 .. n : k >= j /\ connectionList'[j] = connectionList[k]
  BY <1>1, <1>2, WithoutFrom
<1>7. Increasing(connectionList') /\ \A j \in 1 .. n - 1 : connectionList'[j] # c
  <2>1. Increasing(connectionList) BY DEF IInv, Ordered
  <2>2. QED BY <1>1, <1>2, <2>1, ConnNat, WithoutIncreasing
<1>8. TypeOK'
  <2>1. stopTimers' \in Nat
    BY DEF IInv, TypeOK, slotThreadFinished
  <2>2. QED BY <1>1, <1>3, <2>1 DEF IInv, TypeOK, slotThreadFinished, Phases
<1> HIDE DEF n
<1>9. Ordered'
  <2>1. ASSUME NEW j \in 1 .. n - 1
        PROVE  connectionList'[j] < internalId' /\ phase'[connectionList'[j]] \in {"open", "finished"}
    <3>1. PICK k \in 1 .. n : connectionList'[j] = connectionList[k] BY <1>6
    <3>2. connectionList[k] < internalId /\ Listed(connectionList[k]) BY DEF IInv, Ordered, n
    <3>3. connectionList'[j] # c BY <1>7
    <3>4. QED BY <1>1, <1>4, <1>5, <3>1, <3>2, <3>3 DEF Listed
  <2>2. ASSUME NEW d \in Conn, Listed(d)'
        PROVE  \E j \in 1 .. n - 1 : connectionList'[j] = d
    <3>1. Listed(d) /\ d # c BY <1>5, <2>2
    <3>2. PICK k \in 1 .. n : connectionList[k] = d BY <3>1 DEF IInv, Ordered, n
    <3>3. k # i BY <1>2, <3>1, <3>2
    <3>4. QED BY <1>1, <1>2, <3>2, <3>3, WithoutKeeps DEF n
  <2>3. \A d \in Conn : d >= internalId' => phase'[d] = "unborn"
    <3>1. \A d \in Conn : d >= internalId => phase[d] = "unborn" BY DEF IInv, Ordered
    <3>2. c < internalId BY <1>2 DEF IInv, Ordered, n
    <3>3. QED BY <1>1, <3>1, <3>2, ConnNat
  <2>4. QED BY <1>3, <1>7, <2>1, <2>2, <2>3 DEF Ordered, Listed, Increasing
<1>10. Positions'
  <2> SUFFICES ASSUME NEW j \in 1 .. n - 1
               PROVE  j - 1 <= connectionList'[j] /\ j - 1 <= id'[connectionList'[j]]
    BY <1>3 DEF Positions
  <2>1. PICK k \in 1 .. n : k >= j /\ connectionList'[j] = connectionList[k] BY <1>6
  <2>2. k - 1 <= connectionList[k] /\ k - 1 <= id[connectionList[k]] BY DEF IInv, Positions, n
  <2>3. connectionList[k] \in Nat /\ id[connectionList[k]] \in Nat BY <1>1, <1>4, ConnNat
  <2>4. QED BY <1>1, <2>1, <2>2, <2>3
<1>11. PrefixIntact'
  <2> SUFFICES ASSUME NEW d \in Conn, \A e \in 0 .. d : Listed(e)'
               PROVE  d < n - 1 /\ connectionList'[d + 1] = d /\ id'[d] = d
    BY <1>3 DEF PrefixIntact
  <2>0. d \in Nat /\ c \in Nat /\ \A e \in 0 .. d : e \in Conn BY ConnNat
  <2>1. \A e \in 0 .. d : Listed(e) /\ e # c
    BY <1>5, <2>0
  <2>2. d < n /\ connectionList[d + 1] = d /\ id[d] = d
    BY <2>1 DEF IInv, PrefixIntact, n
  <2>3. c > d
    BY <2>0, <2>1
  <2>4. d + 1 \in 1 .. n /\ d + 1 # i
    BY <1>1, <1>2, <2>0, <2>2, <2>3
  <2>5. i < d + 1 => c < d
    BY <1>2, <2>2, <2>4 DEF IInv, Ordered, Increasing, n
  <2>6. d + 1 \in 1 .. i - 1
    BY <2>0, <2>3, <2>4, <2>5, <1>1
  <2>7. connectionList'[d + 1] = connectionList[d + 1]
    BY <1>1, <1>2, <2>6, WithoutType DEF n
  <2>8. QED BY <1>1, <2>0, <2>2, <2>6, <2>7
<1>12. QED BY <1>8, <1>9, <1>10, <1>11 DEF IInv

\* The invariant does not depend on timers, requests or routes beyond their
\* types.
LEMMA FrameIInv ==
    IInv /\ UNCHANGED <<connectionList, internalId, id, phase>> /\ TypeOK' => IInv'
BY DEF IInv, Ordered, Increasing, Positions, PrefixIntact, Listed

\* The other steps change neither the list nor the ids.
LEMMA NextIInv == IInv /\ [Next]_vars => IInv'
<1> SUFFICES ASSUME IInv, [Next]_vars PROVE IInv'
  OBVIOUS
<1> USE RegistryAssumption
<1>1. ASSUME NEW check \in Checks, incomingConnection(check) PROVE IInv'
  BY <1>1, AcceptIInv
<1>2. ASSUME NEW c \in Conn, slotQuitThread(c) PROVE IInv'
  BY <1>2, QuitIInv
<1>3. ASSUME NEW c \in Conn, slotThreadFinished(c) PROVE IInv'
  BY <1>3, FinishedIInv
<1>4. ASSUME NEW c \in Conn, NEW clientId \in 0 .. MaxConnections - 1, GETLOG(c, clientId)
      PROVE  IInv'
  <2>1. element(clientId) \in Conn /\ id[c] \in Nat /\ clientId \in Nat
    BY <1>4, ListTypes DEF GETLOG, HasElement, element, count
  <2>2. TypeOK'
    BY <1>4, <2>1 DEF IInv, TypeOK, GETLOG, Request, Route
  <2>3. QED BY <1>4, <2>2, FrameIInv DEF GETLOG
<1>5. ASSUME NEW c \in Conn, NEW clientId \in 0 .. MaxConnections - 1, CLOSE(c, clientId)
      PROVE  IInv'
  <2>1. PICK con \in Conn :
           routed' = [kind |-> "CLOSE", by |-> c, asked |-> clientId, to |-> con]
    BY <1>5 DEF IInv, TypeOK, CLOSE, count
  <2>2. routed' \in Route
    BY <2>1 DEF Route
  <2>3. TypeOK'
    BY <1>5, <2>2 DEF IInv, TypeOK, CLOSE
  <2>4. QED BY <1>5, <2>3, FrameIInv DEF CLOSE
<1>6. ASSUME NEW r \in requests, GETLOG_RESP(r) PROVE IInv'
  <2>1. r \in Request
    BY DEF IInv, TypeOK
  <2>2. HasElement(r.reqId) => element(r.reqId) \in Conn
    BY <2>1 DEF IInv, TypeOK, HasElement, element, count, Request
  <2>3. routed' \in Route \cup {NoRoute}
    BY <1>6, <2>1, <2>2 DEF IInv, TypeOK, GETLOG_RESP, Request, Route
  <2>4. TypeOK'
    BY <1>6, <2>3 DEF IInv, TypeOK, GETLOG_RESP
  <2>5. QED BY <1>6, <2>4, FrameIInv DEF GETLOG_RESP
<1>7. CASE OnStopService
  <2>1. stopTimers' \in Nat
    BY <1>7 DEF IInv, TypeOK, OnStopService
  <2>2. TypeOK'
    BY <1>7, <2>1 DEF IInv, TypeOK, OnStopService
  <2>3. QED BY <1>7, <2>2, FrameIInv DEF OnStopService
<1>8. CASE UNCHANGED vars
  <2>1. TypeOK'
    BY <1>8 DEF IInv, TypeOK, vars
  <2>2. QED BY <1>8, <2>1, FrameIInv DEF vars
<1>9. QED BY <1>1, <1>2, <1>3, <1>4, <1>5, <1>6, <1>7, <1>8 DEF Next, GET_ERROR, GET_ERROR_RESP, logRejectedClient

\* The inductive invariant holds in every reachable state.
THEOREM RegistryInvariant == Spec => []IInv
BY InitIInv, NextIInv, PTL DEF Spec

\* Type correctness of the registry.
THEOREM RegistryTypeOK == Spec => []TypeOK
<1>1. IInv => TypeOK
  BY DEF IInv
<1>2. QED BY <1>1, RegistryInvariant, PTL

\* SslConnections::remove goes by threadId: the list is ordered, without
\* duplicates, and holds exactly the connections not yet cleaned up.
THEOREM RegistryListedIsLive == Spec => []ListedIsLive
<1>1. IInv => ListedIsLive
  BY DEF IInv, TypeOK, Ordered, Increasing, ListedIsLive, Listed, count
<1>2. QED BY <1>1, RegistryInvariant, PTL

\* element(getId()) is never a client that connected earlier, and it is the
\* client itself until an older one has left.
THEOREM RegistryIdsHold == Spec => []IdsHold
<1>1. IInv => DriftsForward
  <2> SUFFICES ASSUME IInv, NEW i \in 1 .. count, HasElement(id[connectionList[i]])
               PROVE  element(id[connectionList[i]]) >= connectionList[i]
    BY DEF DriftsForward
  <2>1. /\ connectionList \in Seq(Conn) /\ count \in Nat
        /\ connectionList[i] \in Conn /\ id[connectionList[i]] \in Nat
    BY ListTypes DEF count
  <2>2. i <= id[connectionList[i]] + 1 /\ id[connectionList[i]] + 1 \in 1 .. count
    BY <2>1, ConnNat DEF IInv, Positions, HasElement, count
  <2>3. connectionList[id[connectionList[i]] + 1] \in Conn
    BY <2>1, <2>2 DEF count
  <2>4. i < id[connectionList[i]] + 1 => connectionList[i] < connectionList[id[connectionList[i]] + 1]
    BY <2>2 DEF IInv, Ordered, Increasing, count
  <2>5. connectionList[i] \in Nat /\ element(id[connectionList[i]]) \in Nat
    BY <2>1, <2>3, ConnNat DEF element
  <2>6. CASE i = id[connectionList[i]] + 1
    BY <2>5, <2>6 DEF element
  <2>7. CASE i < id[connectionList[i]] + 1
    BY <2>4, <2>5, <2>7 DEF element
  <2>8. QED BY <2>1, <2>2, <2>6, <2>7
<1>2. IInv => ExactWhileOldersStay
  <2> SUFFICES ASSUME IInv, NEW c \in Conn, Listed(c), \A d \in Conn : d < c => Listed(d)
               PROVE  HasElement(id[c]) /\ element(id[c]) = c
    BY DEF ExactWhileOldersStay, Listed
  <2>1. \A d \in 0 .. c : Listed(d)
    BY RegistryAssumption DEF Conn
  <2>2. QED BY <2>1 DEF IInv, PrefixIntact, HasElement, element, count
<1>3. IInv => IdsHold
  BY <1>1, <1>2 DEF IdsHold
<1>4. QED BY <1>3, RegistryInvariant, PTL

-----------------------------------------------------------------------------
\* The signature check

\* clientUsesSameCodeSigningCertificate says yes only of a client whose own
\* program was verified and has the certificate of the service.
LEMMA CheckIsOfClient ==
    ASSUME NEW check \in Checks, clientUsesSameCodeSigningCertificate(check)
    PROVE  "client" \in check.trusted /\ check.signer["client"] = check.signer["service"]
<1>1. PICK pid \in findClientProcessId(check) :
         pid \in check.trusted /\ check.signer["service"] = check.signer[pid]
  BY DEF clientUsesSameCodeSigningCertificate, verifyAuthenticodeSignature, signerCertificateDer
<1>2. pid = "client"
  BY <1>1, ChecksAssumption DEF findClientProcessId
<1>3. QED BY <1>1, <1>2

\* incomingConnection lets nobody in who has not passed the check, and a
\* client that was let in stays one that has.
THEOREM RegistryAcceptedIsSigned == Spec => []AcceptedIsSigned
<1>1. Init => AcceptedIsSigned
  BY DEF Init, AcceptedIsSigned
<1>2. IInv /\ AcceptedIsSigned /\ [Next]_vars => AcceptedIsSigned'
  <2> SUFFICES ASSUME IInv, AcceptedIsSigned, [Next]_vars PROVE AcceptedIsSigned'
    OBVIOUS
  <2>1. phase \in [Conn -> Phases] /\ checked \in [Conn -> Checks \cup {None}]
    BY DEF IInv, TypeOK
  <2>2. ASSUME NEW check \in Checks, incomingConnection(check) PROVE AcceptedIsSigned'
    <3>1. "client" \in check.trusted /\ check.signer["client"] = check.signer["service"]
      BY <2>2, CheckIsOfClient DEF incomingConnection
    <3>2. /\ phase' = [phase EXCEPT ![internalId] = "open"]
          /\ checked' = [checked EXCEPT ![internalId] = check]
      BY <2>2 DEF incomingConnection
    <3>3. ASSUME NEW c \in Conn, phase'[c] # "unborn"
          PROVE  /\ "client" \in checked'[c].trusted
                 /\ checked'[c].signer["client"] = checked'[c].signer["service"]
      <4>1. CASE c = internalId BY <2>1, <3>1, <3>2, <4>1
      <4>2. CASE c # internalId BY <2>1, <3>2, <3>3, <4>2 DEF AcceptedIsSigned
      <4>3. QED BY <4>1, <4>2
    <3>4. QED BY <3>3 DEF AcceptedIsSigned
  <2>3. ASSUME NEW c \in Conn, slotQuitThread(c) PROVE AcceptedIsSigned'
    BY <2>1, <2>3 DEF AcceptedIsSigned, slotQuitThread
  <2>4. ASSUME NEW c \in Conn, slotThreadFinished(c) PROVE AcceptedIsSigned'
    BY <2>1, <2>4 DEF AcceptedIsSigned, slotThreadFinished
  <2>5. ASSUME UNCHANGED <<phase, checked>> PROVE AcceptedIsSigned'
    BY <2>5 DEF AcceptedIsSigned
  <2>6. QED
    BY <2>2, <2>3, <2>4, <2>5 DEF Next, vars, logRejectedClient, GET_ERROR, GET_ERROR_RESP,
       GETLOG, GETLOG_RESP, CLOSE, OnStopService
<1>3. QED BY <1>1, <1>2, RegistryInvariant, PTL DEF Spec

-----------------------------------------------------------------------------
\* Answers to log requests

\* From the position that an answer will go to onwards, everyone is at least
\* as young as the asker, who may have left already.
Waiting ==
    \A r \in requests :
       /\ r.by < internalId
       /\ \A i \in 1 .. Len(connectionList) : i > r.reqId => connectionList[i] >= r.by

AInv == Waiting /\ AnswersDriftForward

\* A new request: the asker is listed at its id or before, and the list is
\* ordered.
LEMMA AskWaiting ==
    ASSUME NEW c \in Conn, NEW clientId \in Conn
    PROVE  IInv /\ AInv /\ GETLOG(c, clientId) => AInv'
<1> SUFFICES ASSUME IInv, AInv, GETLOG(c, clientId) PROVE AInv'
  OBVIOUS
<1> DEFINE n == Len(connectionList)
           q == [to |-> element(clientId), reqId |-> id[c], by |-> c, asked |-> clientId]
<1>1. /\ requests' = requests \cup {q} /\ routed'.kind = "GETLOG"
      /\ UNCHANGED <<connectionList, internalId>>
  BY DEF GETLOG
<1>2. /\ c \in Nat /\ id[c] \in Nat /\ n \in Nat
      /\ \A i \in 1 .. n : connectionList[i] \in Nat
  BY ConnNat, ListTypes
<1>3. PICK k \in 1 .. n : connectionList[k] = c
  BY DEF IInv, Ordered, GETLOG, Sender, Listed
<1>4. k - 1 <= id[c] /\ c < internalId
  BY <1>3 DEF IInv, Positions, Ordered
<1>5. ASSUME NEW i \in 1 .. n, i > id[c] PROVE connectionList[i] >= c
  <2>1. CASE i = k BY <1>2, <1>3, <2>1
  <2>2. CASE i > k BY <1>2, <1>3, <2>2 DEF IInv, Ordered, Increasing
  <2>3. QED BY <1>2, <1>4, <1>5, <2>1, <2>2
<1>6. Waiting'
  BY <1>1, <1>4, <1>5 DEF AInv, Waiting
<1>7. AnswersDriftForward'
  BY <1>1 DEF AnswersDriftForward
<1>8. QED BY <1>6, <1>7 DEF AInv

\* A new client is younger than everyone who has asked.
LEMMA AcceptWaiting ==
    ASSUME NEW check \in Checks PROVE IInv /\ AInv /\ incomingConnection(check) => AInv'
<1> SUFFICES ASSUME IInv, AInv, incomingConnection(check) PROVE AInv'
  OBVIOUS
<1> DEFINE n == Len(connectionList)
<1>1. /\ connectionList' = Append(connectionList, internalId) /\ internalId' = internalId + 1
      /\ UNCHANGED <<requests, routed>>
  BY DEF incomingConnection, add
<1>2. connectionList \in Seq(Conn) /\ n \in Nat /\ internalId \in Nat
  BY RegistryAssumption DEF IInv, TypeOK
<1>3. /\ Len(connectionList') = n + 1 /\ connectionList'[n + 1] = internalId
      /\ \A i \in 1 .. n : connectionList'[i] = connectionList[i]
  BY <1>1, <1>2
<1>4. ASSUME NEW r \in requests
      PROVE  /\ r.by < internalId + 1
             /\ \A i \in 1 .. n + 1 : i > r.reqId => connectionList'[i] >= r.by
  <2>1. r.by \in Nat /\ r.by < internalId
    BY ConnNat DEF IInv, TypeOK, Request, AInv, Waiting
  <2>2. \A i \in 1 .. n : i > r.reqId => connectionList'[i] >= r.by
    BY <1>3 DEF AInv, Waiting
  <2>3. connectionList'[n + 1] >= r.by
    BY <1>2, <1>3, <2>1
  <2>4. QED BY <1>2, <2>1, <2>2, <2>3
<1>5. QED BY <1>1, <1>3, <1>4 DEF AInv, Waiting, AnswersDriftForward

\* Whoever leaves, the others only move to the front.
LEMMA FinishedWaiting ==
    ASSUME NEW c \in Conn PROVE IInv /\ AInv /\ slotThreadFinished(c) => AInv'
<1> SUFFICES ASSUME IInv, AInv, slotThreadFinished(c) PROVE AInv'
  OBVIOUS
<1> DEFINE n == Len(connectionList)
<1>1. /\ connectionList \in Seq(Conn) /\ n \in Nat
      /\ requests' \subseteq requests /\ UNCHANGED <<internalId, routed>>
  BY DEF IInv, TypeOK, slotThreadFinished
<1>2. PICK i \in 1 .. n : connectionList' = Without(connectionList, i)
  BY DEF IInv, Ordered, Listed, slotThreadFinished, remove, count
<1>3. Len(connectionList') = n - 1
  BY <1>1, <1>2, WithoutType
<1>4. \A j \in 1 .. n - 1 : \E k \in 1 .. n : k >= j /\ connectionList'[j] = connectionList[k]
  BY <1>1, <1>2, WithoutFrom
<1>5. ASSUME NEW r \in requests, NEW j \in 1 .. n - 1, j > r.reqId
      PROVE  connectionList'[j] >= r.by
  <2>1. PICK k \in 1 .. n : k >= j /\ connectionList'[j] = connectionList[k]
    BY <1>4
  <2>2. r.reqId \in Nat
    BY DEF IInv, TypeOK, Request
  <2>3. k > r.reqId
    BY <1>5, <2>1, <2>2
  <2>4. QED BY <2>1, <2>3 DEF AInv, Waiting
<1>6. QED BY <1>1, <1>3, <1>5 DEF AInv, Waiting, AnswersDriftForward

\* The answer goes to its asker or to someone younger.
LEMMA AnswerWaiting ==
    ASSUME NEW r \in requests PROVE IInv /\ AInv /\ GETLOG_RESP(r) => AInv'
<1> SUFFICES ASSUME IInv, AInv, GETLOG_RESP(r) PROVE AInv'
  OBVIOUS
<1>1. requests' \subseteq requests /\ UNCHANGED <<connectionList, internalId>>
  BY DEF GETLOG_RESP
<1>2. Waiting'
  BY <1>1 DEF AInv, Waiting
<1>3. CASE HasElement(r.reqId)
  <2>1. r.reqId + 1 \in 1 .. Len(connectionList) /\ r.reqId + 1 > r.reqId
    BY <1>3 DEF IInv, TypeOK, Request, HasElement, count
  <2>2. element(r.reqId) >= r.by
    BY <2>1 DEF AInv, Waiting, element
  <2>3. routed'.by = r.by /\ routed'.to = element(r.reqId)
    BY <1>3 DEF GETLOG_RESP
  <2>4. QED BY <1>2, <2>2, <2>3 DEF AInv, AnswersDriftForward
<1>4. CASE ~HasElement(r.reqId)
  BY <1>2, <1>4 DEF AInv, AnswersDriftForward, GETLOG_RESP
<1>5. QED BY <1>3, <1>4

\* GETLOG_RESP never hands a log to a client that connected before the one
\* that asked, whoever has left or joined since the question.
THEOREM RegistryAnswers == Spec => []AnswersDriftForward
<1>1. Init => AInv
  BY DEF Init, AInv, Waiting, AnswersDriftForward, NoRoute
<1>2. IInv /\ AInv /\ [Next]_vars => AInv'
  <2> SUFFICES ASSUME IInv, AInv, [Next]_vars PROVE AInv'
    OBVIOUS
  <2>1. ASSUME NEW check \in Checks, incomingConnection(check) PROVE AInv'
    BY <2>1, AcceptWaiting
  <2>2. ASSUME NEW c \in Conn, slotQuitThread(c) PROVE AInv'
    BY <2>2 DEF AInv, Waiting, AnswersDriftForward, slotQuitThread
  <2>3. ASSUME NEW c \in Conn, slotThreadFinished(c) PROVE AInv'
    BY <2>3, FinishedWaiting
  <2>4. ASSUME NEW c \in Conn, NEW clientId \in Conn, GETLOG(c, clientId) PROVE AInv'
    BY <2>4, AskWaiting
  <2>5. ASSUME NEW c \in Conn, NEW clientId \in Conn, CLOSE(c, clientId) PROVE AInv'
    BY <2>5 DEF AInv, Waiting, AnswersDriftForward, CLOSE
  <2>6. ASSUME NEW r \in requests, GETLOG_RESP(r) PROVE AInv'
    BY <2>6, AnswerWaiting
  <2>7. CASE OnStopService
    BY <2>7 DEF AInv, Waiting, AnswersDriftForward, OnStopService
  <2>8. CASE UNCHANGED vars
    BY <2>8 DEF AInv, Waiting, AnswersDriftForward, vars
  <2>9. QED BY <2>1, <2>2, <2>3, <2>4, <2>5, <2>6, <2>7, <2>8 DEF Next, Conn, GET_ERROR, GET_ERROR_RESP, logRejectedClient
<1>3. Spec => []AInv
  BY <1>1, <1>2, RegistryInvariant, PTL DEF Spec
<1>4. AInv => AnswersDriftForward
  BY DEF AInv
<1>5. QED BY <1>3, <1>4, PTL
=============================================================================
