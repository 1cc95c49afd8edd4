------------------------- MODULE HubDeliveryProofs -------------------------
(* Theorems about HubDelivery, for every set of agents, sockets and messages. *)
EXTENDS HubDelivery, SequencesExt, SequenceTheorems, WellFoundedInduction, TLAPS

-----------------------------------------------------------------------------
(* Sequences and positions.                                                *)

\* Append adds exactly its element to the range.
LEMMA AppendRange ==
    ASSUME NEW S, NEW q \in Seq(S), NEW e \in S
    PROVE  /\ Append(q, e) \in Seq(S)
           /\ Range(Append(q, e)) = Range(q) \cup {e}
<1>1. Append(q, e) = q \o <<e>> /\ <<e>> \in Seq(S)
    BY AppendIsConcat
<1>2. Range(<<e>>) = {e}
    BY DEF Range
<1>3. q \o <<e>> \in Seq(S)
    BY <1>1, ConcatProperties
<1>4. Range(q \o <<e>>) = Range(q) \cup Range(<<e>>)
    <2> DEFINE single == <<e>>
    <2>1. single \in Seq(S)
        BY <1>1
    <2> HIDE DEF single
    <2>2. Range(q \o single) = Range(q) \cup Range(single)
        BY <2>1, RangeConcatenation
    <2> QED BY <2>2 DEF single
<1> QED BY <1>1, <1>2, <1>3, <1>4

\* A queue is its head and its tail.
LEMMA TailRange ==
    ASSUME NEW S, NEW q \in Seq(S), q # <<>>
    PROVE  /\ Head(q) \in S
           /\ Head(q) \in Range(q)
           /\ Tail(q) \in Seq(S)
           /\ Range(q) = Range(Tail(q)) \cup {Head(q)}
<1>1. Head(q) \in S /\ Tail(q) \in Seq(S) /\ Len(Tail(q)) = Len(q) - 1 /\ Len(q) \in Nat \ {0}
    BY HeadTailProperties, EmptySeq
<1>2. Head(q) = q[1]
    OBVIOUS
<1>3. \A i \in 1..(Len(q) - 1) : Tail(q)[i] = q[i + 1]
    BY HeadTailProperties
<1>4. Range(q) = {q[i] : i \in 1..Len(q)} /\ Range(Tail(q)) = {Tail(q)[i] : i \in 1..(Len(q) - 1)}
    BY <1>1, RangeEquality
<1>5. Range(Tail(q)) \subseteq Range(q) /\ Head(q) \in Range(q)
    BY <1>1, <1>2, <1>3, <1>4
<1>6. ASSUME NEW i \in 1..Len(q), i # 1
      PROVE  q[i] \in Range(Tail(q))
    <2>1. i - 1 \in 1..(Len(q) - 1) /\ q[i] = Tail(q)[i - 1]
        BY <1>1, <1>3, <1>6
    <2> QED BY <1>4, <2>1
<1>7. Range(q) \subseteq Range(Tail(q)) \cup {Head(q)}
    BY <1>2, <1>4, <1>6
<1> QED BY <1>1, <1>5, <1>7

-----------------------------------------------------------------------------
(* Lemmas on the sequence operators the model uses.                        *)

\* Map.set keeps every key and adds one.
LEMMA MapSetRange ==
    ASSUME NEW S, NEW q \in Seq(S), NEW e \in S
    PROVE  /\ MapSet(q, e) \in Seq(S)
           /\ Range(MapSet(q, e)) = Range(q) \cup {e}
           /\ IsInjective(q) => IsInjective(MapSet(q, e))
<1>1. MapSet(q, e) \in Seq(S) /\ Range(MapSet(q, e)) = Range(q) \cup {e}
    BY AppendRange DEF MapSet
<1>2. ASSUME IsInjective(q), e \notin Range(q)
      PROVE  IsInjective(Append(q, e))
    <2>1. /\ DOMAIN Append(q, e) = 1..(Len(q) + 1)
          /\ \A i \in 1..Len(q) : Append(q, e)[i] = q[i]
          /\ Append(q, e)[Len(q) + 1] = e
        BY AppendProperties, LenProperties
    <2>2. Len(q) \in Nat /\ DOMAIN q = 1..Len(q) /\ \A i \in 1..Len(q) : q[i] # e
        BY <1>2, LenProperties DEF Range
    <2>3. \A i, j \in 1..Len(q) : q[i] = q[j] => i = j
        BY <1>2, <2>2 DEF IsInjective
    <2> QED BY <2>1, <2>2, <2>3 DEF IsInjective
<1> QED BY <1>1, <1>2 DEF MapSet

\* Map.delete leaves every other key, and takes its own out when keys are distinct.
LEMMA MapDeleteRange ==
    ASSUME NEW S, NEW q \in Seq(S), NEW e
    PROVE  /\ MapDelete(q, e) \in Seq(S)
           /\ Range(MapDelete(q, e)) \subseteq Range(q)
           /\ Range(q) \ {e} \subseteq Range(MapDelete(q, e))
           /\ IsInjective(q) => e \notin Range(MapDelete(q, e)) /\ IsInjective(MapDelete(q, e))
           /\ MapDelete(q, e) = q \/
                \E i \in 1..Len(q) :
                    /\ Len(MapDelete(q, e)) = Len(q) - 1
                    /\ \A j \in 1..(Len(q) - 1) : MapDelete(q, e)[j] = IF j < i THEN q[j] ELSE q[j + 1]
<1>1. CASE e \notin Range(q)
    BY <1>1 DEF MapDelete
<1>2. CASE e \in Range(q)
    <2> DEFINE i == CHOOSE j \in DOMAIN q : q[j] = e
               d == MapDelete(q, e)
    <2>1. i \in 1..Len(q) /\ q[i] = e /\ Len(q) \in Nat /\ DOMAIN q = 1..Len(q)
        BY <1>2, LenProperties DEF Range
    <2>2. d = SubSeq(q, 1, i - 1) \o SubSeq(q, i + 1, Len(q))
        BY <1>2 DEF MapDelete, RemoveAt
    <2> HIDE DEF i
    <2>3. \A j \in 1..Len(q) : q[j] \in S
        BY ElementOfSeq
    <2> DEFINE A == SubSeq(q, 1, i - 1)
               B == SubSeq(q, i + 1, Len(q))
    <2>4. /\ A \in Seq(S)
          /\ Len(A) = i - 1
          /\ \A j \in 1..(i - 1) : A[j] = q[j]
        <3>1. \A j \in 1..(i - 1) : q[j] \in S
            BY <2>1, <2>3
        <3> QED BY <2>1, <3>1, SubSeqProperties, Z3
    <2>5. /\ B \in Seq(S)
          /\ Len(B) = Len(q) - i
          /\ \A j \in 1..(Len(q) - i) : B[j] = q[i + j]
        <3>1. \A j \in (i + 1)..Len(q) : q[j] \in S
            BY <2>1, <2>3
        <3>2. i + 1 \in Int /\ Len(q) \in Int
            BY <2>1
        <3>3. /\ B \in Seq(S)
              /\ Len(B) = IF i + 1 <= Len(q) THEN Len(q) - (i + 1) + 1 ELSE 0
              /\ \A j \in 1..(Len(q) - (i + 1) + 1) : B[j] = q[(i + 1) + j - 1]
            BY <3>1, <3>2, SubSeqProperties
        <3> HIDE DEF B
        <3>4. Len(q) - (i + 1) + 1 = Len(q) - i /\ \A j \in 1..(Len(q) - i) : (i + 1) + j - 1 = i + j
            BY <2>1
        <3>5. Len(B) = Len(q) - i
            <4>1. CASE i + 1 <= Len(q)
                BY <3>3, <3>4, <4>1
            <4>2. CASE ~(i + 1 <= Len(q))
                <5>1. Len(B) = 0
                    BY <3>3, <4>2
                <5>2. Len(q) - i = 0
                    <6>1. i \in Int /\ Len(q) \in Int /\ i <= Len(q)
                        BY <2>1
                    <6> QED BY <6>1, <4>2, Z3
                <5> QED BY <5>1, <5>2
            <4> QED BY <4>1, <4>2
        <3> QED BY <3>3, <3>4, <3>5
    <2>6. /\ d \in Seq(S)
          /\ Len(d) = Len(q) - 1
          /\ DOMAIN d = 1..(Len(q) - 1)
          /\ \A j \in 1..(Len(q) - 1) : d[j] = IF j < i THEN q[j] ELSE q[j + 1]
        <3> HIDE DEF A, B, d
        <3>1. d = A \o B
            BY <2>2 DEF A, B
        <3>2. /\ d \in Seq(S)
              /\ Len(d) = Len(A) + Len(B)
              /\ \A j \in 1..(Len(A) + Len(B)) : d[j] = IF j <= Len(A) THEN A[j] ELSE B[j - Len(A)]
            BY <2>4, <2>5, <3>1, ConcatProperties
        <3>3. DOMAIN d = 1..Len(d)
            BY <3>2, LenProperties
        <3>4. Len(d) = Len(q) - 1
            BY <2>1, <2>4, <2>5, <3>2
        <3>5. ASSUME NEW j \in 1..(Len(q) - 1)
              PROVE  d[j] = IF j < i THEN q[j] ELSE q[j + 1]
            <4>0. j \in 1..(Len(A) + Len(B)) /\ d[j] = IF j <= i - 1 THEN A[j] ELSE B[j - (i - 1)]
                <5>1. j \in 1..(Len(A) + Len(B))
                    BY <2>1, <2>4, <2>5
                <5> QED BY <5>1, <3>2, <2>4
            <4>1. CASE j < i
                <5>1. j <= i - 1 /\ j \in 1..(i - 1)
                    BY <4>1, <2>1
                <5> QED BY <5>1, <4>0, <4>1, <2>4
            <4>2. CASE ~(j < i)
                <5>1. ~(j <= i - 1)
                    BY <4>2, <2>1
                <5>2. j - (i - 1) \in 1..(Len(q) - i) /\ i + (j - (i - 1)) = j + 1
                    BY <4>2, <2>1
                <5> QED BY <5>1, <5>2, <4>0, <4>2, <2>5
            <4> QED BY <4>1, <4>2
        <3> QED BY <3>2, <3>3, <3>4, <3>5
    <2> HIDE DEF d
    <2>7. Range(d) \subseteq Range(q)
        BY <2>1, <2>6 DEF Range
    <2>8. Range(q) \ {e} \subseteq Range(d)
        <3> SUFFICES ASSUME NEW j \in 1..Len(q), q[j] # e
                     PROVE  q[j] \in Range(d)
            BY <2>1 DEF Range
        <3>1. CASE j < i
            BY <3>1, <2>1, <2>6 DEF Range
        <3>2. CASE j > i
            <4>1. j - 1 \in 1..(Len(q) - 1) /\ d[j - 1] = q[j]
                BY <3>2, <2>1, <2>6
            <4> QED BY <4>1, <2>6 DEF Range
        <3> QED BY <3>1, <3>2, <2>1
    <2>9. ASSUME IsInjective(q)
          PROVE  e \notin Range(d) /\ IsInjective(d)
        <3> DEFINE at(j) == IF j < i THEN j ELSE j + 1
        <3>1. \A j \in 1..(Len(q) - 1) : at(j) \in 1..Len(q) /\ at(j) # i /\ d[j] = q[at(j)]
            BY <2>1, <2>6
        <3>2. \A j, k \in 1..(Len(q) - 1) : at(j) = at(k) => j = k
            BY <2>1
        <3> HIDE DEF at
        <3>3. \A j, k \in 1..Len(q) : q[j] = q[k] => j = k
            BY <2>1, <2>9 DEF IsInjective
        <3>4. e \notin Range(d)
            BY <2>1, <2>6, <3>1, <3>3 DEF Range
        <3>5. IsInjective(d)
            <4> SUFFICES ASSUME NEW j \in 1..(Len(q) - 1), NEW k \in 1..(Len(q) - 1), d[j] = d[k]
                         PROVE  j = k
                BY <2>6 DEF IsInjective
            <4>1. at(j) = at(k)
                BY <3>1, <3>3
            <4> QED BY <3>2, <4>1
        <3> QED BY <3>4, <3>5
    <2>10. \E k \in 1..Len(q) :
                /\ Len(d) = Len(q) - 1
                /\ \A j \in 1..(Len(q) - 1) : d[j] = IF j < k THEN q[j] ELSE q[j + 1]
        BY <2>1, <2>6
    <2> QED BY <2>6, <2>7, <2>8, <2>9, <2>10 DEF d
<1> QED BY <1>1, <1>2

\* The drained inbox becomes the keys of the unacked map.
LEMMA KeyOrdersRange ==
    ASSUME NEW S, NEW old \in Seq(S), NEW queue \in Seq(S), NEW new \in KeyOrders(old, queue)
    PROVE  /\ new \in Seq(S)
           /\ Range(new) = Range(old) \cup Range(queue)
           /\ IsInjective(new)
<1>1. PICK n \in 0..(Len(old) + Len(queue)) : new \in [1..n -> Range(old) \cup Range(queue)]
    BY DEF KeyOrders
<1>2. Range(old) \subseteq S /\ Range(queue) \subseteq S /\ n \in Nat
    BY RangeOfSeq, LenProperties
<1>3. new \in Seq(S)
    BY <1>1, <1>2
<1> QED BY <1>3 DEF KeyOrders

-----------------------------------------------------------------------------
(* Type correctness.                                                       *)

LEMMA SentType ==
    ASSUME NEW wire \in [Sockets -> Seq(Msgs)], NEW T, NEW ids \in Seq(Msgs)
    PROVE  Sent(wire, T, ids) \in [Sockets -> Seq(Msgs)]
BY ConcatProperties DEF Sent

\* A resolved reference is a node, or nothing.
LEMMA ResolveType ==
    ASSUME TypeOK, NEW m \in Msgs
    PROVE  Resolve(To[m]) \in Nodes \cup {None}
BY MessageAssumption DEF TypeOK, Resolve

LEMMA BoundType ==
    ASSUME TypeOK, NEW x \in Nodes, NEW n
    PROVE  Bound(x, n) \in [Nicks -> Nodes \cup {None}]
BY DEF TypeOK, Bound

\* What routing to a node does to the variables it touches.
LEMMA DeliverType ==
    ASSUME TypeOK, NEW x \in Nodes, NEW ref, NEW m \in Msgs, attached' \subseteq Humans, Deliver(x, ref, m)
    PROVE  /\ row' \in [Msgs -> Nodes \cup {None}]
           /\ buffer' \in [Humans -> Seq(Msgs)]
           /\ unacked' \in [Agents -> Seq(Msgs)]
           /\ toClient' \in [Sockets -> Seq(Msgs)]
           /\ inbox' \in [Nodes -> Seq(Msgs)]
<1>1. row' \in [Msgs -> Nodes \cup {None}]
    BY DEF TypeOK, Deliver
<1>2. buffer' \in [Humans -> Seq(Msgs)]
    <2>1. \A h \in Humans : Append(buffer[h], m) \in Seq(Msgs)
        BY AppendRange DEF TypeOK
    <2>2. buffer' \in {buffer, [buffer EXCEPT ![x] = Append(@, m)]} /\ (x \notin Humans => buffer' = buffer)
        BY DEF Deliver
    <2>3. CASE x \in Humans
        BY <2>1, <2>2, <2>3 DEF TypeOK
    <2> QED BY <2>2, <2>3 DEF TypeOK
<1>3. unacked' \in [Agents -> Seq(Msgs)]
    <2>1. \A a \in Agents : MapSet(unacked[a], m) \in Seq(Msgs)
        BY MapSetRange DEF TypeOK
    <2> QED BY <2>1 DEF TypeOK, Deliver
<1>4. toClient' \in [Sockets -> Seq(Msgs)]
    <2>1. <<m>> \in Seq(Msgs)
        OBVIOUS
    <2>2. Sent(toClient, Targets(x, ref), <<m>>) \in [Sockets -> Seq(Msgs)]
        BY <2>1, SentType DEF TypeOK
    <2> QED BY <2>2 DEF TypeOK, Deliver
<1>5. inbox' \in [Nodes -> Seq(Msgs)]
    <2>1. \A y \in Nodes : Append(inbox[y], m) \in Seq(Msgs)
        BY AppendRange DEF TypeOK
    <2> QED BY <2>1 DEF TypeOK, Deliver
<1> QED BY <1>1, <1>2, <1>3, <1>4, <1>5

\* What is forgotten and what survives at a process end.
LEMMA ForgetType ==
    ASSUME TypeOK, ForgetVolatile
    PROVE  /\ conn' \in [Sockets -> {"closed", "open", "closing"}]
           /\ toClient' \in [Sockets -> Seq(Msgs)]
           /\ toHub' \in [Sockets -> Seq(Msgs)]
           /\ unacked' \in [Agents -> Seq(Msgs)]
           /\ claims' \in [Nicks -> Sockets \cup {None}]
           /\ attached' \subseteq Humans
           /\ buffer' \in [Humans -> Seq(Msgs)]
           /\ nick' \in [Nicks -> Nodes \cup {None}]
           /\ delivered' \subseteq Msgs
           /\ accepted' \subseteq Nodes \X Msgs
           /\ received' \in [Nodes -> SUBSET Msgs]
           /\ fails' \in Nat /\ crashes' \in Nat /\ injects' \in Nat
BY DEF TypeOK, ForgetVolatile

LEMMA ExposedType ==
    InUnacked \subseteq Nodes \X Msgs /\ InBuffer \subseteq Nodes \X Msgs
BY DEF InUnacked, InBuffer, Nodes

LEMMA TypeInit == Init => TypeOK
BY DEF Init, TypeOK

LEMMA TypeStep == TypeOK /\ [Next]_vars => TypeOK'
<1> SUFFICES ASSUME TypeOK, [Next]_vars PROVE TypeOK'
    OBVIOUS
<1>1. ASSUME NEW m \in Msgs, SendRefused(m) PROVE TypeOK'
    BY <1>1 DEF TypeOK, SendRefused, Attach, wires, history, ghosts, budgets
<1>2. ASSUME NEW m \in Msgs, SendFirst(m) PROVE TypeOK'
    <2>1. Resolve(To[m]) \in Nodes
        BY <1>2, ResolveType DEF SendFirst, Refused
    <2>2. attached' \subseteq Humans
        BY <1>2 DEF SendFirst, Attach, TypeOK
    <2>3. accepted' \subseteq Nodes \X Msgs
        BY <1>2, <2>1 DEF SendFirst, TypeOK
    <2>4. Deliver(Resolve(To[m]), To[m], m)
        BY <1>2 DEF SendFirst
    <2>5. /\ row' \in [Msgs -> Nodes \cup {None}]
          /\ buffer' \in [Humans -> Seq(Msgs)]
          /\ unacked' \in [Agents -> Seq(Msgs)]
          /\ toClient' \in [Sockets -> Seq(Msgs)]
          /\ inbox' \in [Nodes -> Seq(Msgs)]
        BY <2>1, <2>2, <2>4, DeliverType
    <2>6. UNCHANGED <<conn, toHub, claims, nick, delivered, received, exposed, budgets>>
        BY <1>2 DEF SendFirst
    <2> QED BY <2>2, <2>3, <2>5, <2>6 DEF TypeOK, budgets
<1>3. ASSUME NEW m \in Msgs, SendAgain(m) PROVE TypeOK'
    <2>1. Resolve(To[m]) \in Nodes
        BY <1>3, ResolveType DEF SendAgain, Refused
    <2> QED BY <1>3, <2>1 DEF TypeOK, SendAgain, Attach, wires, history, budgets
<1>4. ASSUME NEW m \in Msgs, InjectInbound(m) PROVE TypeOK'
    <2>1. To[m] \in Nodes
        BY <1>4 DEF InjectInbound, Nodes
    <2>2. accepted' \subseteq Nodes \X Msgs /\ attached' \subseteq Humans
        BY <1>4, <2>1 DEF InjectInbound, TypeOK
    <2>3. Deliver(To[m], To[m], m) /\ injects' = injects + 1
        BY <1>4 DEF InjectInbound
    <2>4. /\ row' \in [Msgs -> Nodes \cup {None}]
          /\ buffer' \in [Humans -> Seq(Msgs)]
          /\ unacked' \in [Agents -> Seq(Msgs)]
          /\ toClient' \in [Sockets -> Seq(Msgs)]
          /\ inbox' \in [Nodes -> Seq(Msgs)]
        BY <2>1, <2>2, <2>3, DeliverType
    <2>5. UNCHANGED <<conn, toHub, claims, nick, delivered, received, exposed, fails, crashes>>
        BY <1>4 DEF InjectInbound
    <2> QED BY <2>2, <2>3, <2>4, <2>5 DEF TypeOK
<1>5. ASSUME NEW s \in Sockets, NEW n \in Nicks \cup {None}, Auth(s, n) PROVE TypeOK'
    <2> DEFINE a == AgentOf[s]
    <2>1. a \in Agents /\ a \in Nodes
        BY AgentOfAssumption DEF Nodes
    <2>2. unacked[a] \in Seq(Msgs) /\ Drain(a) \in Seq(Msgs)
        BY <2>1 DEF TypeOK, Drain
    <2>3. unacked' \in [Agents -> Seq(Msgs)]
        BY <1>5, <2>1, <2>2, KeyOrdersRange DEF TypeOK, Auth
    <2>4. toClient' \in [Sockets -> Seq(Msgs)]
        BY <1>5, <2>2, SentType DEF TypeOK, Auth
    <2>5. nick' \in [Nicks -> Nodes \cup {None}]
        BY <1>5, <2>1, BoundType DEF TypeOK, Auth
    <2>6. inbox' \in [Nodes -> Seq(Msgs)]
        <3>1. <<>> \in Seq(Msgs) /\ inbox' = [inbox EXCEPT ![a] = <<>>]
            BY <1>5 DEF Auth
        <3> QED BY <3>1 DEF TypeOK
    <2>7. claims' \in [Nicks -> Sockets \cup {None}] /\ conn' \in [Sockets -> {"closed", "open", "closing"}]
        BY <1>5 DEF TypeOK, Auth
    <2> QED BY <1>5, <2>3, <2>4, <2>5, <2>6, <2>7 DEF TypeOK, Auth, consoles, history, ghosts, budgets
<1>6. ASSUME NEW s \in Sockets, ClientRecv(s) PROVE TypeOK'
    <2>1. toClient[s] \in Seq(Msgs) /\ toHub[s] \in Seq(Msgs) /\ toClient[s] # <<>>
        BY <1>6 DEF TypeOK, ClientRecv
    <2>2. Head(toClient[s]) \in Msgs /\ Tail(toClient[s]) \in Seq(Msgs)
        BY <2>1, TailRange
    <2>3. Append(toHub[s], Head(toClient[s])) \in Seq(Msgs)
        BY <2>1, <2>2, AppendRange
    <2>4. toClient' \in [Sockets -> Seq(Msgs)] /\ toHub' \in [Sockets -> Seq(Msgs)]
        BY <1>6, <2>2, <2>3 DEF TypeOK, ClientRecv
    <2>5. received' \in [Nodes -> SUBSET Msgs]
        BY <1>6, <2>2 DEF TypeOK, ClientRecv
    <2> QED BY <1>6, <2>4, <2>5 DEF TypeOK, ClientRecv, consoles, history, budgets
<1>7. ASSUME NEW s \in Sockets, HubAck(s) PROVE TypeOK'
    <2>1. toHub[s] \in Seq(Msgs) /\ toHub[s] # <<>> /\ AgentOf[s] \in Agents
        BY <1>7, AgentOfAssumption DEF TypeOK, HubAck
    <2>2. Head(toHub[s]) \in Msgs /\ Tail(toHub[s]) \in Seq(Msgs)
        BY <2>1, TailRange
    <2>3. toHub' \in [Sockets -> Seq(Msgs)] /\ delivered' \subseteq Msgs
        BY <1>7, <2>2 DEF TypeOK, HubAck, MarkDelivered
    <2>4. unacked' \in [Agents -> Seq(Msgs)]
        BY <1>7, <2>1, MapDeleteRange DEF TypeOK, HubAck
    <2> QED BY <1>7, <2>3, <2>4 DEF TypeOK, HubAck, consoles, ghosts, budgets
<1>8. ASSUME NEW s \in Sockets, SocketFails(s) PROVE TypeOK'
    BY <1>8 DEF TypeOK, SocketFails, consoles, history, ghosts
<1>9. ASSUME NEW s \in Sockets, Close(s) PROVE TypeOK'
    <2>1. AgentOf[s] \in Agents /\ AgentOf[s] \in Nodes
        BY AgentOfAssumption DEF Nodes
    <2>2. PutBack(AgentOf[s]) \in Seq(Msgs)
        BY <2>1, ConcatProperties DEF TypeOK, PutBack
    <2>3. inbox' \in [Nodes -> Seq(Msgs)] /\ unacked' \in [Agents -> Seq(Msgs)]
        <3>1. <<>> \in Seq(Msgs)
            OBVIOUS
        <3>2. CASE LastSocket(s)
            BY <1>9, <2>2, <3>1, <3>2 DEF TypeOK, Close
        <3>3. CASE ~LastSocket(s)
            BY <1>9, <3>3 DEF TypeOK, Close
        <3> QED BY <3>2, <3>3
    <2>4. claims' \in [Nicks -> Sockets \cup {None}]
        BY <1>9 DEF TypeOK, Close, Unclaimed
    <2>5. /\ conn' \in [Sockets -> {"closed", "open", "closing"}]
          /\ toClient' \in [Sockets -> Seq(Msgs)]
          /\ toHub' \in [Sockets -> Seq(Msgs)]
        BY <1>9 DEF TypeOK, Close
    <2> QED BY <1>9, <2>3, <2>4, <2>5 DEF TypeOK, Close, consoles, history, ghosts, budgets
<1>10. ASSUME NEW s \in Sockets, NEW n \in Nicks, Claim(s, n) \/ Release(s, n) PROVE TypeOK'
    BY <1>10 DEF TypeOK, Claim, Release, wires, consoles, history, ghosts, budgets
<1>11. ASSUME NEW x \in Nodes, NEW n \in Nicks, Rename(x, n) PROVE TypeOK'
    BY <1>11, BoundType DEF TypeOK, Rename, wires, consoles, history, ghosts, budgets
<1>12. ASSUME NEW h \in Humans, ConsoleInbox(h) PROVE TypeOK'
    <2>1. Range(buffer[h]) \subseteq Msgs
        BY <1>12, RangeOfSeq DEF TypeOK
    <2>2. received' \in [Nodes -> SUBSET Msgs]
        BY <1>12, <2>1 DEF TypeOK, ConsoleInbox
    <2>3. attached' \subseteq Humans /\ buffer' \in [Humans -> Seq(Msgs)]
        BY <1>12 DEF TypeOK, ConsoleInbox
    <2> QED BY <1>12, <2>2, <2>3 DEF TypeOK, ConsoleInbox, wires, history, budgets
<1>13. CASE Crash
    <2>1. exposed' \subseteq Nodes \X Msgs
        BY <1>13, ExposedType DEF TypeOK, Crash
    <2> QED BY <1>13, <2>1, ForgetType DEF TypeOK, Crash
<1>14. ASSUME NEW m \in Msgs, CrashInRoute(m) PROVE TypeOK'
    <2>1. Resolve(To[m]) \in Nodes
        BY <1>14, ResolveType DEF CrashInRoute, Refused
    <2>2. exposed' \subseteq Nodes \X Msgs
        BY <1>14, <2>1, ExposedType DEF TypeOK, CrashInRoute
    <2>3. row' \in [Msgs -> Nodes \cup {None}]
        BY <1>14, <2>1 DEF TypeOK, CrashInRoute
    <2> QED BY <1>14, <2>2, <2>3, ForgetType DEF TypeOK, CrashInRoute
<1>15. CASE Stop
    <2>1. exposed' \subseteq Nodes \X Msgs
        BY <1>15, ExposedType DEF TypeOK, Stop
    <2>2. \A a \in Agents : PutBack(a) \in Seq(Msgs)
        BY ConcatProperties DEF TypeOK, PutBack, Nodes
    <2>3. inbox' \in [Nodes -> Seq(Msgs)]
        BY <1>15, <2>2 DEF TypeOK, Stop
    <2> QED BY <1>15, <2>1, <2>3, ForgetType DEF TypeOK, Stop
<1>16. CASE UNCHANGED vars
    BY <1>16 DEF TypeOK, vars, wires, consoles, history, ghosts, budgets
<1>17. ASSUME NEW n \in Nicks, ReleaseByRoute(n) PROVE TypeOK'
    BY <1>17 DEF TypeOK, ReleaseByRoute, wires, consoles, history, ghosts, budgets
<1> QED BY <1>1, <1>2, <1>3, <1>4, <1>5, <1>6, <1>7, <1>8, <1>9, <1>10, <1>11, <1>12, <1>13, <1>14, <1>15, <1>16,
        <1>17
    DEF Next, Send, Session, Process

\* Every variable keeps its type: routing, sessions and restarts only ever
\* queue known messages for known recipients.
THEOREM TypeCorrect == Spec => []TypeOK
<1> QED BY TypeInit, TypeStep, PTL DEF Spec

-----------------------------------------------------------------------------
(* The inductive invariant.                                                *)

LEMMA IInvInit == Init => IInv
<1> SUFFICES ASSUME Init PROVE IInv
    OBVIOUS
<1>1. Range(<<>>) = {}
    BY DEF Range
<1>2. \A x \in Nodes, m \in Msgs : ~Pending(x, m)
    BY <1>1 DEF Init, Pending, Nodes
<1>3. OnlineDrained /\ WiresClosed
    BY DEF Init, OnlineDrained, Online, WiresClosed, Nodes
<1>4. KeysDistinct
    BY DEF Init, KeysDistinct, IsInjective
<1>5. RowNamesHolder
    BY <1>2 DEF Init, RowNamesHolder
<1>6. RightRecipient /\ RecordedIsHeld /\ AcksTrue
    BY <1>1 DEF Init, RightRecipient, RecordedIsHeld, AcksTrue
<1>7. DeliveredTruth /\ AckedIsDone
    BY DEF Init, DeliveredTruth, AckedIsDone
<1> QED BY TypeInit, <1>3, <1>4, <1>5, <1>6, <1>7 DEF IInv

\* A step that moves only claims, nicknames, attachments or budgets keeps it.
LEMMA QuietStep ==
    ASSUME IInv, TypeOK',
           UNCHANGED <<conn, toClient, toHub, unacked, buffer, inbox, row, delivered, accepted, received, exposed>>
    PROVE  IInv'
<1>1. \A x \in Nodes, m \in Msgs : Pending(x, m)' <=> Pending(x, m)
    BY DEF Pending
<1>2. OnlineDrained' /\ WiresClosed' /\ KeysDistinct'
    BY DEF IInv, OnlineDrained, Online, WiresClosed, KeysDistinct
<1>3. RowNamesHolder' /\ RightRecipient' /\ RecordedIsHeld'
    BY <1>1 DEF IInv, TypeOK, RowNamesHolder, RightRecipient, RecordedIsHeld
<1>4. AcksTrue' /\ DeliveredTruth' /\ AckedIsDone'
    BY <1>1 DEF IInv, TypeOK, AcksTrue, DeliveredTruth, AckedIsDone
<1> QED BY <1>2, <1>3, <1>4 DEF IInv

\* The places routing puts a message in.
LEMMA DeliverPlaces ==
    ASSUME TypeOK, NEW x \in Nodes, NEW ref, NEW m \in Msgs,
           attached' \subseteq Humans, Deliver(x, ref, m), UNCHANGED conn
    PROVE  /\ \A y \in Nodes, k \in Msgs : Pending(y, k)' <=> Pending(y, k) \/ (y = x /\ k = m)
           /\ \A s \in Sockets : Range(toClient'[s]) \subseteq Range(toClient[s]) \cup {k \in {m} : AgentOf[s] = x}
           /\ WiresClosed => \A s \in Sockets : conn[s] = "closed" => toClient'[s] = <<>>
           /\ OnlineDrained => OnlineDrained'
           /\ KeysDistinct => KeysDistinct'
<1>1. \A h \in Humans : Range(Append(buffer[h], m)) = Range(buffer[h]) \cup {m}
    BY AppendRange DEF TypeOK
<1>2. \A a \in Agents : /\ Range(MapSet(unacked[a], m)) = Range(unacked[a]) \cup {m}
                        /\ IsInjective(unacked[a]) => IsInjective(MapSet(unacked[a], m))
    BY MapSetRange DEF TypeOK
<1>3. \A y \in Nodes : Range(Append(inbox[y], m)) = Range(inbox[y]) \cup {m}
    BY AppendRange DEF TypeOK
<1> DEFINE live == x \in Agents /\ Online(x) # {}
           seen == x \in attached'
<1>4. buffer' = IF seen THEN [buffer EXCEPT ![x] = Append(@, m)] ELSE buffer
    BY DEF Deliver
<1>5. unacked' = IF live THEN [unacked EXCEPT ![x] = MapSet(@, m)] ELSE unacked
    BY DEF Deliver
<1>6. inbox' = IF seen \/ live THEN inbox ELSE [inbox EXCEPT ![x] = Append(@, m)]
    BY DEF Deliver
<1>7. toClient' = IF live THEN Sent(toClient, Targets(x, ref), <<m>>) ELSE toClient
    BY DEF Deliver
<1>8. ~(seen /\ live) /\ (seen => x \in Humans) /\ (live => x \in Agents)
    BY NodesAssumption
<1>9. \A a \in Agents : Online(a)' = Online(a)
    BY DEF Online
<1> HIDE DEF seen
<1>10. ASSUME NEW y \in Nodes, NEW k \in Msgs
       PROVE  Pending(y, k)' <=> Pending(y, k) \/ (y = x /\ k = m)
    <2>1. CASE seen
        BY <2>1, <1>1, <1>4, <1>5, <1>6, <1>8 DEF Pending, TypeOK
    <2>2. CASE live
        BY <2>2, <1>2, <1>4, <1>5, <1>6, <1>8 DEF Pending, TypeOK
    <2>3. CASE ~seen /\ ~live
        BY <2>3, <1>3, <1>4, <1>5, <1>6 DEF Pending, TypeOK
    <2> QED BY <2>1, <2>2, <2>3
<1>11. ASSUME NEW s \in Sockets
       PROVE  /\ Range(toClient'[s]) \subseteq Range(toClient[s]) \cup {k \in {m} : AgentOf[s] = x}
              /\ WiresClosed /\ conn[s] = "closed" => toClient'[s] = <<>>
    <2>1. Targets(x, ref) \subseteq Online(x)
        BY DEF Targets
    <2>2. s \in Targets(x, ref) => AgentOf[s] = x
        BY <2>1 DEF Online
    <2>3. toClient'[s] = IF live /\ s \in Targets(x, ref) /\ conn[s] = "open" THEN toClient[s] \o <<m>> ELSE toClient[s]
        BY <1>7 DEF Sent, TypeOK
    <2>4. <<m>> \in Seq(Msgs) /\ Range(<<m>>) = {m}
        BY DEF Range
    <2>5. Range(toClient[s] \o <<m>>) = Range(toClient[s]) \cup {m}
        <3> DEFINE one == <<m>>
        <3>1. toClient[s] \in Seq(Msgs) /\ one \in Seq(Msgs) /\ Range(one) = {m}
            BY <2>4 DEF TypeOK
        <3> HIDE DEF one
        <3>2. Range(toClient[s] \o one) = Range(toClient[s]) \cup Range(one)
            BY <3>1, RangeConcatenation
        <3> QED BY <3>1, <3>2 DEF one
    <2> QED BY <2>2, <2>3, <2>5 DEF WiresClosed
<1>12. ASSUME OnlineDrained PROVE OnlineDrained'
    <2> SUFFICES ASSUME NEW a \in Agents
                 PROVE  (IF Online(a) # {} THEN inbox[a] = <<>> ELSE unacked[a] = <<>>)'
        BY DEF OnlineDrained
    <2>1. a \in Nodes
        BY DEF Nodes
    <2>2. CASE a = x
        BY <2>1, <2>2, <1>5, <1>6, <1>8, <1>9, <1>12 DEF OnlineDrained, TypeOK
    <2>3. CASE a # x
        BY <2>1, <2>3, <1>5, <1>6, <1>9, <1>12 DEF OnlineDrained, TypeOK
    <2> QED BY <2>2, <2>3
<1>13. KeysDistinct => KeysDistinct'
    BY <1>2, <1>5 DEF KeysDistinct, TypeOK
<1> QED BY <1>10, <1>11, <1>12, <1>13

\* Routing a message its row allows, and answering for it.
LEMMA RouteStep ==
    ASSUME IInv, TypeOK', NEW x \in Nodes, NEW ref, NEW m \in Msgs,
           row[m] \in {None, x}, From[m] = Remote => x = To[m], From[m] # Remote => row[m] = None,
           Deliver(x, ref, m), accepted' = accepted \cup {<<x, m>>},
           UNCHANGED <<conn, toHub, delivered, received, exposed>>
    PROVE  IInv'
<1>1. TypeOK /\ attached' \subseteq Humans /\ x # None
    BY NodesAssumption DEF IInv, TypeOK, Nodes
<1>2. /\ \A y \in Nodes, k \in Msgs : Pending(y, k)' <=> Pending(y, k) \/ (y = x /\ k = m)
      /\ \A s \in Sockets : Range(toClient'[s]) \subseteq Range(toClient[s]) \cup {k \in {m} : AgentOf[s] = x}
      /\ \A s \in Sockets : conn[s] = "closed" => toClient'[s] = <<>>
      /\ OnlineDrained' /\ KeysDistinct'
    BY <1>1, DeliverPlaces DEF IInv
<1>3. row'[m] = x /\ (\A k \in Msgs : row[k] # None => row'[k] = row[k])
                 /\ (\A k \in Msgs : k # m => row'[k] = row[k])
    BY <1>1 DEF Deliver, TypeOK
<1>4. WiresClosed'
    BY <1>2 DEF IInv, WiresClosed
<1>5. RowNamesHolder'
    <2>1. \A y \in Nodes, k \in Msgs : Pending(y, k) \/ <<y, k>> \in accepted => row[k] = y /\ y # None
        BY NodesAssumption DEF IInv, RowNamesHolder
    <2>2. \A k \in Msgs : From[k] = Remote => row'[k] \in {None, To[k]}
        BY <1>3 DEF IInv, RowNamesHolder
    <2> QED BY <1>2, <1>3, <2>1, <2>2 DEF RowNamesHolder
<1>6. RightRecipient'
    <2>1. \A y \in Nodes : \A k \in received[y] : k \in Msgs /\ row[k] = y /\ y # None
        BY NodesAssumption DEF IInv, RightRecipient, TypeOK
    <2>2. \A s \in Sockets : AgentOf[s] \in Nodes /\ Range(toClient[s]) \subseteq Msgs
        BY <1>1, AgentOfAssumption, RangeOfSeq DEF TypeOK, Nodes
    <2>3. \A s \in Sockets : \A k \in Range(toClient[s]) : k \in Msgs /\ row[k] = AgentOf[s] /\ AgentOf[s] # None
        BY <2>2, NodesAssumption DEF IInv, RightRecipient
    <2> QED BY <1>2, <1>3, <2>1, <2>3 DEF RightRecipient
<1>7. RecordedIsHeld'
    BY <1>1, <1>2, <1>3 DEF IInv, RecordedIsHeld, TypeOK
<1>8. AcksTrue'
    BY DEF IInv, AcksTrue
<1>9. DeliveredTruth'
    BY <1>1, <1>3 DEF IInv, DeliveredTruth, TypeOK
<1>10. AckedIsDone'
    BY <1>1, <1>2 DEF IInv, AckedIsDone, DeliveredTruth, TypeOK
<1> QED BY <1>2, <1>4, <1>5, <1>6, <1>7, <1>8, <1>9, <1>10 DEF IInv

\* A retry is answered for the recipient its row names.
LEMMA SendAgainStep ==
    ASSUME IInv, TypeOK', NEW m \in Msgs, SendAgain(m)
    PROVE  IInv'
<1>1. Resolve(To[m]) = row[m] /\ accepted' = accepted \cup {<<row[m], m>>}
    BY DEF SendAgain, Refused
<1>2. UNCHANGED <<conn, toClient, toHub, unacked, buffer, inbox, row, delivered, received, exposed>>
    BY DEF SendAgain, wires, history
<1>3. \A x \in Nodes, k \in Msgs : Pending(x, k)' <=> Pending(x, k)
    BY <1>2 DEF Pending
<1>4. OnlineDrained' /\ WiresClosed' /\ KeysDistinct'
    BY <1>2 DEF IInv, OnlineDrained, Online, WiresClosed, KeysDistinct
<1>5. RowNamesHolder' /\ RightRecipient' /\ RecordedIsHeld'
    BY <1>1, <1>2, <1>3 DEF IInv, TypeOK, RowNamesHolder, RightRecipient, RecordedIsHeld
<1>6. AcksTrue' /\ DeliveredTruth' /\ AckedIsDone'
    BY <1>2, <1>3 DEF IInv, TypeOK, AcksTrue, DeliveredTruth, AckedIsDone
<1> QED BY <1>4, <1>5, <1>6 DEF IInv

\* A session connects: the inbox becomes unacked and goes on its wire.
LEMMA AuthStep ==
    ASSUME IInv, TypeOK', NEW s \in Sockets, NEW n \in Nicks \cup {None}, Auth(s, n)
    PROVE  IInv'
<1> DEFINE a == AgentOf[s]
<1>1. TypeOK /\ a \in Agents /\ a \in Nodes
    BY AgentOfAssumption DEF IInv, Nodes
<1>2. PICK order \in KeyOrders(unacked[a], inbox[a]) : unacked' = [unacked EXCEPT ![a] = order]
    BY DEF Auth, Drain
<1>3. Range(order) = Range(unacked[a]) \cup Range(inbox[a]) /\ IsInjective(order)
    BY <1>1, KeyOrdersRange DEF TypeOK
<1>4. UNCHANGED <<toHub, buffer, row, delivered, accepted, received, exposed>>
    BY DEF Auth, consoles, history, ghosts
<1>5. inbox' = [inbox EXCEPT ![a] = <<>>] /\ Range(<<>>) = {}
    BY DEF Auth, Range
<1>6. \A x \in Nodes, k \in Msgs : Pending(x, k)' <=> Pending(x, k)
    BY <1>1, <1>2, <1>3, <1>4, <1>5 DEF Pending, TypeOK
<1>7. conn[s] = "closed" /\ conn' = [conn EXCEPT ![s] = "open"]
    BY DEF Auth
<1>8. s \in Online(a)' /\ \A b \in Agents : b # a => Online(b)' = Online(b)
    BY <1>1, <1>7 DEF Online, TypeOK
<1>9. OnlineDrained'
    <2> SUFFICES ASSUME NEW b \in Agents
                 PROVE  (IF Online(b) # {} THEN inbox[b] = <<>> ELSE unacked[b] = <<>>)'
        BY DEF OnlineDrained
    <2>1. CASE b = a
        BY <2>1, <1>1, <1>5, <1>8 DEF TypeOK
    <2>2. CASE b # a
        <3>1. inbox'[b] = inbox[b] /\ unacked'[b] = unacked[b]
            BY <2>2, <1>1, <1>2, <1>5 DEF TypeOK, Nodes
        <3> QED BY <2>2, <3>1, <1>8 DEF IInv, OnlineDrained
    <2> QED BY <2>1, <2>2
<1>10. KeysDistinct'
    BY <1>1, <1>2, <1>3 DEF IInv, KeysDistinct, TypeOK
<1>11. \A t \in Sockets : Range(toClient'[t]) \subseteq Range(toClient[t]) \cup {k \in Range(inbox[a]) : AgentOf[t] = a}
    <2> SUFFICES ASSUME NEW t \in Sockets
                 PROVE  Range(toClient'[t]) \subseteq Range(toClient[t]) \cup {k \in Range(inbox[a]) : AgentOf[t] = a}
        OBVIOUS
    <2>1. toClient[t] \in Seq(Msgs) /\ inbox[a] \in Seq(Msgs)
        BY <1>1 DEF TypeOK
    <2>2. toClient'[t] \in {toClient[t], inbox[a], toClient[t] \o inbox[a]}
        BY DEF Auth, Sent, Drain
    <2>3. AgentOf[t] # a => toClient'[t] = toClient[t]
        BY DEF Auth, Sent, Drain, Online
    <2>4. Range(toClient[t] \o inbox[a]) = Range(toClient[t]) \cup Range(inbox[a])
        BY <2>1, RangeConcatenation
    <2> QED BY <2>2, <2>3, <2>4
<1>12. \A t \in Sockets : t # s => (conn[t] = "closed" => toClient'[t] = toClient[t])
    BY DEF Auth, Sent
<1>13. WiresClosed'
    BY <1>1, <1>4, <1>7, <1>12 DEF IInv, WiresClosed, TypeOK
<1>14. RowNamesHolder' /\ RecordedIsHeld'
    BY <1>1, <1>4, <1>6 DEF IInv, RowNamesHolder, RecordedIsHeld, TypeOK
<1>15. RightRecipient'
    <2>1. \A k \in Range(inbox[a]) : k \in Msgs /\ row[k] = a
        BY <1>1, RangeOfSeq DEF IInv, RowNamesHolder, Pending, TypeOK
    <2> QED BY <1>4, <1>11, <2>1 DEF IInv, RightRecipient
<1>16. AcksTrue' /\ DeliveredTruth' /\ AckedIsDone'
    BY <1>1, <1>4, <1>6 DEF IInv, TypeOK, AcksTrue, DeliveredTruth, AckedIsDone
<1> QED BY <1>9, <1>10, <1>13, <1>14, <1>15, <1>16 DEF IInv

\* A session is handed a message that is on its wire, and acks it.
LEMMA ClientRecvStep ==
    ASSUME IInv, TypeOK', NEW s \in Sockets, ClientRecv(s)
    PROVE  IInv'
<1> DEFINE a == AgentOf[s]
           m == Head(toClient[s])
<1>1. TypeOK /\ a \in Agents /\ a \in Nodes
    BY AgentOfAssumption DEF IInv, Nodes
<1>2. UNCHANGED <<conn, unacked, buffer, inbox, row, delivered, accepted, exposed>>
    BY DEF ClientRecv, consoles, history
<1>3. toClient[s] \in Seq(Msgs) /\ toClient[s] # <<>> /\ toHub[s] \in Seq(Msgs)
    BY <1>1 DEF ClientRecv, TypeOK
<1>4. m \in Msgs /\ m \in Range(toClient[s]) /\ Range(Tail(toClient[s])) \subseteq Range(toClient[s])
    BY <1>3, TailRange
<1>5. Range(Append(toHub[s], m)) = Range(toHub[s]) \cup {m}
    BY <1>3, <1>4, AppendRange
<1>6. /\ toClient' = [toClient EXCEPT ![s] = Tail(@)]
      /\ toHub' \in {toHub, [toHub EXCEPT ![s] = Append(@, m)]}
      /\ received' = [received EXCEPT ![a] = @ \cup {m}]
      /\ conn[s] # "closed"
    BY DEF ClientRecv
<1> HIDE DEF m
<1>7. \A x \in Nodes, k \in Msgs : Pending(x, k)' <=> Pending(x, k)
    BY <1>2 DEF Pending
<1>8. row[m] = a
    BY <1>4 DEF IInv, RightRecipient
<1>9. OnlineDrained' /\ KeysDistinct'
    BY <1>2 DEF IInv, OnlineDrained, Online, KeysDistinct
<1>10. WiresClosed'
    BY <1>1, <1>2, <1>6 DEF IInv, WiresClosed, TypeOK
<1>11. RowNamesHolder'
    BY <1>2, <1>7 DEF IInv, RowNamesHolder, TypeOK
<1>12. RecordedIsHeld'
    BY <1>1, <1>2, <1>6, <1>7 DEF IInv, RecordedIsHeld, TypeOK
<1>13. RightRecipient'
    BY <1>1, <1>2, <1>4, <1>6, <1>8 DEF IInv, RightRecipient, TypeOK
<1>14. AcksTrue'
    <2> SUFFICES ASSUME NEW t \in Sockets PROVE Range(toHub'[t]) \subseteq received'[AgentOf[t]]
        BY DEF AcksTrue
    <2>1. AgentOf[t] \in Nodes
        BY AgentOfAssumption DEF Nodes
    <2>2. Range(toHub'[t]) \subseteq Range(toHub[t]) \cup {k \in {m} : t = s}
        BY <1>1, <1>5, <1>6 DEF TypeOK
    <2>3. received[AgentOf[t]] \subseteq received'[AgentOf[t]] /\ (t = s => m \in received'[AgentOf[t]])
        BY <1>1, <1>6, <2>1 DEF TypeOK
    <2> QED BY <2>2, <2>3 DEF IInv, AcksTrue
<1>15. DeliveredTruth'
    BY <1>1, <1>2, <1>6 DEF IInv, DeliveredTruth, TypeOK
<1>16. AckedIsDone'
    BY <1>1, <1>2, <1>7 DEF IInv, AckedIsDone, TypeOK
<1> QED BY <1>9, <1>10, <1>11, <1>12, <1>13, <1>14, <1>15, <1>16 DEF IInv

\* The hub takes an ack: the message leaves the unacked map, its row is marked.
LEMMA HubAckStep ==
    ASSUME IInv, TypeOK', NEW s \in Sockets, HubAck(s)
    PROVE  IInv'
<1> DEFINE a == AgentOf[s]
           m == Head(toHub[s])
<1>1. TypeOK /\ a \in Agents /\ a \in Nodes /\ a \notin Humans
    BY AgentOfAssumption, NodesAssumption DEF IInv, Nodes
<1>2. UNCHANGED <<conn, toClient, buffer, inbox, row, accepted, received, exposed>>
    BY DEF HubAck, consoles, ghosts
<1>3. toHub[s] \in Seq(Msgs) /\ toHub[s] # <<>> /\ conn[s] # "closed"
    BY <1>1 DEF HubAck, TypeOK
<1>4. m \in Msgs /\ m \in Range(toHub[s]) /\ Range(Tail(toHub[s])) \subseteq Range(toHub[s])
    BY <1>3, TailRange
<1>5. m \in received[a]
    BY <1>4 DEF IInv, AcksTrue
<1>6. row[m] = a
    BY <1>1, <1>5 DEF IInv, RightRecipient
<1>7. /\ toHub' = [toHub EXCEPT ![s] = Tail(@)]
      /\ unacked' = [unacked EXCEPT ![a] = MapDelete(@, m)]
      /\ delivered' = delivered \cup {m}
    BY <1>6 DEF HubAck, MarkDelivered
<1>8. /\ Range(MapDelete(unacked[a], m)) = Range(unacked[a]) \ {m}
      /\ IsInjective(MapDelete(unacked[a], m))
    <2>1. unacked[a] \in Seq(Msgs) /\ IsInjective(unacked[a])
        BY <1>1 DEF IInv, KeysDistinct, TypeOK
    <2> HIDE DEF a, m
    <2> QED BY <2>1, <1>4, MapDeleteRange
<1>9. s \in Online(a) /\ inbox[a] = <<>> /\ Range(<<>>) = {}
    BY <1>1, <1>3 DEF IInv, OnlineDrained, Online, Range
<1> HIDE DEF m
<1>10. \A x \in Nodes, k \in Msgs : Pending(x, k)' <=> Pending(x, k) /\ ~(x = a /\ k = m)
    BY <1>1, <1>2, <1>7, <1>8, <1>9 DEF Pending, TypeOK
<1>11. OnlineDrained'
    <2> SUFFICES ASSUME NEW b \in Agents
                 PROVE  (IF Online(b) # {} THEN inbox[b] = <<>> ELSE unacked[b] = <<>>)'
        BY DEF OnlineDrained
    <2>1. Online(b)' = Online(b) /\ (b = a => Online(b) # {})
        BY <1>2, <1>9 DEF Online
    <2> QED BY <1>1, <1>2, <1>7, <2>1 DEF IInv, OnlineDrained, TypeOK
<1>12. WiresClosed' /\ KeysDistinct'
    BY <1>1, <1>2, <1>3, <1>7, <1>8 DEF IInv, WiresClosed, KeysDistinct, TypeOK
<1>13. RowNamesHolder' /\ RightRecipient'
    BY <1>1, <1>2, <1>10 DEF IInv, RowNamesHolder, RightRecipient, TypeOK
<1>14. RecordedIsHeld'
    BY <1>1, <1>2, <1>5, <1>10 DEF IInv, RecordedIsHeld, TypeOK
<1>15. AcksTrue'
    BY <1>1, <1>2, <1>4, <1>7 DEF IInv, AcksTrue, TypeOK
<1>16. DeliveredTruth'
    BY <1>1, <1>2, <1>5, <1>6, <1>7, NodesAssumption DEF IInv, DeliveredTruth, TypeOK
<1>17. AckedIsDone'
    <2>1. \A x \in Nodes, k \in Msgs : k = m => ~Pending(x, k)'
        <3> SUFFICES ASSUME NEW x \in Nodes, NEW k \in Msgs, k = m, Pending(x, k)'
                     PROVE  FALSE
            OBVIOUS
        <3>1. Pending(x, k) /\ x # a
            BY <1>10
        <3>2. row[k] = x
            BY <3>1 DEF IInv, RowNamesHolder
        <3> QED BY <1>6, <3>1, <3>2
    <2>2. \A k \in delivered' : k \in Msgs /\ (k # m => k \in delivered)
        BY <1>1, <1>4, <1>7 DEF TypeOK
    <2> QED BY <1>10, <2>1, <2>2 DEF IInv, AckedIsDone
<1> QED BY <1>11, <1>12, <1>13, <1>14, <1>15, <1>16, <1>17 DEF IInv

\* A socket dies; nothing else moves yet.
LEMMA SocketFailsStep ==
    ASSUME IInv, TypeOK', NEW s \in Sockets, SocketFails(s)
    PROVE  IInv'
<1>1. /\ UNCHANGED <<toClient, toHub, unacked, buffer, inbox, row, delivered, accepted, received, exposed>>
      /\ conn[s] = "open" /\ conn' = [conn EXCEPT ![s] = "closing"]
    BY DEF SocketFails, consoles, history, ghosts
<1>2. \A t \in Sockets : conn'[t] = "closed" <=> conn[t] = "closed"
    BY <1>1 DEF IInv, TypeOK
<1>3. \A x \in Nodes, k \in Msgs : Pending(x, k)' <=> Pending(x, k)
    BY <1>1 DEF Pending
<1>4. \A b \in Agents : Online(b)' = Online(b)
    BY <1>2 DEF Online
<1>5. OnlineDrained' /\ WiresClosed' /\ KeysDistinct'
    BY <1>1, <1>2, <1>4 DEF IInv, OnlineDrained, WiresClosed, KeysDistinct
<1>6. RowNamesHolder' /\ RightRecipient' /\ RecordedIsHeld'
    BY <1>1, <1>3 DEF IInv, TypeOK, RowNamesHolder, RightRecipient, RecordedIsHeld
<1>7. AcksTrue' /\ DeliveredTruth' /\ AckedIsDone'
    BY <1>1, <1>3 DEF IInv, TypeOK, AcksTrue, DeliveredTruth, AckedIsDone
<1> QED BY <1>5, <1>6, <1>7 DEF IInv

\* A close event: the last socket of an agent gives its unacked messages back.
LEMMA CloseStep ==
    ASSUME IInv, TypeOK', NEW s \in Sockets, Close(s)
    PROVE  IInv'
<1> DEFINE a == AgentOf[s]
<1>1. TypeOK /\ a \in Agents /\ a \in Nodes
    BY AgentOfAssumption DEF IInv, Nodes
<1>2. UNCHANGED <<buffer, row, delivered, accepted, received, exposed>>
    BY DEF Close, consoles, history, ghosts
<1>3. /\ conn' = [conn EXCEPT ![s] = "closed"]
      /\ toClient' = [toClient EXCEPT ![s] = <<>>]
      /\ toHub' = [toHub EXCEPT ![s] = <<>>]
      /\ inbox' = IF LastSocket(s) THEN [inbox EXCEPT ![a] = PutBack(a)] ELSE inbox
      /\ unacked' = IF LastSocket(s) THEN [unacked EXCEPT ![a] = <<>>] ELSE unacked
      /\ Range(<<>>) = {}
    BY DEF Close, Range
<1>4. Range(PutBack(a)) = Range(unacked[a]) \cup Range(inbox[a])
    BY <1>1, RangeConcatenation DEF PutBack, TypeOK
<1>5. \A x \in Nodes, k \in Msgs : Pending(x, k)' <=> Pending(x, k)
    <2>1. CASE LastSocket(s)
        BY <2>1, <1>1, <1>2, <1>3, <1>4 DEF Pending, TypeOK
    <2>2. CASE ~LastSocket(s)
        BY <2>2, <1>2, <1>3 DEF Pending
    <2> QED BY <2>1, <2>2
<1>6. Online(a)' = Online(a) \ {s} /\ \A b \in Agents : b # a => Online(b)' = Online(b)
    BY <1>1, <1>3 DEF Online, TypeOK
<1>7. s \in Online(a)
    BY <1>1 DEF Close, Online
<1>8. OnlineDrained'
    <2> SUFFICES ASSUME NEW b \in Agents
                 PROVE  (IF Online(b) # {} THEN inbox[b] = <<>> ELSE unacked[b] = <<>>)'
        BY DEF OnlineDrained
    <2>1. CASE b # a
        <3>1. inbox'[b] = inbox[b] /\ unacked'[b] = unacked[b]
            BY <2>1, <1>1, <1>3 DEF TypeOK, Nodes
        <3> QED BY <2>1, <3>1, <1>6 DEF IInv, OnlineDrained
    <2>2. CASE b = a /\ LastSocket(s)
        <3>1. Online(a)' = {} /\ unacked'[a] = <<>>
            BY <2>2, <1>1, <1>3, <1>6 DEF LastSocket, TypeOK
        <3> QED BY <2>2, <3>1
    <2>3. CASE b = a /\ ~LastSocket(s)
        <3>1. Online(a)' # {}
            BY <2>3, <1>6, <1>7 DEF LastSocket
        <3>2. inbox'[a] = <<>>
            BY <2>3, <1>1, <1>3, <1>7 DEF IInv, OnlineDrained
        <3> QED BY <2>3, <3>1, <3>2
    <2> QED BY <2>1, <2>2, <2>3
<1>9. WiresClosed'
    BY <1>1, <1>3 DEF IInv, WiresClosed, TypeOK
<1>10. KeysDistinct'
    BY <1>1, <1>3 DEF IInv, KeysDistinct, IsInjective, TypeOK
<1>11. RowNamesHolder' /\ RecordedIsHeld'
    BY <1>1, <1>2, <1>5 DEF IInv, RowNamesHolder, RecordedIsHeld, TypeOK
<1>12. RightRecipient' /\ AcksTrue'
    BY <1>1, <1>2, <1>3 DEF IInv, RightRecipient, AcksTrue, TypeOK
<1>13. DeliveredTruth' /\ AckedIsDone'
    BY <1>1, <1>2, <1>5 DEF IInv, DeliveredTruth, AckedIsDone, TypeOK
<1> QED BY <1>8, <1>9, <1>10, <1>11, <1>12, <1>13 DEF IInv

\* A console is handed its buffer.
LEMMA ConsoleInboxStep ==
    ASSUME IInv, TypeOK', NEW h \in Humans, ConsoleInbox(h)
    PROVE  IInv'
<1>1. TypeOK /\ h \in Nodes /\ h \notin Agents
    BY NodesAssumption DEF IInv, Nodes
<1>2. UNCHANGED <<conn, toClient, toHub, unacked, inbox, row, delivered, accepted, exposed>>
    BY DEF ConsoleInbox, wires, history
<1>3. /\ received' = [received EXCEPT ![h] = @ \cup Range(buffer[h])]
      /\ buffer' = [buffer EXCEPT ![h] = <<>>]
      /\ Range(<<>>) = {}
    BY DEF ConsoleInbox, Range
<1>4. \A x \in Nodes, k \in Msgs :
        /\ Pending(x, k)' => Pending(x, k)
        /\ Pending(x, k) => Pending(x, k)' \/ k \in received'[x]
    BY <1>1, <1>2, <1>3 DEF Pending, TypeOK
<1>5. \A x \in Nodes : received[x] \subseteq received'[x] /\ \A k \in received'[x] : row[k] = x
    <2>1. \A k \in Range(buffer[h]) : k \in Msgs /\ row[k] = h
        BY <1>1, RangeOfSeq DEF IInv, RowNamesHolder, Pending, TypeOK
    <2> QED BY <1>1, <1>3, <2>1 DEF IInv, RightRecipient, TypeOK
<1>6. OnlineDrained' /\ WiresClosed' /\ KeysDistinct'
    BY <1>2 DEF IInv, OnlineDrained, Online, WiresClosed, KeysDistinct
<1>7. RowNamesHolder'
    BY <1>2, <1>4 DEF IInv, RowNamesHolder, TypeOK
<1>8. RightRecipient'
    BY <1>2, <1>5 DEF IInv, RightRecipient
<1>9. RecordedIsHeld'
    BY <1>1, <1>2, <1>4, <1>5 DEF IInv, RecordedIsHeld, TypeOK
<1>10. AcksTrue'
    <2>1. \A s \in Sockets : AgentOf[s] \in Nodes
        BY AgentOfAssumption DEF Nodes
    <2> QED BY <1>2, <1>5, <2>1 DEF IInv, AcksTrue
<1>11. DeliveredTruth' /\ AckedIsDone'
    BY <1>1, <1>2, <1>4, <1>5 DEF IInv, DeliveredTruth, AckedIsDone, TypeOK
<1> QED BY <1>6, <1>7, <1>8, <1>9, <1>10, <1>11 DEF IInv

\* A process end keeps it when what it takes from memory is put in exposed or
\* in the inbox, and what it records anew is exposed.
LEMMA ForgetStep ==
    ASSUME IInv, TypeOK', ForgetVolatile,
           \A x \in Nodes, k \in Msgs : k \in Range(inbox'[x]) => Pending(x, k),
           \A x \in Nodes, k \in Msgs : Pending(x, k) => k \in Range(inbox'[x]) \/ <<x, k>> \in exposed',
           exposed \subseteq exposed',
           \A k \in Msgs :
              \/ row'[k] = row[k]
              \/ row[k] = None /\ From[k] # Remote /\ <<row'[k], k>> \in exposed'
    PROVE  IInv'
<1>1. TypeOK /\ Range(<<>>) = {}
    BY DEF IInv, Range
<1>2. /\ conn' = [s \in Sockets |-> "closed"]
      /\ toClient' = [s \in Sockets |-> <<>>] /\ toHub' = [s \in Sockets |-> <<>>]
      /\ unacked' = [a \in Agents |-> <<>>] /\ buffer' = [h \in Humans |-> <<>>]
      /\ UNCHANGED <<delivered, accepted, received>>
    BY DEF ForgetVolatile
<1>3. \A x \in Nodes, k \in Msgs : Pending(x, k)' <=> k \in Range(inbox'[x])
    BY <1>1, <1>2 DEF Pending
<1>4. \A k \in Msgs : row[k] # None => row'[k] = row[k]
    OBVIOUS
<1>5. OnlineDrained' /\ WiresClosed' /\ KeysDistinct'
    BY <1>2 DEF OnlineDrained, Online, WiresClosed, KeysDistinct, IsInjective
<1>6. \A x \in Nodes : x # None
    BY NodesAssumption
<1>7. RowNamesHolder'
    BY <1>2, <1>3, <1>4, <1>6 DEF IInv, RowNamesHolder
<1>8. RightRecipient'
    BY <1>1, <1>2, <1>4, <1>6 DEF IInv, RightRecipient, TypeOK
<1>9. RecordedIsHeld'
    <2>1. ASSUME NEW k \in Msgs, NEW y \in Nodes, row'[k] = y
          PROVE  Pending(y, k)' \/ k \in received'[y] \/ <<y, k>> \in exposed'
        <3>1. CASE row[k] = None
            BY <2>1, <3>1, <1>6
        <3>2. CASE row[k] # None
            <4>1. row[k] = y
                BY <2>1, <3>2, <1>4
            <4>2. Pending(y, k) \/ k \in received[y] \/ <<y, k>> \in exposed
                BY <3>2, <4>1 DEF IInv, RecordedIsHeld
            <4> QED BY <1>2, <1>3, <4>2
        <3> QED BY <3>1, <3>2
    <2>2. \A k \in Msgs : row'[k] # None => row'[k] \in Nodes
        BY DEF TypeOK
    <2> QED BY <2>1, <2>2 DEF RecordedIsHeld
<1>10. AcksTrue'
    BY <1>1, <1>2 DEF AcksTrue
<1>11. DeliveredTruth'
    BY <1>1, <1>2, <1>4 DEF IInv, DeliveredTruth, TypeOK
<1>12. AckedIsDone'
    BY <1>1, <1>2, <1>3 DEF IInv, AckedIsDone, TypeOK
<1> QED BY <1>5, <1>7, <1>8, <1>9, <1>10, <1>11, <1>12 DEF IInv

\* At a kill, what is pending is in an inbox or counted as exposed.
LEMMA ExposedCovers ==
    ASSUME TypeOK, NEW x \in Nodes, NEW k \in Msgs, Pending(x, k)
    PROVE  k \in Range(inbox[x]) \/ <<x, k>> \in InUnacked \cup InBuffer
BY DEF Pending, InUnacked, InBuffer

LEMMA ProcessStep ==
    ASSUME IInv, TypeOK', Process
    PROVE  IInv'
<1>1. TypeOK
    BY DEF IInv
<1>2. CASE Crash
    <2>1. /\ ForgetVolatile /\ UNCHANGED <<inbox, row>>
          /\ exposed' = exposed \cup InUnacked \cup InBuffer
        BY <1>2 DEF Crash
    <2>2. \A x \in Nodes, k \in Msgs : Pending(x, k) => k \in Range(inbox'[x]) \/ <<x, k>> \in exposed'
        BY <1>1, <2>1, ExposedCovers
    <2>3. \A x \in Nodes, k \in Msgs : k \in Range(inbox'[x]) => Pending(x, k)
        BY <2>1 DEF Pending
    <2> QED BY <2>1, <2>2, <2>3, ForgetStep
<1>3. ASSUME NEW m \in Msgs, CrashInRoute(m) PROVE IInv'
    <2> DEFINE x0 == Resolve(To[m])
    <2>1. /\ ForgetVolatile /\ UNCHANGED inbox
          /\ row' = [row EXCEPT ![m] = x0] /\ row[m] = None /\ From[m] # Remote
          /\ exposed' = exposed \cup InUnacked \cup InBuffer \cup {<<x0, m>>}
        BY <1>3 DEF CrashInRoute, Submitted
    <2> HIDE DEF x0
    <2>2. \A x \in Nodes, k \in Msgs : Pending(x, k) => k \in Range(inbox'[x]) \/ <<x, k>> \in exposed'
        BY <1>1, <2>1, ExposedCovers
    <2>3. \A x \in Nodes, k \in Msgs : k \in Range(inbox'[x]) => Pending(x, k)
        BY <2>1 DEF Pending
    <2>4. \A k \in Msgs :
            \/ row'[k] = row[k]
            \/ row[k] = None /\ From[k] # Remote /\ <<row'[k], k>> \in exposed'
        BY <1>1, <2>1 DEF TypeOK
    <2>5. exposed \subseteq exposed'
        BY <2>1
    <2> QED BY <2>1, <2>2, <2>3, <2>4, <2>5, ForgetStep
<1>4. CASE Stop
    <2>1. /\ ForgetVolatile /\ UNCHANGED row /\ exposed' = exposed \cup InBuffer
          /\ inbox' = [x \in Nodes |-> IF x \in Agents /\ Online(x) # {} THEN PutBack(x) ELSE inbox[x]]
        BY <1>4 DEF Stop
    <2>2. \A a \in Agents : Range(PutBack(a)) = Range(unacked[a]) \cup Range(inbox[a])
        BY <1>1, RangeConcatenation DEF PutBack, TypeOK, Nodes
    <2>3. \A a \in Agents : Online(a) = {} => Range(unacked[a]) = {}
        BY DEF IInv, OnlineDrained, Range
    <2>4. \A x \in Nodes : x \in Agents => Range(inbox'[x]) = Range(unacked[x]) \cup Range(inbox[x])
        BY <2>1, <2>2, <2>3
    <2>5. \A x \in Nodes : x \notin Agents => inbox'[x] = inbox[x]
        BY <2>1
    <2>6. \A x \in Nodes, k \in Msgs : k \in Range(inbox'[x]) => Pending(x, k)
        BY <2>4, <2>5 DEF Pending
    <2>7. \A x \in Nodes, k \in Msgs : Pending(x, k) => k \in Range(inbox'[x]) \/ <<x, k>> \in exposed'
        <3> SUFFICES ASSUME NEW x \in Nodes, NEW k \in Msgs, Pending(x, k), k \notin Range(inbox'[x])
                     PROVE  <<x, k>> \in exposed'
            OBVIOUS
        <3>1. x \in Humans /\ k \in Range(buffer[x])
            BY <2>4, <2>5, NodesAssumption DEF Pending, Nodes
        <3> QED BY <2>1, <3>1 DEF InBuffer
    <2>8. exposed \subseteq exposed' /\ \A k \in Msgs : row'[k] = row[k]
        BY <2>1
    <2> QED BY <2>1, <2>6, <2>7, <2>8, ForgetStep
<1> QED BY <1>2, <1>3, <1>4 DEF Process

LEMMA IInvStep == IInv /\ [Next]_vars => IInv'
<1> SUFFICES ASSUME IInv, [Next]_vars PROVE IInv'
    OBVIOUS
<1>1. TypeOK' /\ TypeOK
    BY TypeStep DEF IInv
<1>2. ASSUME NEW m \in Msgs, SendRefused(m) PROVE IInv'
    BY <1>1, <1>2, QuietStep DEF SendRefused, wires, history, ghosts
<1>3. ASSUME NEW m \in Msgs, SendFirst(m) PROVE IInv'
    <2>1. Resolve(To[m]) \in Nodes
        BY <1>1, <1>3, ResolveType DEF SendFirst, Refused
    <2> QED BY <1>1, <1>3, <2>1, RouteStep DEF SendFirst, Submitted
<1>4. ASSUME NEW m \in Msgs, SendAgain(m) PROVE IInv'
    BY <1>1, <1>4, SendAgainStep
<1>5. ASSUME NEW m \in Msgs, InjectInbound(m) PROVE IInv'
    <2>1. To[m] \in Nodes /\ row[m] \in {None, To[m]}
        BY <1>5 DEF InjectInbound, Nodes, IInv, RowNamesHolder
    <2> QED BY <1>1, <1>5, <2>1, RouteStep DEF InjectInbound
<1>6. ASSUME NEW s \in Sockets, NEW n \in Nicks, Claim(s, n) \/ Release(s, n) PROVE IInv'
    BY <1>1, <1>6, QuietStep DEF Claim, Release, wires, consoles, history, ghosts
<1>7. ASSUME NEW x \in Nodes, NEW n \in Nicks, Rename(x, n) PROVE IInv'
    BY <1>1, <1>7, QuietStep DEF Rename, wires, consoles, history, ghosts
<1>9. ASSUME NEW n \in Nicks, ReleaseByRoute(n) PROVE IInv'
    BY <1>1, <1>9, QuietStep DEF ReleaseByRoute, wires, consoles, history, ghosts
<1>8. CASE UNCHANGED vars
    BY <1>1, <1>8, QuietStep DEF vars, wires, consoles, history, ghosts
<1> QED BY <1>1, <1>2, <1>3, <1>4, <1>5, <1>6, <1>7, <1>8, <1>9, AuthStep, ClientRecvStep, HubAckStep,
        SocketFailsStep, CloseStep, ConsoleInboxStep, ProcessStep
    DEF Next, Send, Session

\* For every number of agents, sessions, messages, failures and restarts: what
\* the hub answered for is kept, handed over, or was caught by a process end.
THEOREM NothingIsLost == Spec => []NoLoss
<1>1. IInv => NoLoss
    <2> SUFFICES ASSUME IInv, NEW x \in Nodes, NEW m \in Msgs, <<x, m>> \in accepted
                 PROVE  Pending(x, m) \/ m \in received[x] \/ <<x, m>> \in exposed
        BY DEF NoLoss
    <2>1. row[m] = x /\ x # None
        BY NodesAssumption DEF IInv, RowNamesHolder
    <2> QED BY <2>1 DEF IInv, RecordedIsHeld
<1> QED BY IInvInit, IInvStep, <1>1, PTL DEF Spec

\* The delivered tick is true, and an acked local message is in no queue again.
THEOREM TicksAreTrue == Spec => [](DeliveredTruth /\ AckedIsDone)
<1>1. IInv => DeliveredTruth /\ AckedIsDone
    BY DEF IInv
<1> QED BY IInvInit, IInvStep, <1>1, PTL DEF Spec

\* Nobody is sent, or handed, a message of another recipient's row, whatever
\* names and claims did between the send and the delivery.
THEOREM OnlyTheRecipient == Spec => []RightRecipient
<1>1. IInv => RightRecipient
    BY DEF IInv
<1> QED BY IInvInit, IInvStep, <1>1, PTL DEF Spec

\* Inbox and unacked map are never both in use for an agent.
THEOREM InboxOrUnacked == Spec => []OnlineDrained
<1>1. IInv => OnlineDrained
    BY DEF IInv
<1> QED BY IInvInit, IInvStep, <1>1, PTL DEF Spec

LEMMA ClaimsStep == TypeOK /\ ClaimsLive /\ [Next]_vars => ClaimsLive'
<1> SUFFICES ASSUME TypeOK, ClaimsLive, [Next]_vars PROVE ClaimsLive'
    OBVIOUS
<1> USE DEF ClaimsLive
<1>a. None \notin Sockets /\ conn \in [Sockets -> {"closed", "open", "closing"}]
      /\ claims \in [Nicks -> Sockets \cup {None}]
    BY NodesAssumption DEF TypeOK
<1>1. CASE UNCHANGED <<conn, claims>>
    BY <1>1
<1>2. ASSUME NEW s \in Sockets, NEW n \in Nicks \cup {None}, Auth(s, n) PROVE ClaimsLive'
    BY <1>2, <1>a DEF Auth
<1>3. ASSUME NEW s \in Sockets, SocketFails(s) PROVE ClaimsLive'
    BY <1>3, <1>a DEF SocketFails
<1>4. ASSUME NEW s \in Sockets, Close(s) PROVE ClaimsLive'
    BY <1>4, <1>a DEF Close, Unclaimed
<1>5. ASSUME NEW s \in Sockets, NEW n \in Nicks, Claim(s, n) \/ Release(s, n) PROVE ClaimsLive'
    BY <1>5, <1>a DEF Claim, Release, wires
<1>6. CASE Process
    BY <1>6, <1>a DEF Process, Crash, Stop, CrashInRoute, ForgetVolatile
<1>7. ASSUME NEW m \in Msgs, Send(m) \/ InjectInbound(m) PROVE ClaimsLive'
    BY <1>1, <1>7 DEF Send, SendRefused, SendFirst, SendAgain, InjectInbound, wires
<1>8. ASSUME NEW s \in Sockets, ClientRecv(s) \/ HubAck(s) PROVE ClaimsLive'
    BY <1>1, <1>8 DEF ClientRecv, HubAck
<1>9. CASE (\E x \in Nodes, n \in Nicks : Rename(x, n)) \/ (\E h \in Humans : ConsoleInbox(h)) \/ UNCHANGED vars
    BY <1>1, <1>9 DEF Rename, ConsoleInbox, vars, wires
<1>10. ASSUME NEW n \in Nicks, ReleaseByRoute(n) PROVE ClaimsLive'
    BY <1>10, <1>a DEF ReleaseByRoute, wires
<1> QED BY <1>2, <1>3, <1>4, <1>5, <1>6, <1>7, <1>8, <1>9, <1>10 DEF Next, Session

\* No claim on a nickname's inbound outlives the session that holds it.
THEOREM ClaimsAreLive == Spec => []ClaimsLive
<1>1. Init => TypeOK /\ ClaimsLive
    BY TypeInit, NodesAssumption DEF Init, ClaimsLive
<1>2. TypeOK /\ ClaimsLive /\ [Next]_vars => (TypeOK /\ ClaimsLive)'
    BY TypeStep, ClaimsStep
<1> QED BY <1>1, <1>2, PTL DEF Spec

-----------------------------------------------------------------------------
(* Order of what an agent is owed.                                         *)

\* A set of positions has a first one.
LEMMA FirstPosition ==
    ASSUME NEW I \in SUBSET Nat, I # {}
    PROVE  \E i \in I : \A j \in I : i <= j
<1> DEFINE Below == {pair \in Nat \X Nat : pair[1] < pair[2]}
<1>1. IsWellFoundedOn(Below, Nat)
    <2>1. OpToRel(<, Nat) = Below
        BY DEF OpToRel
    <2> QED BY <2>1, NatLessThanWellFounded
<1>2. PICK i \in I : \A j \in I : <<j, i>> \notin Below
    BY <1>1, WFMin
<1>3. ASSUME NEW j \in I
      PROVE  i <= j
    <2>1. ~(j < i)
        <3>1. \A k, l \in Nat : k < l => <<k, l>> \in Below
            OBVIOUS
        <3> HIDE DEF Below
        <3> QED BY <1>2, <3>1
    <2> QED BY <2>1
<1> QED BY <1>3

\* FirstAt is the one position that holds x with none before it.
LEMMA FirstAtIs ==
    ASSUME NEW S, NEW q \in Seq(S), NEW i \in 1..Len(q), \A j \in 1..(i - 1) : q[j] # q[i]
    PROVE  FirstAt(q, q[i]) = i
<1> DEFINE x == q[i]
           F(l) == q[l] = x /\ \A j \in 1..(l - 1) : q[j] # x
<1>1. DOMAIN q = 1..Len(q) /\ Len(q) \in Nat
    BY LenProperties
<1>2. FirstAt(q, x) = CHOOSE l \in 1..Len(q) : F(l)
    BY <1>1 DEF FirstAt
<1>3. F(i)
    OBVIOUS
<1>4. ASSUME NEW l \in 1..Len(q), F(l) PROVE l = i
    <2>1. ~(l < i) /\ ~(i < l)
        BY <1>1, <1>3, <1>4
    <2> QED BY <2>1, <1>1
<1> HIDE DEF F, x
<1>5. FirstAt(q, x) = i
    BY <1>2, <1>3, <1>4
<1> QED BY <1>5 DEF x

\* Every element of a sequence has a first position.
LEMMA FirstAtExists ==
    ASSUME NEW S, NEW q \in Seq(S), NEW x \in Range(q)
    PROVE  /\ FirstAt(q, x) \in 1..Len(q)
           /\ q[FirstAt(q, x)] = x
           /\ \A j \in 1..(FirstAt(q, x) - 1) : q[j] # x
<1>1. DOMAIN q = 1..Len(q) /\ Len(q) \in Nat
    BY LenProperties
<1> DEFINE I == {l \in 1..Len(q) : q[l] = x}
<1>2. I \in SUBSET Nat /\ I # {}
    BY <1>1 DEF Range
<1>3. PICK i \in I : \A j \in I : i <= j
    <2> HIDE DEF I
    <2> QED BY <1>2, FirstPosition
<1>4. i \in 1..Len(q) /\ q[i] = x
    OBVIOUS
<1>5. \A j \in 1..(i - 1) : q[j] # x
    BY <1>1, <1>3, <1>4
<1>6. FirstAt(q, x) = i
    BY <1>4, <1>5, FirstAtIs
<1> QED BY <1>4, <1>5, <1>6

\* new swaps no two messages of old.
KeepsOrder(old, new) ==
    \A m, k \in Msgs : Before(m, k, old) /\ {m, k} \subseteq Range(new) => Before(m, k, new)

\* What is added behind, and a key that is set again, swap nothing.
LEMMA PrefixKeepsOrder ==
    ASSUME NEW old \in Seq(Msgs), NEW new \in Seq(Msgs), Len(old) <= Len(new),
           \A i \in 1..Len(old) : new[i] = old[i]
    PROVE  KeepsOrder(old, new)
<1>1. ASSUME NEW m \in Msgs, m \in Range(old)
      PROVE  FirstAt(new, m) = FirstAt(old, m)
    <2>1. PICK i \in 1..Len(old) : i = FirstAt(old, m) /\ old[i] = m /\ \A j \in 1..(i - 1) : old[j] # m
        BY <1>1, FirstAtExists
    <2>2. Len(old) \in Nat /\ Len(new) \in Nat
        BY LenProperties
    <2>3. i \in 1..Len(new) /\ new[i] = m /\ \A j \in 1..(i - 1) : new[j] # m
        BY <2>1, <2>2
    <2>4. FirstAt(new, new[i]) = i
        BY <2>3, FirstAtIs
    <2> QED BY <2>1, <2>3, <2>4
<1> QED BY <1>1 DEF KeepsOrder, Before

\* In a sequence without repetitions the first position is the position.
LEMMA FirstAtDistinct ==
    ASSUME NEW S, NEW q \in Seq(S), IsInjective(q), NEW i \in 1..Len(q)
    PROVE  FirstAt(q, q[i]) = i
<1>1. DOMAIN q = 1..Len(q) /\ Len(q) \in Nat
    BY LenProperties
<1>2. \A j \in 1..(i - 1) : q[j] # q[i]
    BY <1>1 DEF IsInjective
<1> QED BY <1>2, FirstAtIs

\* Positions of messages come from positions in the sequence.
LEMMA PositionOf ==
    ASSUME NEW S, NEW q \in Seq(S), NEW x \in Range(q)
    PROVE  \E i \in 1..Len(q) : q[i] = x
BY LenProperties DEF Range

\* An ack takes one key out and swaps no others.
LEMMA DeleteKeepsOrder ==
    ASSUME NEW old \in Seq(Msgs), IsInjective(old), NEW e
    PROVE  KeepsOrder(old, MapDelete(old, e))
<1>1. PICK new : new = MapDelete(old, e)
    OBVIOUS
<1>2. /\ new \in Seq(Msgs)
      /\ IsInjective(new)
      /\ new = old \/
           \E i \in 1..Len(old) :
               /\ Len(new) = Len(old) - 1
               /\ \A j \in 1..(Len(old) - 1) : new[j] = IF j < i THEN old[j] ELSE old[j + 1]
    BY <1>1, MapDeleteRange
<1>3. CASE new = old
    BY <1>1, <1>3 DEF KeepsOrder
<1>4. ASSUME NEW i \in 1..Len(old),
             Len(new) = Len(old) - 1,
             \A j \in 1..(Len(old) - 1) : new[j] = IF j < i THEN old[j] ELSE old[j + 1]
      PROVE  KeepsOrder(old, new)
    <2> SUFFICES ASSUME NEW m \in Msgs, NEW k \in Msgs, Before(m, k, old), {m, k} \subseteq Range(new)
                 PROVE  FirstAt(new, m) < FirstAt(new, k)
        BY DEF KeepsOrder, Before
    <2>1. PICK p \in 1..Len(new), r \in 1..Len(new) : new[p] = m /\ new[r] = k
        BY <1>2, PositionOf
    <2>2. FirstAt(new, m) = p /\ FirstAt(new, k) = r
        BY <1>2, <2>1, FirstAtDistinct
    <2> DEFINE at(j) == IF j < i THEN j ELSE j + 1
    <2>3. Len(old) \in Nat /\ \A j \in 1..Len(new) : at(j) \in 1..Len(old) /\ new[j] = old[at(j)]
        BY <1>4, LenProperties
    <2>4. FirstAt(old, m) = at(p) /\ FirstAt(old, k) = at(r)
        <3> HIDE DEF at
        <3> QED BY <2>1, <2>3, FirstAtDistinct
    <2>5. at(p) < at(r)
        BY <2>4 DEF Before
    <2>6. p < r
        BY <2>5, <1>4, <2>3
    <2> QED BY <2>2, <2>6
<1> QED BY <1>1, <1>2, <1>3, <1>4

\* Draining the inbox into an empty unacked map swaps nothing.
LEMMA DrainKeepsOrder ==
    ASSUME NEW queue \in Seq(Msgs), NEW new \in KeyOrders(<<>>, queue)
    PROVE  KeepsOrder(queue, new)
<1>1. new \in Seq(Msgs) /\ IsInjective(new)
    <2>1. <<>> \in Seq(Msgs)
        BY EmptySeq
    <2> QED BY <2>1, KeyOrdersRange
<1>2. Len(new) \in Nat /\ \A i, j \in 1..Len(new) : i < j => FirstAt(queue, new[i]) < FirstAt(queue, new[j])
    BY <1>1, LenProperties DEF KeyOrders
<1> SUFFICES ASSUME NEW m \in Msgs, NEW k \in Msgs, Before(m, k, queue), {m, k} \subseteq Range(new)
             PROVE  FirstAt(new, m) < FirstAt(new, k)
    BY DEF KeepsOrder, Before
<1>3. PICK p \in 1..Len(new), r \in 1..Len(new) : new[p] = m /\ new[r] = k
    BY <1>1, PositionOf
<1>4. FirstAt(new, m) = p /\ FirstAt(new, k) = r
    BY <1>1, <1>3, FirstAtDistinct
<1>5. FirstAt(queue, m) \in Int /\ FirstAt(queue, k) \in Int /\ FirstAt(queue, m) < FirstAt(queue, k)
    BY FirstAtExists DEF Before
<1>6. ~(r < p) /\ r # p
    BY <1>2, <1>3, <1>5
<1> QED BY <1>2, <1>4, <1>6

\* The ways a step moves what an agent is owed, between its unacked map u and
\* its inbox q, one of which is empty: none, a message added behind, an ack, the
\* drain of the inbox, the prepend of a close, and the end of the process.
Moves(u, q, v, p) ==
    \/ v = u /\ p = q
    \/ \E m \in Msgs : u = <<>> /\ v = u /\ p = Append(q, m)
    \/ \E m \in Msgs : q = <<>> /\ v = MapSet(u, m) /\ p = q
    \/ \E m \in Msgs : v = MapDelete(u, m) /\ p = q
    \/ v \in KeyOrders(u, q) /\ p = <<>>
    \/ v = <<>> /\ p \in {q, u \o q}

\* None of them swaps two messages.
LEMMA MovesKeepOrder ==
    ASSUME NEW u \in Seq(Msgs), NEW q \in Seq(Msgs), NEW v \in Seq(Msgs), NEW p \in Seq(Msgs),
           IsInjective(u), u = <<>> \/ q = <<>>, Moves(u, q, v, p)
    PROVE  KeepsOrder(u \o q, v \o p)
<1>1. \A s \in Seq(Msgs) : s \o <<>> = s /\ <<>> \o s = s
    BY ConcatEmptySeq
<1>2. u \o q \in Seq(Msgs) /\ v \o p \in Seq(Msgs)
    BY ConcatProperties
<1>3. u \o q = v \o p => KeepsOrder(u \o q, v \o p)
    BY DEF KeepsOrder
<1>4. CASE v = u /\ p = q
    BY <1>3, <1>4
<1>5. ASSUME NEW s \in Seq(Msgs), NEW m \in Msgs
      PROVE  KeepsOrder(s, Append(s, m))
    <2>1. PICK longer : longer = Append(s, m)
        OBVIOUS
    <2>2. longer \in Seq(Msgs) /\ Len(longer) = Len(s) + 1
        BY <2>1, AppendProperties
    <2>3. \A i \in 1..Len(s) : longer[i] = s[i]
        BY <2>1, AppendProperties
    <2>4. Len(s) <= Len(longer)
        BY <2>2, LenProperties
    <2>5. KeepsOrder(s, longer)
        BY <2>2, <2>3, <2>4, PrefixKeepsOrder
    <2> QED BY <2>1, <2>5
<1>6. ASSUME NEW m \in Msgs, u = <<>>, v = u, p = Append(q, m)
      PROVE  KeepsOrder(u \o q, v \o p)
    BY <1>1, <1>5, <1>6
<1>7. ASSUME NEW m \in Msgs, q = <<>>, v = MapSet(u, m), p = q
      PROVE  KeepsOrder(u \o q, v \o p)
    <2>1. u \o q = u /\ v \o p = v
        BY <1>1, <1>7
    <2>2. v = u \/ v = Append(u, m)
        BY <1>7 DEF MapSet
    <2> QED BY <2>1, <2>2, <1>3, <1>5
<1>8. ASSUME NEW m \in Msgs, v = MapDelete(u, m), p = q
      PROVE  KeepsOrder(u \o q, v \o p)
    <2>1. CASE u = <<>>
        <3>1. m \notin Range(u)
            BY <2>1 DEF Range
        <3>2. v = u
            BY <3>1, <1>8 DEF MapDelete
        <3> QED BY <3>2, <1>3, <1>8
    <2>2. CASE q = <<>>
        <3>1. u \o q = u /\ v \o p = v
            BY <1>1, <1>8, <2>2
        <3> QED BY <3>1, <1>8, DeleteKeepsOrder
    <2> QED BY <2>1, <2>2
<1>9. ASSUME v \in KeyOrders(u, q), p = <<>>
      PROVE  KeepsOrder(u \o q, v \o p)
    <2>1. CASE u = <<>>
        <3>1. u \o q = q /\ v \o p = v
            BY <1>1, <1>9, <2>1
        <3> QED BY <3>1, <1>9, <2>1, DrainKeepsOrder
    <2>2. CASE q = <<>>
        <3>1. u \o q = u /\ v \o p = v
            BY <1>1, <1>9, <2>2
        <3>2. IsPrefix(u, v)
            BY <1>9 DEF KeyOrders
        <3>3. Len(u) \in Nat /\ Len(v) \in Nat /\ Len(u) <= Len(v)
            BY <3>2, LenProperties DEF IsPrefix
        <3>4. ASSUME NEW i \in 1..Len(u)
              PROVE  v[i] = u[i]
            <4>1. SubSeq(u, 1, Len(u))[i] = u[i] /\ SubSeq(v, 1, Len(u))[i] = v[i]
                BY <3>3
            <4> QED BY <4>1, <3>2 DEF IsPrefix
        <3> QED BY <3>1, <3>3, <3>4, PrefixKeepsOrder
    <2> QED BY <2>1, <2>2
<1>10. ASSUME v = <<>>, p \in {q, u \o q}
       PROVE  KeepsOrder(u \o q, v \o p)
    <2>1. v \o p = p
        BY <1>1, <1>10
    <2>2. CASE p = u \o q
        BY <2>1, <2>2, <1>3
    <2>3. CASE p = q /\ u = <<>>
        BY <1>1, <1>3, <1>10, <2>3
    <2>4. CASE p = q /\ q = <<>>
        <3>1. Range(v \o p) = {}
            BY <2>1, <2>4 DEF Range
        <3> QED BY <3>1 DEF KeepsOrder
    <2> QED BY <2>2, <2>3, <2>4, <1>10
<1> QED BY <1>4, <1>6, <1>7, <1>8, <1>9, <1>10 DEF Moves

LEMMA DeliverMoves ==
    ASSUME IInv, NEW x \in Nodes, NEW ref, NEW m \in Msgs, Deliver(x, ref, m), NEW a \in Agents
    PROVE  Moves(unacked[a], inbox[a], unacked'[a], inbox'[a])
<1>1. a \in Nodes /\ unacked \in [Agents -> Seq(Msgs)] /\ inbox \in [Nodes -> Seq(Msgs)]
    BY DEF IInv, TypeOK, Nodes
<1>2. IF Online(a) # {} THEN inbox[a] = <<>> ELSE unacked[a] = <<>>
    BY DEF IInv, OnlineDrained
<1> DEFINE live == x \in Agents /\ Online(x) # {}
<1>3. /\ unacked' = IF live THEN [unacked EXCEPT ![x] = MapSet(@, m)] ELSE unacked
      /\ \/ inbox' = inbox
         \/ ~live /\ inbox' = [inbox EXCEPT ![x] = Append(@, m)]
    BY DEF Deliver
<1>4. CASE a = x /\ live
    BY <1>1, <1>2, <1>3, <1>4 DEF Moves
<1>5. CASE a = x /\ ~live
    <2>1. unacked'[a] = unacked[a] /\ unacked[a] = <<>>
        BY <1>2, <1>3, <1>5
    <2>2. inbox'[a] = inbox[a] \/ inbox'[a] = Append(inbox[a], m)
        BY <1>1, <1>3, <1>5
    <2> QED BY <2>1, <2>2 DEF Moves
<1>6. CASE a # x
    BY <1>1, <1>3, <1>6 DEF Moves
<1> QED BY <1>4, <1>5, <1>6

LEMMA StepMoves ==
    ASSUME IInv, [Next]_vars, NEW a \in Agents
    PROVE  Moves(unacked[a], inbox[a], unacked'[a], inbox'[a])
<1>1. a \in Nodes /\ unacked \in [Agents -> Seq(Msgs)] /\ inbox \in [Nodes -> Seq(Msgs)]
    BY DEF IInv, TypeOK, Nodes
<1>2. CASE UNCHANGED <<unacked, inbox>>
    BY <1>2 DEF Moves
<1>3. ASSUME NEW m \in Msgs, SendFirst(m) \/ InjectInbound(m)
      PROVE  Moves(unacked[a], inbox[a], unacked'[a], inbox'[a])
    <2>1. CASE SendFirst(m)
        <3>1. Resolve(To[m]) \in Nodes
            BY <2>1, ResolveType DEF SendFirst, Refused, IInv
        <3> QED BY <3>1, <2>1, DeliverMoves DEF SendFirst
    <2>2. CASE InjectInbound(m)
        BY <2>2, DeliverMoves DEF InjectInbound, Nodes
    <2> QED BY <2>1, <2>2, <1>3
<1>4. ASSUME NEW s \in Sockets, NEW n \in Nicks \cup {None}, Auth(s, n)
      PROVE  Moves(unacked[a], inbox[a], unacked'[a], inbox'[a])
    <2>1. PICK b : b = AgentOf[s]
        OBVIOUS
    <2>2. /\ \E order \in KeyOrders(unacked[b], inbox[b]) : unacked' = [unacked EXCEPT ![b] = order]
          /\ inbox' = [inbox EXCEPT ![b] = <<>>]
        BY <1>4, <2>1 DEF Auth, Drain
    <2> QED BY <1>1, <2>2 DEF Moves
<1>5. ASSUME NEW s \in Sockets, HubAck(s)
      PROVE  Moves(unacked[a], inbox[a], unacked'[a], inbox'[a])
    <2>1. toHub[s] # <<>> /\ toHub[s] \in Seq(Msgs)
        BY <1>5 DEF HubAck, IInv, TypeOK
    <2>2. PICK m \in Msgs : m = Head(toHub[s])
        BY <2>1, TailRange
    <2>3. unacked' = [unacked EXCEPT ![AgentOf[s]] = MapDelete(@, m)] /\ inbox' = inbox
        BY <1>5, <2>2 DEF HubAck
    <2> QED BY <1>1, <2>3 DEF Moves
<1>6. ASSUME NEW s \in Sockets, Close(s)
      PROVE  Moves(unacked[a], inbox[a], unacked'[a], inbox'[a])
    <2>1. \/ unacked' = unacked /\ inbox' = inbox
          \/ /\ unacked' = [unacked EXCEPT ![AgentOf[s]] = <<>>]
             /\ inbox' = [inbox EXCEPT ![AgentOf[s]] = unacked[AgentOf[s]] \o inbox[AgentOf[s]]]
        BY <1>6 DEF Close, PutBack
    <2> QED BY <1>1, <2>1 DEF Moves
<1>7. CASE Process
    <2>1. unacked' = [b \in Agents |-> <<>>]
        BY <1>7 DEF Process, Crash, Stop, CrashInRoute, ForgetVolatile
    <2>2. inbox'[a] \in {inbox[a], unacked[a] \o inbox[a]}
        BY <1>1, <1>7 DEF Process, Crash, Stop, CrashInRoute, PutBack
    <2> QED BY <2>1, <2>2 DEF Moves
<1>8. ASSUME NEW m \in Msgs, SendRefused(m) \/ SendAgain(m)
      PROVE  UNCHANGED <<unacked, inbox>>
    BY <1>8 DEF SendRefused, SendAgain
<1>9. ASSUME NEW s \in Sockets, ClientRecv(s) \/ SocketFails(s) \/ \E n \in Nicks : Claim(s, n) \/ Release(s, n)
      PROVE  UNCHANGED <<unacked, inbox>>
    BY <1>9 DEF ClientRecv, SocketFails, Claim, Release
<1>10. CASE \/ \E x \in Nodes, n \in Nicks : Rename(x, n)
            \/ \E n \in Nicks : ReleaseByRoute(n)
            \/ \E h \in Humans : ConsoleInbox(h)
            \/ UNCHANGED vars
    BY <1>2, <1>10 DEF Rename, ReleaseByRoute, ConsoleInbox, vars
<1> QED BY <1>2, <1>3, <1>4, <1>5, <1>6, <1>7, <1>8, <1>9, <1>10 DEF Next, Send, Session

\* For every number of agents, sessions, messages, failures and restarts: no
\* connect, drain, ack, close, crash or stop swaps two messages an agent is owed.
THEOREM OrderIsKept == Spec => OrderKept
<1>1. ASSUME IInv, [Next]_vars, NEW a \in Agents
      PROVE  KeepsOrder(unacked[a] \o inbox[a], unacked'[a] \o inbox'[a])
    <2>1. IInv'
        BY <1>1, IInvStep
    <2>2. /\ unacked[a] \in Seq(Msgs) /\ inbox[a] \in Seq(Msgs)
          /\ unacked'[a] \in Seq(Msgs) /\ inbox'[a] \in Seq(Msgs)
        BY <2>1, <1>1 DEF IInv, TypeOK, Nodes
    <2>3. IsInjective(unacked[a]) /\ (unacked[a] = <<>> \/ inbox[a] = <<>>)
        BY <1>1 DEF IInv, KeysDistinct, OnlineDrained
    <2>4. Moves(unacked[a], inbox[a], unacked'[a], inbox'[a])
        BY <1>1, StepMoves
    <2> QED BY <2>2, <2>3, <2>4, MovesKeepOrder
<1> DEFINE owed(a) == unacked[a] \o inbox[a]
           Swapless == \A a \in Agents, m, k \in Msgs :
               Before(m, k, owed(a)) /\ {m, k} \subseteq Range(owed(a)') => Before(m, k, owed(a)')
<1>2. IInv /\ [Next]_vars => Swapless
    BY <1>1 DEF KeepsOrder
<1>3. OrderKept <=> [][Swapless]_vars
    BY DEF OrderKept
<1> HIDE DEF Swapless
<1> QED BY IInvInit, IInvStep, <1>2, <1>3, PTL DEF Spec
=============================================================================
