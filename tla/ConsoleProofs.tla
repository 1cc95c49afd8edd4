---------------------------- MODULE ConsoleProofs ----------------------------
(***************************************************************************)
(* Theorems about the two models a console's user meets: the conversation  *)
(* on the screen (ConversationView), for any conversations, keys, rows and *)
(* bounds, and who may be reached from it (ContactGraph), for any accounts,*)
(* agents and pairs.  The two share no state.                              *)
(***************************************************************************)
EXTENDS ConversationView, ContactGraph, FiniteSetTheorems, WellFoundedInduction, TLAPS

-----------------------------------------------------------------------------
(* The order of a timeline.                                                *)

\* A set of numbers has a least one.
LEMMA Least ==
  ASSUME NEW I \in SUBSET Nat, I # {}
  PROVE  \E i \in I : \A j \in I : i <= j
  <1> DEFINE Below == {pair \in Nat \X Nat : pair[1] < pair[2]}
  <1>1. IsWellFoundedOn(Below, Nat)
    <2>1. OpToRel(<, Nat) = Below
      BY DEF OpToRel
    <2> QED BY <2>1, NatLessThanWellFounded
  <1>2. PICK i \in I : \A j \in I : <<j, i>> \notin Below
    BY <1>1, WFMin
  <1>3. ASSUME NEW j \in I
        PROVE  i <= j
    <2>1. \A k, l \in Nat : k < l => <<k, l>> \in Below
      OBVIOUS
    <2> HIDE DEF Below
    <2>2. ~(j < i)
      BY <1>2, <2>1
    <2> QED BY <2>2
  <1> QED BY <1>3

\* (time, key) is a strict linear order of the rows.
LEMMA RowOrder ==
  ASSUME NEW p \in Rows, NEW q \in Rows, NEW r \in Rows
  PROVE  /\ ~Before(p, p)
         /\ Before(p, q) /\ Before(q, r) => Before(p, r)
         /\ p # q => Before(p, q) \/ Before(q, p)
  <1>1. /\ Stamp[p] \in Nat /\ Stamp[q] \in Nat /\ Stamp[r] \in Nat
        /\ Rank[p] \in Nat /\ Rank[q] \in Nat /\ Rank[r] \in Nat
        /\ p # q => Rank[p] # Rank[q]
    BY RowAssumption
  <1> QED BY <1>1 DEF Before

Later(S, r) == {q \in S : Before(r, q)}
Earlier(S, r) == {q \in S : Before(q, r)}

\* How many rows are later than one says where it stands.
LEMMA LaterShrinks ==
  ASSUME NEW S \in SUBSET Rows, IsFiniteSet(S), NEW p \in S, NEW q \in S, Before(p, q)
  PROVE  /\ Cardinality(Later(S, q)) \in Nat /\ Cardinality(Later(S, p)) \in Nat
         /\ Cardinality(Later(S, q)) < Cardinality(Later(S, p))
         /\ Cardinality(Earlier(S, q)) \in Nat /\ Cardinality(Earlier(S, p)) \in Nat
         /\ Cardinality(Earlier(S, p)) < Cardinality(Earlier(S, q))
  <1>1. \A r \in S : Before(q, r) => Before(p, r)
    BY RowOrder
  <1>2. \A r \in S : Before(r, p) => Before(r, q)
    BY RowOrder
  <1>3. ~Before(q, q) /\ ~Before(p, p)
    BY RowOrder
  <1>4. Later(S, q) \in SUBSET Later(S, p) /\ q \in Later(S, p) \ Later(S, q)
    BY <1>1, <1>3 DEF Later
  <1>5. Earlier(S, p) \in SUBSET Earlier(S, q) /\ p \in Earlier(S, q) \ Earlier(S, p)
    BY <1>2, <1>3 DEF Earlier
  <1>6. \A T \in SUBSET S : IsFiniteSet(T) /\ Cardinality(T) \in Nat
    BY FS_Subset, FS_CardinalityType
  <1>7. \A T, U \in SUBSET S : T \in SUBSET U /\ T # U => Cardinality(T) < Cardinality(U)
    <2> SUFFICES ASSUME NEW U \in SUBSET S, NEW T \in SUBSET U, T # U
                 PROVE  Cardinality(T) < Cardinality(U)
      OBVIOUS
    <2>1. IsFiniteSet(U) /\ Cardinality(U) \in Nat /\ Cardinality(T) \in Nat
      BY <1>6
    <2>2. Cardinality(T) <= Cardinality(U) /\ Cardinality(T) # Cardinality(U)
      BY <2>1, FS_Subset
    <2> QED BY <2>1, <2>2
  <1>8. /\ Later(S, q) \in SUBSET S /\ Later(S, p) \in SUBSET S
        /\ Earlier(S, q) \in SUBSET S /\ Earlier(S, p) \in SUBSET S
    BY DEF Later, Earlier
  <1> QED BY <1>4, <1>5, <1>6, <1>7, <1>8

LEMMA NewestIs ==
  ASSUME NEW S, NEW n
  PROVE  Newest(S, n) = {r \in S : Cardinality(Later(S, r)) < n}
  BY DEF Newest, Later

LEMMA LaterType ==
  ASSUME NEW S, IsFiniteSet(S), NEW r
  PROVE  /\ Later(S, r) \in SUBSET S
         /\ IsFiniteSet(Later(S, r)) /\ Cardinality(Later(S, r)) \in Nat
         /\ Cardinality(Earlier(S, r)) \in Nat
  <1>1. Later(S, r) \in SUBSET S /\ Earlier(S, r) \in SUBSET S
    BY DEF Later, Earlier
  <1> QED BY <1>1, FS_Subset, FS_CardinalityType

\* A row that is not among the n newest has n rows, the newest, after it.
LEMMA NewestFull ==
  ASSUME NEW S \in SUBSET Rows, IsFiniteSet(S), NEW n \in Nat, NEW r \in S, r \notin Newest(S, n)
  PROVE  /\ \A q \in Newest(S, n) : Before(r, q)
         /\ Cardinality(Newest(S, n)) >= n
  <1>0. \A q \in S : Cardinality(Later(S, q)) \in Nat
    BY LaterType
  <1>1. Newest(S, n) = {q \in S : Cardinality(Later(S, q)) < n}
    BY NewestIs
  <1>2. Cardinality(Later(S, r)) >= n
    BY <1>0, <1>1
  <1>3. ASSUME NEW q \in Newest(S, n)
        PROVE  Before(r, q)
    <2>1. q \in S /\ Cardinality(Later(S, q)) < n
      BY <1>1
    <2>2. q # r
      BY <2>1, <1>0, <1>2
    <2>3. ~Before(q, r)
      <3>1. Before(q, r) => Cardinality(Later(S, r)) < Cardinality(Later(S, q))
        BY <2>1, LaterShrinks
      <3> QED BY <3>1, <2>1, <1>0, <1>2
    <2> QED BY <2>1, <2>2, <2>3, RowOrder
  <1> DEFINE I == {Cardinality(Later(S, q)) : q \in {p \in S : Cardinality(Later(S, p)) >= n}}
  <1>4. I \in SUBSET Nat /\ I # {}
    BY <1>0, <1>2
  <1>5. PICK i \in I : \A j \in I : i <= j
    <2> HIDE DEF I
    <2> QED BY <1>4, Least
  <1>6. PICK p \in S : Cardinality(Later(S, p)) >= n /\ i = Cardinality(Later(S, p))
    OBVIOUS
  <1>7. ASSUME NEW q \in Later(S, p)
        PROVE  q \in Newest(S, n)
    <2>1. q \in S /\ Before(p, q)
      BY DEF Later
    <2>2. Cardinality(Later(S, q)) < i
      BY <2>1, <1>6, LaterShrinks
    <2>3. Cardinality(Later(S, q)) \notin I
      <3> HIDE DEF I
      <3> QED BY <2>1, <2>2, <1>0, <1>5, <1>6
    <2>4. ~(Cardinality(Later(S, q)) >= n)
      BY <2>1, <2>3
    <2> QED BY <2>1, <2>4, <1>0, <1>1
  <1>8. Later(S, p) \in SUBSET Newest(S, n) /\ IsFiniteSet(Newest(S, n))
    <2>1. Newest(S, n) \in SUBSET S
      BY <1>1
    <2> QED BY <2>1, <1>7, FS_Subset
  <1>9. Cardinality(Later(S, p)) <= Cardinality(Newest(S, n)) /\ Cardinality(Newest(S, n)) \in Nat
    BY <1>8, FS_Subset, FS_CardinalityType
  <1> QED BY <1>0, <1>3, <1>6, <1>9

\* A set of rows has an oldest row.
LEMMA OldestExists ==
  ASSUME NEW S \in SUBSET Rows, IsFiniteSet(S), S # {}
  PROVE  \E r \in S : \A q \in S : ~Before(q, r)
  <1> DEFINE I == {Cardinality(Earlier(S, q)) : q \in S}
  <1>1. \A q \in S : Cardinality(Earlier(S, q)) \in Nat
    BY LaterType
  <1>2. I \in SUBSET Nat /\ I # {}
    BY <1>1
  <1>3. PICK i \in I : \A j \in I : i <= j
    <2> HIDE DEF I
    <2> QED BY <1>2, Least
  <1>4. PICK r \in S : i = Cardinality(Earlier(S, r))
    OBVIOUS
  <1>5. ASSUME NEW q \in S, Before(q, r)
        PROVE  FALSE
    <2>1. Cardinality(Earlier(S, q)) < Cardinality(Earlier(S, r))
      BY <1>5, LaterShrinks
    <2>2. Cardinality(Earlier(S, q)) \in I
      OBVIOUS
    <2> HIDE DEF I
    <2> QED BY <1>1, <1>3, <1>4, <2>1, <2>2
  <1> QED BY <1>5

\* A page of at least one row out of a set that has any is not empty.
LEMMA NewestSome ==
  ASSUME NEW S \in SUBSET Rows, IsFiniteSet(S), S # {}, NEW n \in Nat \ {0}
  PROVE  Newest(S, n) # {}
  <1>1. PICK r \in S : TRUE
    OBVIOUS
  <1>2. CASE r \in Newest(S, n)
    BY <1>2
  <1>3. CASE r \notin Newest(S, n)
    <2>1. Cardinality(Newest(S, n)) >= n
      BY <1>3, NewestFull
    <2> QED BY <2>1, FS_EmptySet
  <1> QED BY <1>2, <1>3

-----------------------------------------------------------------------------
(* Pages.                                                                  *)

\* The page of a set, and its cursor.
LEMMA PageIs ==
  ASSUME NEW S \in SUBSET Rows, IsFiniteSet(S)
  PROVE  /\ TimelinePage(S).rows = Newest(S, Limit)
         /\ Newest(S, Limit) \in SUBSET S
         /\ TimelinePage(S).next \in Rows \cup {None}
         /\ Cardinality(S) > Limit => TimelinePage(S).next \in Newest(S, Limit)
         /\ ~(Cardinality(S) > Limit) => TimelinePage(S).next = None
  <1> DEFINE items == Newest(S, Limit)
             oldest == CHOOSE r \in items : \A q \in items : ~Before(q, r)
  <1>1. /\ TimelinePage(S).rows = items
        /\ TimelinePage(S).next = IF Cardinality(S) > Limit THEN oldest ELSE None
    BY DEF TimelinePage
  <1>2. items \in SUBSET S
    BY DEF Newest
  <1>3. ASSUME Cardinality(S) > Limit
        PROVE  oldest \in items
    <2>1. S # {}
      BY <1>3, FS_EmptySet, RowAssumption
    <2>2. items # {}
      BY <2>1, NewestSome, RowAssumption
    <2>3. IsFiniteSet(items) /\ items \in SUBSET Rows
      BY <1>2, FS_Subset
    <2> HIDE DEF items
    <2>4. \E r \in items : \A q \in items : ~Before(q, r)
      BY <2>2, <2>3, OldestExists
    <2> QED BY <2>4
  <1> HIDE DEF items, oldest
  <1>4. TimelinePage(S).next \in Rows \cup {None}
    BY <1>1, <1>2, <1>3
  <1> QED BY <1>1, <1>2, <1>3, <1>4 DEF items

\* A page drawn from two lists, each cut one row beyond the page, leaves out only
\* rows before its own: what one list is cut of lies before all that the page keeps.
LEMMA UnionPage ==
  ASSUME NEW A \in SUBSET Rows, IsFiniteSet(A), NEW B \in SUBSET Rows, IsFiniteSet(B),
         NEW n \in Nat, NEW S, S = Newest(A, n + 1) \cup Newest(B, n + 1),
         NEW r \in A, r \notin Newest(S, n)
  PROVE  /\ Cardinality(S) > n
         /\ \A q \in Newest(S, n) : Before(r, q)
  <1>1. Newest(A, n + 1) \in SUBSET A /\ Newest(B, n + 1) \in SUBSET B
    BY DEF Newest
  <1>2. IsFiniteSet(A \cup B) /\ S \in SUBSET (A \cup B)
    BY <1>1, FS_Union
  <1>3. S \in SUBSET Rows /\ IsFiniteSet(S) /\ Cardinality(S) \in Nat
    BY <1>2, FS_Subset, FS_CardinalityType
  <1>4. CASE r \in S
    <2>1. \A q \in Newest(S, n) : Before(r, q)
      BY <1>3, <1>4, NewestFull
    <2>2. Cardinality(Later(S, r)) \in Nat /\ Later(S, r) \in SUBSET S
      BY <1>3, LaterType
    <2>3. Cardinality(Later(S, r)) >= n
      BY <1>4, <2>2, NewestIs
    <2>4. Later(S, r) # S
      BY <1>3, <1>4, RowOrder DEF Later
    <2>5. Cardinality(Later(S, r)) <= Cardinality(S) /\ Cardinality(Later(S, r)) # Cardinality(S)
      BY <1>3, <2>2, <2>4, FS_Subset
    <2>6. Cardinality(S) > n
      BY <1>3, <2>2, <2>3, <2>5
    <2> QED BY <2>1, <2>6
  <1>5. CASE r \notin S
    <2>1. r \notin Newest(A, n + 1)
      BY <1>5
    <2>2. /\ \A q \in Newest(A, n + 1) : Before(r, q)
          /\ Cardinality(Newest(A, n + 1)) >= n + 1
      BY <2>1, NewestFull
    <2>3. Newest(A, n + 1) \in SUBSET S /\ Cardinality(Newest(A, n + 1)) \in Nat
      BY <1>1, FS_Subset, FS_CardinalityType
    <2>4. Cardinality(Newest(A, n + 1)) <= Cardinality(S)
      BY <1>3, <2>3, FS_Subset
    <2>5. ASSUME NEW q \in Newest(S, n), ~Before(r, q)
          PROVE  FALSE
      <3>1. q \in S /\ q \in Rows /\ Cardinality(Later(S, q)) < n
        BY <1>3, NewestIs
      <3>2. Before(q, r)
        BY <1>5, <2>5, <3>1, RowOrder
      <3>3. \A p \in Newest(A, n + 1) : Before(q, p)
        BY <1>1, <2>2, <3>1, <3>2, RowOrder
      <3>4. Newest(A, n + 1) \in SUBSET Later(S, q)
        BY <2>3, <3>3 DEF Later
      <3>5. IsFiniteSet(Later(S, q)) /\ Cardinality(Later(S, q)) \in Nat
        BY <1>3, LaterType
      <3>6. Cardinality(Newest(A, n + 1)) <= Cardinality(Later(S, q))
        BY <3>4, <3>5, FS_Subset
      <3> QED BY <2>2, <2>3, <3>1, <3>5, <3>6
    <2>6. Cardinality(S) > n
      BY <1>3, <2>2, <2>3, <2>4
    <2>7. \A q \in Newest(S, n) : Before(r, q)
      BY <2>5
    <2> QED BY <2>6, <2>7
  <1> QED BY <1>4, <1>5

\* A page of a conversation holds rows of it, and all between the two cursors.
LEMMA ThreadPageCovers ==
  ASSUME stored \in SUBSET Rows, IsFiniteSet(stored), NEW t, NEW from
  PROVE  /\ ThreadPage(t, from).rows \in SUBSET (stored \cap RowsOf[t])
         /\ ThreadPage(t, from).next \in Rows \cup {None}
         /\ \A r \in stored \cap RowsOf[t] :
               /\ from = None \/ Before(r, from)
               /\ ThreadPage(t, from).next = None \/ ~Before(r, ThreadPage(t, from).next)
               => r \in ThreadPage(t, from).rows
  <1> DEFINE A == {r \in (stored \cap RowsOf[t]) \ Calls : from = None \/ Before(r, from)}
             B == {r \in stored \cap RowsOf[t] \cap Calls : from = None \/ Before(r, from)}
             S == Newest(A, Limit + 1) \cup Newest(B, Limit + 1)
             page == ThreadPage(t, from)
  <1>1. page = TimelinePage(S)
    BY DEF ThreadPage, MessagesWithPeer, CallsWithPeer
  <1>2. A \in SUBSET (stored \cap RowsOf[t]) /\ B \in SUBSET (stored \cap RowsOf[t])
    OBVIOUS
  <1>3. A \in SUBSET Rows /\ IsFiniteSet(A) /\ B \in SUBSET Rows /\ IsFiniteSet(B)
    BY FS_Subset
  <1>4. \A r \in stored \cap RowsOf[t] : from = None \/ Before(r, from) => r \in A \/ r \in B
    OBVIOUS
  <1> HIDE DEF A, B
  <1>5. S \in SUBSET (A \cup B)
    BY DEF Newest
  <1>6. S \in SUBSET Rows /\ IsFiniteSet(S)
    BY <1>3, <1>5, FS_Union, FS_Subset
  <1>7. Limit \in Nat
    BY RowAssumption
  <1>8. S = Newest(B, Limit + 1) \cup Newest(A, Limit + 1)
    OBVIOUS
  <1>14. S = Newest(A, Limit + 1) \cup Newest(B, Limit + 1)
    OBVIOUS
  <1> HIDE DEF S, page
  <1>9. /\ page.rows = Newest(S, Limit)
        /\ Newest(S, Limit) \in SUBSET S
        /\ page.next \in Rows \cup {None}
        /\ Cardinality(S) > Limit => page.next \in Newest(S, Limit)
        /\ ~(Cardinality(S) > Limit) => page.next = None
    BY <1>1, <1>6, PageIs
  <1>10. ASSUME NEW r \in A \cup B, r \notin Newest(S, Limit)
         PROVE  Cardinality(S) > Limit /\ \A q \in Newest(S, Limit) : Before(r, q)
    <2>1. CASE r \in A
      BY ONLY <1>3, <1>7, <1>14, <1>10, <2>1, UnionPage
    <2>2. CASE r \in B
      BY ONLY <1>3, <1>7, <1>8, <1>10, <2>2, UnionPage
    <2> QED BY <1>10, <2>1, <2>2
  <1>11. None \notin Rows
    BY KeyAssumption
  <1>12. ASSUME NEW r \in A \cup B, page.next = None \/ ~Before(r, page.next)
         PROVE  r \in page.rows
    <2>1. Newest(S, Limit) \in SUBSET Rows
      BY <1>6, <1>9
    <2> QED BY <1>9, <1>10, <1>11, <1>12, <2>1
  <1>13. page.rows \in SUBSET (stored \cap RowsOf[t])
    BY <1>2, <1>5, <1>9
  <1> QED BY <1>4, <1>9, <1>12, <1>13 DEF page

-----------------------------------------------------------------------------
(* The first state, and what steps have in common.                         *)

LEMMA ViewInit == Init => IInv
  <1> SUFFICES ASSUME Init
               PROVE  IInv
    OBVIOUS
  <1>1. TypeOK
    <2>1. ready \in BOOLEAN /\ loading \in BOOLEAN /\ chain \in BOOLEAN
      BY DEF Init
    <2>2. shown \in [Rows -> 0 .. 2]
      BY DEF Init
    <2>3. /\ op \in [Submitted -> {"none", "pending", "sent", "failed"}]
          /\ opKey \in [Submitted -> Keys \cup {None}]
          /\ post \in [Submitted -> {"idle", "asked", "stored"}]
      BY DEF Init
    <2> QED BY <2>1, <2>2, <2>3 DEF Init, TypeOK
  <1>2. IsFiniteSet(stored)
    BY FS_EmptySet DEF Init
  <1>3. FlightFits /\ OpeningOnce /\ AnswersFit /\ OpenFits
    BY DEF Init, FlightFits, InFlight, OpeningOnce, AnswersFit, OpenFits
  <1>4. TwiceIsSeen /\ SubmissionsFit /\ PagesCover
    BY DEF Init, TwiceIsSeen, SubmissionsFit, PagesCover
  <1>5. LateAnswersIgnored /\ NoSkip /\ SubmissionsKept
    BY DEF Init, LateAnswersIgnored, NoSkip, SubmissionsKept
  <1> QED BY <1>1, <1>2, <1>3, <1>4, <1>5 DEF IInv

\* A step that leaves the screen alone leaves alone what is said of the screen.
LEMMA ScreenSame ==
  ASSUME IInv, UNCHANGED <<open, ready, shown, seen, cursor, ops, base, chain>>
  PROVE  /\ OpenFits' /\ TwiceIsSeen' /\ SubmissionsFit'
         /\ LateAnswersIgnored' /\ NoSkip' /\ SubmissionsKept'
  BY DEF IInv, ops, OpenFits, TwiceIsSeen, SubmissionsFit, LateAnswersIgnored, NoSkip,
         SubmissionsKept

\* Where nothing is asked and nothing new is answered, what is in flight still fits.
LEMMA FewerInFlight ==
  ASSUME IInv, InFlight' \subseteq InFlight, UNCHANGED <<open, ready>>
  PROVE  FlightFits'
  BY DEF IInv, FlightFits

LEMMA FewerAnswers ==
  ASSUME IInv, answers' \subseteq answers, stored \subseteq stored',
         UNCHANGED <<open, ready, base>>
  PROVE  AnswersFit' /\ PagesCover'
  <1>1. AnswersFit /\ PagesCover
    BY DEF IInv
  <1>2. AnswersFit'
    BY <1>1 DEF AnswersFit
  <1>3. PagesCover'
    BY <1>1 DEF PagesCover
  <1> QED BY <1>2, <1>3

LEMMA OpeningFewer ==
  ASSUME IInv, answers' \subseteq answers, UNCHANGED open,
         \A q \in requests' : q.kind = "open" => q \in requests
  PROVE  OpeningOnce'
  BY DEF IInv, OpeningOnce, Ask

\* The screen shows more, of the conversation that is open, and twice only what the
\* inbox poll appended.
LEMMA ScreenGrows ==
  ASSUME IInv, UNCHANGED <<open, ready, cursor, ops, base, chain>>, seen \subseteq seen',
         \A r \in Rows : shown[r] > 0 => shown'[r] > 0,
         \A r \in Rows : shown'[r] > 0 =>
             shown[r] > 0 \/ (open # None /\ r \in RowsOf[ThreadOf[open]]),
         \A r \in Rows : shown'[r] = 2 => shown[r] = 2 \/ r \in seen'
  PROVE  /\ OpenFits' /\ TwiceIsSeen' /\ SubmissionsFit'
         /\ LateAnswersIgnored' /\ NoSkip' /\ SubmissionsKept'
  <1> USE DEF IInv
  <1>1. OpenFits' /\ TwiceIsSeen' /\ SubmissionsFit'
    BY DEF OpenFits, TwiceIsSeen, SubmissionsFit, ops
  <1>2. LateAnswersIgnored'
    BY DEF LateAnswersIgnored
  <1>3. NoSkip'
    BY DEF NoSkip, TypeOK
  <1>4. SubmissionsKept'
    <2>1. \A o \in Submitted : op[o] # "none" => o \in Rows
      BY KeyAssumption DEF SubmissionsFit
    <2> QED BY <2>1 DEF SubmissionsKept, ops
  <1> QED BY <1>1, <1>2, <1>3, <1>4

\* What a merge shows.
LEMMA MergedIs ==
  ASSUME TypeOK, NEW page
  PROVE  /\ Merged(page) \in [Rows -> 0 .. 2]
         /\ \A r \in Rows : Merged(page)[r] > 0 <=> r \in page \/ shown[r] > 0
         /\ \A r \in Rows : Merged(page)[r] # 2
  BY DEF Merged, TypeOK

-----------------------------------------------------------------------------
(* The server's steps.                                                     *)

LEMMA ServeThreadStep ==
  ASSUME IInv, NEW q, ServeThread(q)
  PROVE  IInv'
  <1> PICK page : page = ThreadPage(ThreadOf[q.key], q.from)
    OBVIOUS
  <1> PICK new : new = [q |-> q, rows |-> page.rows, next |-> page.next,
               all |-> IF q.kind = "open" THEN stored \cap RowsOf[ThreadOf[q.key]] ELSE {}]
    OBVIOUS
  <1>1. /\ q \in requests /\ q.kind # "inbox"
        /\ requests' = requests \ {q} /\ answers' = answers \cup {new}
        /\ UNCHANGED <<stored, inbox, client, ops, bounds, ghosts>>
    BY DEF ServeThread
  <1>2. /\ UNCHANGED <<stored, inbox, open, ready, shown, seen, cursor, loading>>
        /\ UNCHANGED <<op, opKey, post, base, chain>>
    BY <1>1 DEF client, ops, ghosts
  <1>3. TypeOK /\ IsFiniteSet(stored) /\ stored \in SUBSET Rows
    BY DEF IInv, TypeOK
  <1>4. /\ page.rows \in SUBSET (stored \cap RowsOf[ThreadOf[q.key]])
        /\ page.next \in Rows \cup {None}
        /\ \A r \in stored \cap RowsOf[ThreadOf[q.key]] :
              /\ q.from = None \/ Before(r, q.from)
              /\ page.next = None \/ ~Before(r, page.next)
              => r \in page.rows
    BY <1>3, ThreadPageCovers
  <1>5. new \in Answers
    <2>1. q \in Requests
      BY <1>1, <1>3 DEF TypeOK
    <2>2. page.rows \in SUBSET Rows
      BY <1>3, <1>4
    <2> QED BY <1>3, <1>4, <2>1, <2>2 DEF Answers
  <1>6. TypeOK'
    BY <1>1, <1>2, <1>3, <1>5 DEF TypeOK
  <1>7. new.q = q /\ new.rows = page.rows /\ new.next = page.next
    OBVIOUS
  <1>8. InFlight' \subseteq InFlight /\ q \in InFlight
    BY <1>1, <1>7 DEF InFlight
  <1>9. FlightFits'
    BY <1>2, <1>8, FewerInFlight
  <1>10. OpeningOnce'
    <2>1. OpeningOnce
      BY DEF IInv
    <2>2. ASSUME NEW p \in requests', p.kind = "open"
          PROVE  p = Ask("open", open', None) /\ \A a \in answers' : a.q.kind # "open"
      <3>1. p \in requests /\ p # q
        BY <1>1
      <3>2. p = Ask("open", open, None) /\ \A a \in answers : a.q.kind # "open"
        BY <2>1, <2>2, <3>1 DEF OpeningOnce
      <3>3. q.kind # "open"
        BY <1>1, <2>1, <3>1, <3>2 DEF OpeningOnce
      <3> QED BY <1>1, <1>2, <1>7, <3>2, <3>3 DEF Ask
    <2>3. ASSUME NEW a \in answers', NEW b \in answers', a.q.kind = "open", b.q.kind = "open"
          PROVE  a = b
      <3>1. q.kind = "open" => \A c \in answers : c.q.kind # "open"
        BY <1>1, <2>1 DEF OpeningOnce
      <3> QED BY <1>1, <1>7, <2>1, <2>3, <3>1 DEF OpeningOnce
    <2> QED BY <2>2, <2>3 DEF OpeningOnce
  <1>11. AnswersFit'
    <2>1. AnswersFit
      BY DEF IInv
    <2>2. new.rows \subseteq RowsOf[ThreadOf[new.q.key]]
      BY <1>4, <1>7
    <2>3. new.q.kind = "open" => new.all \subseteq stored \cap RowsOf[ThreadOf[new.q.key]]
      BY <1>7
    <2> HIDE DEF Before
    <2> QED BY <1>1, <1>2, <2>1, <2>2, <2>3 DEF AnswersFit
  <1>12. PagesCover'
    <2>1. PagesCover /\ FlightFits
      BY DEF IInv
    <2> DEFINE reached(a, r) == a.next = None \/ ~Before(r, a.next)
    <2>2. new.q.kind = "open" => \A r \in new.all : reached(new, r) => r \in new.rows
      <3>1. q.kind = "open" => q.from = None /\ new.all = stored \cap RowsOf[ThreadOf[q.key]]
        BY <1>8, <2>1 DEF FlightFits
      <3> QED BY <1>4, <1>7, <3>1
    <2>3. new.q.kind = "older" /\ new.q.live =>
              \A r \in base : Before(r, new.q.from) /\ reached(new, r) => r \in new.rows
      <3>1. q.kind = "older" /\ q.live => base \subseteq stored \cap RowsOf[ThreadOf[q.key]]
        BY <1>8, <2>1 DEF FlightFits, PagesCover
      <3> QED BY <1>4, <1>7, <3>1
    <2>4. ready => base \subseteq stored \cap RowsOf[ThreadOf[open]]
      BY <2>1 DEF PagesCover
    <2>5. ASSUME NEW a \in answers'
          PROVE  /\ a.q.kind = "open" => \A r \in a.all : reached(a, r) => r \in a.rows
                 /\ a.q.kind = "older" /\ a.q.live =>
                      \A r \in base : Before(r, a.q.from) /\ reached(a, r) => r \in a.rows
      <3>1. CASE a \in answers
        BY <2>1, <3>1 DEF PagesCover
      <3>2. CASE a = new
        BY <2>2, <2>3, <3>2
      <3> QED BY <1>1, <3>1, <3>2
    <2> QED BY <1>2, <2>4, <2>5 DEF PagesCover
  <1>13. /\ OpenFits' /\ TwiceIsSeen' /\ SubmissionsFit'
         /\ LateAnswersIgnored' /\ NoSkip' /\ SubmissionsKept'
    BY <1>2, ScreenSame DEF ops
  <1>14. IsFiniteSet(stored)'
    BY <1>2, <1>3
  <1> QED BY <1>6, <1>9, <1>10, <1>11, <1>12, <1>13, <1>14 DEF IInv

LEMMA ServeInboxStep ==
  ASSUME IInv, NEW q, ServeInbox(q)
  PROVE  IInv'
  <1> PICK new : new = [q |-> q, rows |-> inbox, next |-> None, all |-> {}]
    OBVIOUS
  <1>1. /\ q \in requests /\ q.kind = "inbox" /\ requests' = requests \ {q}
        /\ answers' = answers \/ answers' = answers \cup {new}
        /\ inbox' = {} /\ new.q = q
        /\ UNCHANGED <<stored, open, ready, shown, seen, cursor, loading>>
        /\ UNCHANGED <<op, opKey, post, base, chain>>
    BY DEF ServeInbox, client, ops, ghosts
  <1>2. TypeOK
    BY DEF IInv
  <1>3. new \in Answers
    BY <1>1, <1>2 DEF TypeOK, Answers
  <1>4. TypeOK'
    BY <1>1, <1>2, <1>3 DEF TypeOK
  <1>5. InFlight' \subseteq InFlight
    BY <1>1 DEF InFlight
  <1>6. FlightFits'
    BY <1>1, <1>5, FewerInFlight
  <1>7. OpeningOnce'
    BY <1>1 DEF IInv, OpeningOnce, Ask
  <1>8. AnswersFit'
    BY <1>1 DEF IInv, AnswersFit
  <1>9. PagesCover'
    BY <1>1 DEF IInv, PagesCover
  <1>10. /\ OpenFits' /\ TwiceIsSeen' /\ SubmissionsFit'
         /\ LateAnswersIgnored' /\ NoSkip' /\ SubmissionsKept'
    BY <1>1, ScreenSame DEF ops
  <1>11. IsFiniteSet(stored)'
    BY <1>1 DEF IInv
  <1> QED BY <1>4, <1>6, <1>7, <1>8, <1>9, <1>10, <1>11 DEF IInv

\* A row more in the history, no request and no answer.
LEMMA HistoryGrows ==
  ASSUME IInv, NEW r \in Rows, stored' = stored \cup {r},
         inbox' \subseteq stored', UNCHANGED <<client, requests, answers, op, opKey, ghosts>>,
         post' \in [Submitted -> {"idle", "asked", "stored"}],
         \A o \in Submitted : post'[o] # "idle" => post[o] # "idle"
  PROVE  IInv'
  <1>1. /\ UNCHANGED <<open, ready, shown, seen, cursor, loading>>
        /\ UNCHANGED <<op, opKey, base, chain>>
    BY DEF client, ghosts
  <1>2. TypeOK'
    BY <1>1 DEF IInv, TypeOK
  <1>3. IsFiniteSet(stored)'
    BY FS_AddElement DEF IInv
  <1>4. FlightFits'
    BY <1>1, FewerInFlight DEF InFlight
  <1>5. OpeningOnce'
    BY <1>1, OpeningFewer
  <1>6. AnswersFit' /\ PagesCover'
    BY <1>1, FewerAnswers
  <1>7. OpenFits' /\ TwiceIsSeen' /\ LateAnswersIgnored' /\ NoSkip' /\ SubmissionsKept'
    BY <1>1 DEF IInv, OpenFits, TwiceIsSeen, LateAnswersIgnored, NoSkip, SubmissionsKept
  <1>8. SubmissionsFit'
    BY <1>1 DEF IInv, SubmissionsFit
  <1> QED BY <1>2, <1>3, <1>4, <1>5, <1>6, <1>7, <1>8 DEF IInv

LEMMA ArriveStep ==
  ASSUME IInv, NEW r \in Rows, Arrive(r)
  PROVE  IInv'
  <1>1. /\ stored' = stored \cup {r} /\ inbox' \subseteq stored'
        /\ UNCHANGED <<client, requests, answers, op, opKey, ghosts, post>>
    BY DEF Arrive, IInv, TypeOK, ops
  <1>2. post \in [Submitted -> {"idle", "asked", "stored"}]
    BY DEF IInv, TypeOK
  <1> QED BY <1>1, <1>2, HistoryGrows
-----------------------------------------------------------------------------
(* The steps of the screen that ask.                                       *)

\* One request more, of another kind than an opening.
LEMMA AskStep ==
  ASSUME IInv, NEW q \in Requests, requests' = requests \cup {q}, q.kind # "open",
         q.kind # "inbox" => q.key \in Keys,
         q.kind = "refresh" => q.key = open,
         q.kind = "older" => q.from \in Rows,
         q.kind = "older" /\ q.live => ready /\ q.key = open,
         UNCHANGED <<stored, inbox, open, ready, shown, seen, cursor, answers, ops, ghosts>>,
         loading' \in BOOLEAN
  PROVE  IInv'
  <1>1. TypeOK'
    BY DEF IInv, TypeOK, ops, ghosts
  <1>2. InFlight' = InFlight \cup {q}
    BY DEF InFlight
  <1>3. FlightFits'
    BY <1>2 DEF IInv, FlightFits
  <1>4. OpeningOnce'
    BY OpeningFewer
  <1>5. AnswersFit' /\ PagesCover'
    BY FewerAnswers DEF ghosts
  <1>6. /\ OpenFits' /\ TwiceIsSeen' /\ SubmissionsFit'
        /\ LateAnswersIgnored' /\ NoSkip' /\ SubmissionsKept'
    BY ScreenSame DEF ghosts
  <1>7. IsFiniteSet(stored)'
    BY DEF IInv
  <1> QED BY <1>1, <1>3, <1>4, <1>5, <1>6, <1>7 DEF IInv

LEMMA LoadOlderStep ==
  ASSUME IInv, LoadOlder
  PROVE  IInv'
  <1> PICK q : q = [Ask("older", open, cursor) EXCEPT !.live = ready]
    OBVIOUS
  <1>1. open \in Keys /\ cursor \in Rows /\ ready \in BOOLEAN
    BY DEF LoadOlder, IInv, TypeOK
  <1>2. q = [kind |-> "older", key |-> open, from |-> cursor, live |-> ready]
    BY DEF Ask
  <1>3. q \in Requests
    BY <1>1, <1>2 DEF Requests, Kinds
  <1>4. /\ requests' = requests \cup {q} /\ loading' \in BOOLEAN
        /\ UNCHANGED <<stored, inbox, open, ready, shown, seen, cursor, answers, ops, ghosts>>
    BY DEF LoadOlder
  <1>5. q.kind = "older" /\ q.key = open /\ q.from = cursor /\ (q.live => ready)
    BY <1>2
  <1> QED BY <1>1, <1>3, <1>4, <1>5, AskStep

LEMMA TickStep ==
  ASSUME IInv, RefreshTick \/ InboxTick
  PROVE  IInv'
  <1>1. loading \in BOOLEAN /\ open \in Keys \cup {None}
    BY DEF IInv, TypeOK
  <1>2. /\ UNCHANGED <<stored, inbox, open, ready, shown, seen, cursor, answers, ops, ghosts>>
        /\ loading' \in BOOLEAN
    BY <1>1 DEF RefreshTick, InboxTick, client
  <1>3. CASE RefreshTick
    <2> PICK q : q = Ask("refresh", open, None)
      OBVIOUS
    <2>1. open \in Keys /\ requests' = requests \cup {q}
      BY <1>1, <1>3 DEF RefreshTick
    <2>2. q \in Requests
      BY <2>1 DEF Ask, Requests, Kinds
    <2>3. q.kind = "refresh" /\ q.key = open
      BY DEF Ask
    <2> QED BY <1>2, <2>1, <2>2, <2>3, AskStep
  <1>4. CASE InboxTick
    <2> PICK q : q = Ask("inbox", open, None)
      OBVIOUS
    <2>1. requests' = requests \cup {q}
      BY <1>4 DEF InboxTick
    <2>2. q \in Requests
      BY <1>1 DEF Ask, Requests, Kinds
    <2>3. q.kind = "inbox"
      BY DEF Ask
    <2> QED BY <1>2, <2>1, <2>2, <2>3, AskStep
  <1> QED BY <1>3, <1>4

\* What is still in flight when the screen has moved to k.
LEMMA MarkedIs ==
  ASSUME NEW q \in Requests, NEW k
  PROVE  /\ Marked(q, k) \in Requests
         /\ Marked(q, k).kind = q.kind /\ Marked(q, k).key = q.key /\ Marked(q, k).from = q.from
         /\ Marked(q, k).live <=> Survives(q, k)
  <1>1. Survives(q, k) \in BOOLEAN
    <2>1. q.kind \in Kinds
      BY DEF Requests
    <2> QED BY <2>1 DEF Survives, Kinds
  <1>2. Marked(q, k) = [kind |-> q.kind, key |-> q.key, from |-> q.from, live |-> Survives(q, k)]
    BY DEF Marked, Requests
  <1> HIDE DEF Survives, Marked
  <1>3. Marked(q, k) \in Requests
    BY <1>1, <1>2 DEF Requests
  <1> QED BY <1>2, <1>3

LEMMA MovedOn ==
  ASSUME IInv, NEW k \in Keys \cup {None}, open # None \/ k # None
  PROVE  /\ \A q \in RequestsAfter(k) \cup {a.q : a \in AnswersAfter(k)} :
               /\ q \in Requests /\ q.kind # "open"
               /\ q.kind # "inbox" => q.key \in Keys
               /\ q.kind = "refresh" => q.key = k
               /\ q.kind = "older" => q.from \in Rows /\ ~q.live
         /\ \A a \in AnswersAfter(k) :
               /\ a \in Answers
               /\ a.q.kind # "inbox" => a.rows \subseteq RowsOf[ThreadOf[a.q.key]]
  <1>1. /\ requests \subseteq Requests /\ answers \subseteq Answers /\ FlightFits /\ AnswersFit
        /\ \A a \in answers : a.q \in Requests
    BY DEF IInv, TypeOK, Answers
  <1> DEFINE Fits(q) == /\ q \in Requests /\ q.kind # "open"
                        /\ q.kind # "inbox" => q.key \in Keys
                        /\ q.kind = "refresh" => q.key = k
                        /\ q.kind = "older" => q.from \in Rows /\ ~q.live
  <1>2. ASSUME NEW q \in InFlight, q \in Requests, Outlives(q, k)
        PROVE  Fits(Marked(q, k))
    <2>1. Marked(q, k) \in Requests /\ Marked(q, k).kind = q.kind /\ Marked(q, k).key = q.key
          /\ Marked(q, k).from = q.from /\ (Marked(q, k).live <=> Survives(q, k))
      BY <1>2, MarkedIs
    <2>2. /\ q.kind = "older" => ~Survives(q, k)
          /\ q.kind # "open"
          /\ q.kind = "refresh" => k = open
      BY <1>2 DEF Survives, Outlives
    <2> QED BY <1>1, <2>1, <2>2 DEF FlightFits
  <1>3. ASSUME NEW q \in RequestsAfter(k)
        PROVE  Fits(q)
    BY <1>1, <1>2 DEF RequestsAfter, InFlight
  <1>4. ASSUME NEW b \in AnswersAfter(k)
        PROVE  /\ b \in Answers /\ Fits(b.q)
               /\ b.q.kind # "inbox" => b.rows \subseteq RowsOf[ThreadOf[b.q.key]]
    <2>1. PICK a \in answers : /\ Survives(a.q, k) \/ a.q.kind = "older"
                               /\ b = [a EXCEPT !.q = Marked(a.q, k)]
      BY DEF AnswersAfter
    <2>2. a \in Answers /\ a.q \in Requests /\ a.q \in InFlight /\ Outlives(a.q, k)
      BY <1>1, <2>1 DEF InFlight, Outlives
    <2>3. Fits(Marked(a.q, k))
      BY <1>2, <2>2
    <2>4. /\ Marked(a.q, k) \in Requests
          /\ Marked(a.q, k).kind = a.q.kind /\ Marked(a.q, k).key = a.q.key
      BY <2>2, MarkedIs
    <2> HIDE DEF Fits
    <2>5. b.q = Marked(a.q, k) /\ b.rows = a.rows /\ b \in Answers
      BY <2>1, <2>2, <2>4 DEF Answers
    <2>6. a.q.kind # "inbox" => a.rows \subseteq RowsOf[ThreadOf[a.q.key]]
      BY <1>1 DEF AnswersFit
    <2> QED BY <2>3, <2>4, <2>5, <2>6
  <1> QED BY <1>3, <1>4

\* The screen shows the submissions of the conversation it has moved to, if any.
LEMMA MoveStep ==
  ASSUME IInv, NEW k \in Keys \cup {None}, open # None \/ k # None,
         open' = k, ready' = FALSE, cursor' = None, loading' = FALSE,
         shown' = Only(IF k = None THEN {} ELSE SubmissionsOf(k)),
         requests' = RequestsAfter(k) \cup (IF k = None THEN {} ELSE {Ask("open", k, None)}),
         answers' = AnswersAfter(k),
         UNCHANGED <<stored, inbox, seen, ops, ghosts>>
  PROVE  IInv'
  <1>1. UNCHANGED <<stored, inbox, seen, op, opKey, post, base, chain>>
    BY DEF ops, ghosts
  <1>2. TypeOK /\ SubmissionsFit
    BY DEF IInv
  <1> DEFINE ask == Ask("open", k, None)
  <1>3. k # None => k \in Keys /\ ask \in Requests
    BY DEF Ask, Requests, Kinds
  <1>4. /\ ask.kind = "open" /\ ask.key = k /\ ask.from = None
    BY DEF Ask
  <1> HIDE DEF ask
  <1>5. /\ \A q \in RequestsAfter(k) \cup {a.q : a \in answers'} :
              /\ q \in Requests /\ q.kind # "open"
              /\ q.kind # "inbox" => q.key \in Keys
              /\ q.kind = "refresh" => q.key = k
              /\ q.kind = "older" => q.from \in Rows /\ ~q.live
        /\ \A a \in answers' :
              /\ a \in Answers
              /\ a.q.kind # "inbox" => a.rows \subseteq RowsOf[ThreadOf[a.q.key]]
    BY MovedOn
  <1>6. /\ k = None => requests' = RequestsAfter(k)
        /\ k # None => requests' = RequestsAfter(k) \cup {ask}
    BY DEF ask
  <1>7. shown' \in [Rows -> 0 .. 1]
    BY DEF Only
  <1>8. TypeOK'
    <2>1. requests' \subseteq Requests
      BY <1>3, <1>5, <1>6
    <2>2. answers' \subseteq Answers
      BY <1>5
    <2>3. shown' \in [Rows -> 0 .. 2]
      BY <1>7
    <2> QED BY <1>1, <1>2, <2>1, <2>2, <2>3 DEF TypeOK
  <1>9. FlightFits'
    BY <1>3, <1>4, <1>5, <1>6 DEF FlightFits, InFlight
  <1>10. OpeningOnce'
    <2>1. \A a \in answers' : a.q.kind # "open"
      BY <1>5
    <2>2. \A q \in requests' : q.kind = "open" => q = Ask("open", open', None)
      BY <1>5, <1>6 DEF ask
    <2> QED BY <2>1, <2>2 DEF OpeningOnce, Ask
  <1>11. AnswersFit' /\ PagesCover'
    BY <1>5 DEF AnswersFit, PagesCover
  <1>12. OpenFits' /\ NoSkip'
    BY DEF OpenFits, NoSkip
  <1>13. TwiceIsSeen'
    BY <1>7 DEF TwiceIsSeen
  <1>14. SubmissionsFit'
    BY <1>1, <1>2 DEF SubmissionsFit
  <1>15. LateAnswersIgnored'
    BY <1>2 DEF LateAnswersIgnored, Only, SubmissionsOf, SubmissionsFit
  <1>16. SubmissionsKept'
    <2> SUFFICES ASSUME NEW o \in Submitted, op[o] # "none", opKey[o] = k
                 PROVE  shown'[o] > 0
      BY <1>1 DEF SubmissionsKept
    <2>1. k \in Keys /\ o \in Rows
      BY <1>2, KeyAssumption DEF SubmissionsFit
    <2> QED BY <2>1, KeyAssumption DEF Only, SubmissionsOf
  <1>17. IsFiniteSet(stored)'
    BY <1>1 DEF IInv
  <1> QED BY <1>8, <1>9, <1>10, <1>11, <1>12, <1>13, <1>14, <1>15, <1>16, <1>17 DEF IInv

LEMMA OpenThreadStep ==
  ASSUME IInv, NEW k \in Keys, OpenThread(k)
  PROVE  IInv'
  <1>1. k # None
    BY KeyAssumption
  <1> QED BY <1>1, MoveStep DEF OpenThread

LEMMA ChangeInboxStep ==
  ASSUME IInv, ChangeInbox
  PROVE  IInv'
  BY MoveStep DEF ChangeInbox
-----------------------------------------------------------------------------
(* The steps of the screen that take an answer.                            *)

\* What every answer taken has in common.
LEMMA TakeFits ==
  ASSUME IInv, NEW a, Take(a)
  PROVE  /\ a \in answers /\ answers' = answers \ {a} /\ a \in Answers /\ a.q \in InFlight
         /\ a.q.kind # "inbox" => a.q.key \in Keys /\ a.rows \subseteq RowsOf[ThreadOf[a.q.key]]
         /\ a.q.kind \in {"open", "refresh"} => a.q.key = open
         /\ UNCHANGED requests => InFlight' \subseteq InFlight
  <1>1. a \in answers /\ answers' = answers \ {a}
    BY DEF Take
  <1>2. a \in Answers
    BY <1>1 DEF IInv, TypeOK
  <1>3. a.q \in InFlight /\ (UNCHANGED requests => InFlight' \subseteq InFlight)
    BY <1>1 DEF InFlight
  <1>4. /\ a.q.kind # "inbox" => a.q.key \in Keys
        /\ a.q.kind \in {"open", "refresh"} => a.q.key = open
    BY <1>3 DEF IInv, FlightFits
  <1>5. a.q.kind # "inbox" => a.rows \subseteq RowsOf[ThreadOf[a.q.key]]
    BY <1>1 DEF IInv, AnswersFit
  <1> QED BY <1>1, <1>2, <1>3, <1>4, <1>5

\* An answer that brings rows to the screen and moves no cursor.
LEMMA TailStep ==
  ASSUME IInv, NEW a, Take(a),
         UNCHANGED <<stored, inbox, open, ready, cursor, loading, requests, ops, ghosts>>,
         seen \subseteq seen', seen' \subseteq Rows, shown' \in [Rows -> 0 .. 2],
         \A r \in Rows : shown[r] > 0 => shown'[r] > 0,
         \A r \in Rows : shown'[r] > 0 =>
             shown[r] > 0 \/ (open # None /\ r \in RowsOf[ThreadOf[open]]),
         \A r \in Rows : shown'[r] = 2 => shown[r] = 2 \/ r \in seen'
  PROVE  IInv'
  <1>1. answers' \subseteq answers /\ InFlight' \subseteq InFlight
    BY TakeFits
  <1>2. UNCHANGED <<op, opKey, post, base, chain>>
    BY DEF ops, ghosts
  <1>3. TypeOK'
    BY <1>1, <1>2 DEF IInv, TypeOK
  <1>4. FlightFits' /\ OpeningOnce'
    BY <1>1, FewerInFlight, OpeningFewer
  <1>5. AnswersFit' /\ PagesCover'
    BY <1>1, <1>2, FewerAnswers
  <1>6. /\ OpenFits' /\ TwiceIsSeen' /\ SubmissionsFit'
        /\ LateAnswersIgnored' /\ NoSkip' /\ SubmissionsKept'
    BY <1>2, ScreenGrows DEF ops
  <1>7. IsFiniteSet(stored)'
    BY DEF IInv
  <1> QED BY <1>3, <1>4, <1>5, <1>6, <1>7 DEF IInv

LEMMA RefreshAnswerStep ==
  ASSUME IInv, NEW a, RefreshAnswer(a)
  PROVE  IInv'
  <1>1. /\ Take(a) /\ a.q.kind = "refresh" /\ shown' = Merged(a.rows)
        /\ UNCHANGED <<stored, inbox, open, ready, seen, cursor, loading, requests, ops, ghosts>>
    BY DEF RefreshAnswer
  <1>2. open \in Keys /\ open # None /\ a.rows \subseteq RowsOf[ThreadOf[open]]
    BY <1>1, TakeFits, KeyAssumption
  <1>3. TypeOK /\ seen \subseteq Rows
    BY DEF IInv, TypeOK
  <1>4. /\ shown' \in [Rows -> 0 .. 2]
        /\ \A r \in Rows : shown'[r] > 0 <=> r \in a.rows \/ shown[r] > 0
        /\ \A r \in Rows : shown'[r] # 2
    BY <1>1, <1>3, MergedIs
  <1> QED BY <1>1, <1>2, <1>3, <1>4, TailStep

LEMMA InboxAnswerStep ==
  ASSUME IInv, NEW a, InboxAnswer(a)
  PROVE  IInv'
  <1> PICK fresh : fresh = a.rows \ seen
    OBVIOUS
  <1>1. /\ Take(a) /\ seen' = seen \cup fresh
        /\ shown' = [r \in Rows |->
               IF open # None /\ ready /\ r \in fresh \cap RowsOf[ThreadOf[open]]
               THEN shown[r] + 1 ELSE shown[r]]
        /\ UNCHANGED <<stored, inbox, open, ready, cursor, loading, requests, ops, ghosts>>
    BY DEF InboxAnswer
  <1>2. a \in Answers /\ fresh \subseteq Rows
    BY <1>1, TakeFits DEF Answers
  <1>3. shown \in [Rows -> 0 .. 2] /\ seen \subseteq Rows /\ \A r \in Rows : shown[r] = 2 => r \in seen
    BY DEF IInv, TypeOK, TwiceIsSeen
  <1>4. \A r \in Rows : r \in fresh => shown[r] \in 0 .. 1
    BY <1>3
  <1>5. shown' \in [Rows -> 0 .. 2]
    BY <1>1, <1>3, <1>4
  <1>6. \A r \in Rows : shown[r] > 0 => shown'[r] > 0
    BY <1>1, <1>3
  <1>7. \A r \in Rows : shown'[r] > 0 =>
             shown[r] > 0 \/ (open # None /\ r \in RowsOf[ThreadOf[open]])
    BY <1>1
  <1>8. \A r \in Rows : shown'[r] = 2 => shown[r] = 2 \/ r \in seen'
    BY <1>1
  <1>9. seen \subseteq seen' /\ seen' \subseteq Rows
    BY <1>1, <1>2, <1>3
  <1> QED BY <1>1, <1>5, <1>6, <1>7, <1>8, <1>9, TailStep

LEMMA OpenAnswerStep ==
  ASSUME IInv, NEW a, OpenAnswer(a)
  PROVE  IInv'
  <1>1. /\ Take(a) /\ a.q.kind = "open"
        /\ ready' = TRUE /\ seen' = seen \cup a.rows /\ cursor' = a.next
        /\ shown' = Only(SubmissionsOf(open) \cup a.rows)
        /\ base' = a.all /\ chain' = TRUE
        /\ UNCHANGED <<stored, inbox, open, loading, requests, op, opKey, post>>
    BY DEF OpenAnswer, ops
  <1>2. /\ a \in answers /\ answers' = answers \ {a} /\ a \in Answers /\ a.q \in InFlight
        /\ a.q.key = open /\ open \in Keys /\ open # None
        /\ a.rows \subseteq RowsOf[ThreadOf[open]] /\ InFlight' \subseteq InFlight
    BY <1>1, TakeFits, KeyAssumption
  <1>3. a.rows \subseteq Rows /\ a.next \in Rows \cup {None} /\ a.all \subseteq Rows
    BY <1>2 DEF Answers
  <1>4. ~ready /\ a.all \subseteq stored \cap RowsOf[ThreadOf[open]]
    BY <1>1, <1>2 DEF IInv, FlightFits, AnswersFit
  <1>5. shown' \in [Rows -> 0 .. 1]
    BY <1>1 DEF Only
  <1>6. TypeOK'
    <2>1. shown' \in [Rows -> 0 .. 2]
      BY <1>5
    <2>2. ready' \in BOOLEAN /\ chain' \in BOOLEAN
      BY <1>1
    <2>3. TypeOK
      BY DEF IInv
    <2> QED BY <1>1, <1>2, <1>3, <2>1, <2>2, <2>3 DEF TypeOK
  <1>7. \A q \in InFlight' : q.kind # "open" /\ ~(q.kind = "older" /\ q.live)
    <2>1. OpeningOnce /\ FlightFits
      BY DEF IInv
    <2>2. \A q \in requests : q.kind # "open"
      BY <1>1, <1>2, <2>1 DEF OpeningOnce
    <2>3. \A b \in answers' : b.q.kind # "open"
      BY <1>1, <1>2, <2>1 DEF OpeningOnce
    <2>4. \A q \in InFlight : ~(q.kind = "older" /\ q.live)
      BY <1>4, <2>1 DEF FlightFits
    <2> QED BY <1>1, <1>2, <2>2, <2>3, <2>4 DEF InFlight
  <1>8. FlightFits'
    <2>1. FlightFits
      BY DEF IInv
    <2> QED BY <1>1, <1>2, <1>7, <2>1 DEF FlightFits
  <1>9. OpeningOnce'
    BY <1>1, <1>2, OpeningFewer
  <1>10. OpenFits'
    BY <1>1, <1>2 DEF OpenFits
  <1>11. AnswersFit'
    BY <1>1, <1>2 DEF IInv, AnswersFit
  <1>12. TwiceIsSeen'
    BY <1>5 DEF TwiceIsSeen
  <1>13. SubmissionsFit /\ SubmissionsFit'
    BY <1>1 DEF IInv, SubmissionsFit
  <1>14. PagesCover'
    <2>1. \A b \in answers' : b.q.kind # "open" /\ ~(b.q.kind = "older" /\ b.q.live)
      BY <1>7 DEF InFlight
    <2> QED BY <1>1, <1>4, <2>1 DEF PagesCover
  <1>15. LateAnswersIgnored'
    BY <1>1, <1>2, <1>13 DEF LateAnswersIgnored, Only, SubmissionsOf, SubmissionsFit
  <1>16. NoSkip'
    <2>1. \A r \in a.all : a.next = None \/ ~Before(r, a.next) => r \in a.rows
      BY <1>1, <1>2 DEF IInv, PagesCover
    <2> QED BY <1>1, <1>3, <2>1 DEF NoSkip, Only
  <1>17. SubmissionsKept'
    <2> SUFFICES ASSUME NEW o \in Submitted, op[o] # "none", opKey[o] = open
                 PROVE  shown'[o] > 0
      BY <1>1 DEF SubmissionsKept
    <2>1. o \in Rows
      BY <1>2, <1>13, KeyAssumption DEF SubmissionsFit
    <2> QED BY <1>1, <2>1 DEF Only, SubmissionsOf
  <1>18. IsFiniteSet(stored)'
    BY <1>1 DEF IInv
  <1> QED BY <1>6, <1>8, <1>9, <1>10, <1>11, <1>12, <1>13, <1>14, <1>15, <1>16, <1>17, <1>18
      DEF IInv

LEMMA OlderAnswerStep ==
  ASSUME IInv, NEW a, OlderAnswer(a)
  PROVE  IInv'
  <1>1. /\ Take(a) /\ a.q.kind = "older"
        /\ UNCHANGED <<stored, inbox, open, ready, seen, requests, op, opKey, post, base>>
    BY DEF OlderAnswer, ops
  <1>2. /\ a \in answers /\ answers' = answers \ {a} /\ a \in Answers /\ a.q \in InFlight
        /\ a.q.key \in Keys /\ a.q.key # None
        /\ a.rows \subseteq RowsOf[ThreadOf[a.q.key]] /\ InFlight' \subseteq InFlight
    BY <1>1, TakeFits, KeyAssumption
  <1>3. CASE open # a.q.key
    <2>1. UNCHANGED <<shown, cursor, loading, ghosts, ops>>
      BY <1>1, <1>3 DEF OlderAnswer, ghosts, ops
    <2>2. seen \subseteq Rows /\ shown \in [Rows -> 0 .. 2]
      BY DEF IInv, TypeOK
    <2> QED BY <1>1, <2>1, <2>2, TailStep
  <1>4. CASE open = a.q.key
    <2>1. /\ shown' = Merged(a.rows) /\ cursor' = a.next /\ loading' = FALSE
          /\ chain' = (chain /\ a.q.live /\ a.q.from = cursor)
      BY <1>4 DEF OlderAnswer
    <2>2. TypeOK
      BY DEF IInv
    <2>3. /\ shown' \in [Rows -> 0 .. 2]
          /\ \A r \in Rows : shown'[r] > 0 <=> r \in a.rows \/ shown[r] > 0
          /\ \A r \in Rows : shown'[r] # 2
      BY <2>1, <2>2, MergedIs
    <2>4. a.next \in Rows \cup {None}
      BY <1>2 DEF Answers
    <2>5. TypeOK'
      <3>1. chain' \in BOOLEAN
        BY <2>1
      <3> QED BY <1>1, <1>2, <2>1, <2>2, <2>3, <2>4, <3>1 DEF TypeOK
    <2>6. FlightFits' /\ OpeningOnce'
      BY <1>1, <1>2, FewerInFlight, OpeningFewer
    <2>7. AnswersFit' /\ PagesCover'
      BY <1>1, <1>2, FewerAnswers
    <2>8. OpenFits' /\ TwiceIsSeen' /\ SubmissionsFit'
      BY <1>1, <1>2, <1>4, <2>3 DEF IInv, OpenFits, TwiceIsSeen, SubmissionsFit
    <2>9. LateAnswersIgnored'
      BY <1>1, <1>2, <1>4, <2>3 DEF IInv, LateAnswersIgnored
    <2>10. NoSkip'
      <3> SUFFICES ASSUME ready', chain', NEW r \in base,
                          cursor' = None \/ ~Before(r, cursor')
                   PROVE  shown'[r] > 0
        BY <1>1 DEF NoSkip
      <3>1. chain /\ a.q.live /\ a.q.from = cursor
        BY <2>1
      <3>2. cursor \in Rows /\ cursor # None
        BY <1>1, <1>2, <3>1, KeyAssumption DEF IInv, FlightFits
      <3>3. r \in Rows
        BY <2>2 DEF TypeOK
      <3>4. CASE ~Before(r, cursor)
        <4>1. shown[r] > 0
          BY <1>1, <3>1, <3>4 DEF IInv, NoSkip
        <4> QED BY <2>3, <3>3, <4>1
      <3>5. CASE Before(r, cursor)
        <4>1. r \in a.rows
          BY <1>1, <1>2, <2>1, <3>1, <3>5 DEF IInv, PagesCover
        <4> QED BY <2>3, <3>3, <4>1
      <3> QED BY <3>4, <3>5
    <2>11. SubmissionsKept'
      <3>1. \A o \in Submitted : op[o] # "none" => o \in Rows
        BY KeyAssumption DEF IInv, SubmissionsFit
      <3> QED BY <1>1, <2>3, <3>1 DEF IInv, SubmissionsKept
    <2>12. IsFiniteSet(stored)'
      BY <1>1 DEF IInv
    <2> QED BY <2>5, <2>6, <2>7, <2>8, <2>9, <2>10, <2>11, <2>12 DEF IInv
  <1> QED BY <1>3, <1>4

LEMMA LoseStep ==
  ASSUME IInv, NEW q, Lose(q)
  PROVE  IInv'
  <1>1. /\ answers' \subseteq answers /\ requests' \subseteq requests /\ loading' \in BOOLEAN
        /\ UNCHANGED <<stored, inbox, open, ready, shown, seen, cursor>>
        /\ UNCHANGED <<op, opKey, post, base, chain>>
    BY DEF Lose, ops, ghosts
  <1>2. TypeOK'
    BY <1>1 DEF IInv, TypeOK
  <1>3. InFlight' \subseteq InFlight
    BY <1>1 DEF InFlight
  <1>4. FlightFits' /\ OpeningOnce'
    BY <1>1, <1>3, FewerInFlight, OpeningFewer
  <1>5. AnswersFit' /\ PagesCover'
    BY <1>1, FewerAnswers
  <1>6. /\ OpenFits' /\ TwiceIsSeen' /\ SubmissionsFit'
        /\ LateAnswersIgnored' /\ NoSkip' /\ SubmissionsKept'
    BY <1>1, ScreenSame DEF ops
  <1>7. IsFiniteSet(stored)'
    BY <1>1 DEF IInv
  <1> QED BY <1>2, <1>4, <1>5, <1>6, <1>7 DEF IInv
-----------------------------------------------------------------------------
(* Submissions.                                                            *)

\* A submission's item is made or renewed; it has a key, its own or the open one.
LEMMA SubmissionStep ==
  ASSUME IInv, NEW o \in Submitted, NEW k \in Keys, o \in RowsOf[ThreadOf[k]],
         NEW s \in {"pending", "sent", "failed"}, NEW p \in {"idle", "asked"},
         op' = [op EXCEPT ![o] = s], opKey' = [opKey EXCEPT ![o] = k],
         post' = [post EXCEPT ![o] = p], Changed(o, k),
         UNCHANGED <<stored, inbox, open, ready, seen, cursor, loading, requests, answers, ghosts>>
  PROVE  IInv'
  <1>1. TypeOK /\ UNCHANGED <<base, chain>> /\ o \in Rows /\ k # None
    BY KeyAssumption DEF IInv, ghosts
  <1>2. /\ shown' \in [Rows -> 0 .. 2]
        /\ \A r \in Rows : shown[r] > 0 => shown'[r] > 0
        /\ \A r \in Rows : shown'[r] > 0 => shown[r] > 0 \/ (r = o /\ open = k)
        /\ \A r \in Rows : shown'[r] = 2 => shown[r] = 2
        /\ open = k => shown'[o] > 0
    <2>1. CASE open = k
      <3>1. shown' = Merged({o})
        BY <2>1 DEF Changed
      <3> QED BY <1>1, <2>1, <3>1, MergedIs
    <2>2. CASE open # k
      <3>1. shown' = shown
        BY <2>2 DEF Changed
      <3>2. shown \in [Rows -> 0 .. 2]
        BY <1>1 DEF TypeOK
      <3> QED BY <2>2, <3>1, <3>2
    <2> QED BY <2>1, <2>2
  <1>3. TypeOK'
    <2>1. /\ op' \in [Submitted -> {"none", "pending", "sent", "failed"}]
          /\ opKey' \in [Submitted -> Keys \cup {None}]
          /\ post' \in [Submitted -> {"idle", "asked", "stored"}]
      BY <1>1 DEF TypeOK
    <2> QED BY <1>1, <1>2, <2>1 DEF TypeOK
  <1>4. FlightFits' /\ OpeningOnce'
    BY FewerInFlight, OpeningFewer DEF InFlight
  <1>5. AnswersFit' /\ PagesCover'
    BY <1>1, FewerAnswers
  <1>6. OpenFits' /\ TwiceIsSeen'
    BY <1>2 DEF IInv, OpenFits, TwiceIsSeen
  <1>7. \A m \in Submitted : /\ op'[m] = IF m = o THEN s ELSE op[m]
                             /\ opKey'[m] = IF m = o THEN k ELSE opKey[m]
                             /\ post'[m] = IF m = o THEN p ELSE post[m]
    BY <1>1 DEF TypeOK
  <1>8. SubmissionsFit'
    BY <1>7 DEF IInv, SubmissionsFit
  <1>9. LateAnswersIgnored'
    BY <1>1, <1>2 DEF IInv, LateAnswersIgnored
  <1>10. NoSkip'
    BY <1>1, <1>2 DEF IInv, NoSkip, TypeOK
  <1>11. SubmissionsKept'
    <2>1. \A m \in Submitted : op[m] # "none" => m \in Rows
      BY KeyAssumption DEF IInv, SubmissionsFit
    <2> QED BY <1>2, <1>7, <2>1 DEF IInv, SubmissionsKept
  <1>12. IsFiniteSet(stored)'
    BY DEF IInv
  <1> QED BY <1>3, <1>4, <1>5, <1>6, <1>8, <1>9, <1>10, <1>11, <1>12 DEF IInv

\* A submission under way or failed has its key.
LEMMA HasKey ==
  ASSUME IInv, NEW o \in Submitted, op[o] # "none" \/ post[o] # "idle"
  PROVE  /\ opKey[o] \in Keys /\ o \in RowsOf[ThreadOf[opKey[o]]] /\ o \in Rows
         /\ opKey = [opKey EXCEPT ![o] = opKey[o]]
  <1>1. opKey[o] \in Keys /\ o \in RowsOf[ThreadOf[opKey[o]]]
    BY DEF IInv, SubmissionsFit
  <1>2. o \in Rows
    BY <1>1, KeyAssumption
  <1>3. opKey \in [Submitted -> Keys \cup {None}]
    BY DEF IInv, TypeOK
  <1> QED BY <1>1, <1>2, <1>3

LEMMA SendStep ==
  ASSUME IInv, NEW o \in Submitted, Send(o)
  PROVE  IInv'
  <1>1. open \in Keys /\ o \in RowsOf[ThreadOf[open]]
    BY DEF Send, IInv, TypeOK
  <1>2. /\ op' = [op EXCEPT ![o] = "pending"] /\ opKey' = [opKey EXCEPT ![o] = open]
        /\ post' = [post EXCEPT ![o] = "asked"] /\ Changed(o, open)
        /\ UNCHANGED <<stored, inbox, open, ready, seen, cursor, loading, requests, answers, ghosts>>
    BY DEF Send
  <1> QED BY <1>1, <1>2, SubmissionStep

LEMMA RetryStep ==
  ASSUME IInv, NEW o \in Submitted, Retry(o)
  PROVE  IInv'
  <1>1. op[o] # "none"
    BY DEF Retry
  <1>2. /\ opKey[o] \in Keys /\ o \in RowsOf[ThreadOf[opKey[o]]]
        /\ opKey = [opKey EXCEPT ![o] = opKey[o]]
    BY <1>1, HasKey
  <1>3. /\ op' = [op EXCEPT ![o] = "pending"] /\ post' = [post EXCEPT ![o] = "asked"]
        /\ Changed(o, opKey[o]) /\ opKey' = opKey
        /\ UNCHANGED <<stored, inbox, open, ready, seen, cursor, loading, requests, answers, ghosts>>
    BY DEF Retry
  <1> QED BY <1>2, <1>3, SubmissionStep

LEMMA SettleStep ==
  ASSUME IInv, NEW o \in Submitted, post[o] # "idle", NEW s \in {"sent", "failed"}, Settle(o, s)
  PROVE  IInv'
  <1>1. /\ opKey[o] \in Keys /\ o \in RowsOf[ThreadOf[opKey[o]]]
        /\ opKey = [opKey EXCEPT ![o] = opKey[o]]
    BY HasKey
  <1>2. /\ op' = [op EXCEPT ![o] = s] /\ post' = [post EXCEPT ![o] = "idle"]
        /\ Changed(o, opKey[o]) /\ opKey' = opKey
        /\ UNCHANGED <<stored, inbox, open, ready, seen, cursor, loading, requests, answers, ghosts>>
    BY DEF Settle
  <1> QED BY <1>1, <1>2, SubmissionStep

LEMMA ServeSmsStep ==
  ASSUME IInv, NEW o \in Submitted, ServeSms(o)
  PROVE  IInv'
  <1>1. /\ post[o] = "asked" /\ post' = [post EXCEPT ![o] = "stored"]
        /\ stored' = stored \cup {o}
        /\ UNCHANGED <<inbox, client, requests, answers, op, opKey, ghosts>>
    BY DEF ServeSms
  <1>2. o \in Rows
    BY <1>1, HasKey
  <1>3. /\ post \in [Submitted -> {"idle", "asked", "stored"}] /\ inbox \subseteq stored
    BY DEF IInv, TypeOK
  <1>4. /\ post' \in [Submitted -> {"idle", "asked", "stored"}]
        /\ \A m \in Submitted : post'[m] # "idle" => post[m] # "idle"
    BY <1>1, <1>3
  <1>5. inbox' \subseteq stored'
    BY <1>1, <1>3
  <1> QED BY <1>1, <1>2, <1>4, <1>5, HistoryGrows

-----------------------------------------------------------------------------
(* Theorems about the conversation.                                        *)

LEMMA ViewStutters ==
  ASSUME IInv, UNCHANGED vars
  PROVE  IInv'
  <1>1. /\ UNCHANGED <<stored, inbox, requests, answers, open, ready, shown, seen, cursor, loading>>
        /\ UNCHANGED <<op, opKey, post, base, chain>>
    BY DEF vars, client, ops, ghosts
  <1>2. TypeOK'
    BY <1>1 DEF IInv, TypeOK
  <1>3. FlightFits' /\ OpeningOnce'
    BY <1>1, FewerInFlight, OpeningFewer DEF InFlight
  <1>4. AnswersFit' /\ PagesCover'
    BY <1>1, FewerAnswers
  <1>5. /\ OpenFits' /\ TwiceIsSeen' /\ SubmissionsFit'
        /\ LateAnswersIgnored' /\ NoSkip' /\ SubmissionsKept'
    BY <1>1, ScreenSame DEF ops
  <1>6. IsFiniteSet(stored)'
    BY <1>1 DEF IInv
  <1> QED BY <1>2, <1>3, <1>4, <1>5, <1>6 DEF IInv

LEMMA ViewStep == IInv /\ [Next]_vars => IInv'
  <1> SUFFICES ASSUME IInv, [Next]_vars
               PROVE  IInv'
    OBVIOUS
  <1>1. CASE \E r \in Rows : Arrive(r)
    BY <1>1, ArriveStep
  <1>2. CASE \E k \in Keys : OpenThread(k)
    BY <1>2, OpenThreadStep
  <1>3. CASE ChangeInbox \/ LoadOlder \/ RefreshTick \/ InboxTick
    BY <1>3, ChangeInboxStep, LoadOlderStep, TickStep
  <1>4. CASE Serve
    BY <1>4, ServeThreadStep, ServeInboxStep DEF Serve
  <1>5. CASE Answer
    BY <1>5, OpenAnswerStep, OlderAnswerStep, RefreshAnswerStep, InboxAnswerStep DEF Answer
  <1>6. CASE \E q \in requests \cup {a.q : a \in answers} : Lose(q)
    BY <1>6, LoseStep
  <1>7. ASSUME NEW o \in Submitted,
               \/ Send(o) \/ Retry(o) \/ ServeSms(o)
               \/ SmsAnswer(o) \/ SmsRefused(o) \/ SmsLost(o)
        PROVE  IInv'
    <2>1. CASE Send(o) \/ Retry(o) \/ ServeSms(o)
      BY <2>1, SendStep, RetryStep, ServeSmsStep
    <2>2. CASE SmsAnswer(o) \/ SmsRefused(o) \/ SmsLost(o)
      BY <2>2, SettleStep DEF SmsAnswer, SmsRefused, SmsLost
    <2> QED BY <1>7, <2>1, <2>2
  <1>8. CASE UNCHANGED vars
    BY <1>8, ViewStutters
  <1> QED BY <1>1, <1>2, <1>3, <1>4, <1>5, <1>6, <1>7, <1>8 DEF Next

\* The strengthened invariant of the screen, its requests and the history.
THEOREM ViewInvariance == Spec => []IInv
  BY ViewInit, ViewStep, PTL DEF Spec

\* Every variable of the screen, the server and what is in flight keeps its type; a
\* row is shown at most twice (mergeTimeline keys by id, the live tail by seenMsgIds).
THEOREM ViewTypes == Spec => []TypeOK
  BY ViewInvariance, PTL DEF IInv

\* Whatever answers come late, the screen shows the open conversation's rows only:
\* the `live` flags of the effects and loadOlder's check of the key suffice.
THEOREM OnlyTheOpenOne == Spec => []LateAnswersIgnored
  BY ViewInvariance, PTL DEF IInv

\* Paging skips nothing: for any rows, times they share and size of page, all the
\* opened conversation had down to the cursor is shown, while the pages follow on.
THEOREM PagesSkipNothing == Spec => []NoSkip
  BY ViewInvariance, PTL DEF IInv

\* A submission is shown whenever its conversation is open under its key, whatever
\* answers and refreshes do to the list meanwhile (message-send.ts).
THEOREM SubmissionsStay == Spec => []SubmissionsKept
  BY ViewInvariance, PTL DEF IInv

-----------------------------------------------------------------------------
(* Who may be reached: the pairs and rows of ContactGraph.                 *)

USE GraphConstants



\* A friendship is what both want, a request what its initiator wants.
FriendsAgreed ==
    /\ \A x, y \in Accounts : {x, y} \in friends => BothAgree(x, y)
    /\ asking \subseteq agreed

\* The same of the older graph.
LinkedVouched ==
    /\ \A a, b \in Agents : {a, b} \in linked => BothVouch(a, b)
    /\ sharing \subseteq vouched

\* A grant names an agent there was, and while it is there its link is open.
GrantsAreOpen ==
    \A g \in grants : /\ g[1] \in agents \cup removed
                      /\ g[1] \in agents => g[1] \in openLink

GraphInv == GraphTypeOK /\ FriendsAgreed /\ LinkedVouched /\ GrantsAreOpen /\ DeletedIsForgotten

-----------------------------------------------------------------------------
(* Which steps touch which table.                                          *)

LEMMA FriendshipSteps ==
  ASSUME [GraphNext]_graphVars
  PROVE  \/ UNCHANGED friendships
         \/ \E w \in waiting, a \in Agents : FriendRequest(w, a)
         \/ \E w \in waiting, y \in Accounts : AcceptFriend(w, y) \/ DropFriend(w, y)
         \/ \E x \in Accounts : DeleteAccount(x)
  BY DEF GraphNext, graphVars, AccountRoute, AgentRoute, OlderGraph,
         Authorised, Rejected,
         SetAutoAccept, Register, RevokeConnector, LinkAgent,
         Settings, AddContact,
         RemoveAgent, ShareContact, AcceptContact, DropContact

LEMMA ContactSteps ==
  ASSUME [GraphNext]_graphVars
  PROVE  \/ UNCHANGED contacts
         \/ \E p \in Pairs : OlderGraph(p[1], p[2])
         \/ \E x \in Accounts : DeleteAccount(x)
  BY DEF GraphNext, graphVars, AccountRoute, AgentRoute, Authorised,
         Rejected,
         SetAutoAccept, Register, RevokeConnector, LinkAgent,
         FriendRequest,
         AcceptFriend, DropFriend, Settings, AddContact, RemoveAgent

LEMMA AgentSteps ==
  ASSUME [GraphNext]_graphVars
  PROVE  \/ UNCHANGED <<rows, settings, grants>>
         \/ \E w \in waiting, on \in BOOLEAN : SetAutoAccept(w, on)
         \/ \E w \in waiting, a \in Agents : \/ Register(w, a) \/ RevokeConnector(w, a)
                                             \/ LinkAgent(w, a) \/ AddContact(w, a)
         \/ \E w \in waiting, o, l \in Toggle : Settings(w, o, l)
         \/ \E a \in Agents : RemoveAgent(a)
         \/ \E x \in Accounts : DeleteAccount(x)
  BY DEF GraphNext, graphVars, AccountRoute, AgentRoute, OlderGraph,
         Authorised, Rejected,
         FriendRequest, AcceptFriend, DropFriend, ShareContact,
         AcceptContact, DropContact

-----------------------------------------------------------------------------
(* Friendships.                                                            *)

LEMMA FriendsStep ==
  ASSUME GraphTypeOK, FriendsAgreed, [GraphNext]_graphVars
  PROVE  FriendsAgreed'
  <1>1. CASE UNCHANGED friendships
    BY <1>1 DEF friendships, FriendsAgreed, BothAgree
  <1>2. ASSUME NEW w \in waiting, NEW a \in Agents, FriendRequest(w, a)
        PROVE  FriendsAgreed'
    <2> DEFINE x == w.account
               y == Owner[a]
    <2>1. /\ x \in Accounts /\ y \in Accounts
          /\ agreed' = Asked(x, y)
          /\ \/ UNCHANGED <<asking, friends>>
             \/ /\ Mutual(x, y)
                /\ asking' = asking \ {<<x, y>>, <<y, x>>}
                /\ friends' = friends \cup {{x, y}}
             \/ asking' = asking \cup {<<x, y>>} /\ UNCHANGED friends
      BY <1>2 DEF FriendRequest, GraphTypeOK, Request
    <2>2. agreed \subseteq agreed' /\ <<x, y>> \in agreed'
      BY <2>1 DEF Asked
    <2>3. Mutual(x, y) => <<y, x>> \in agreed'
      BY <2>1 DEF Asked, Mutual, FriendsAgreed
    <2> HIDE DEF x, y
    <2> QED BY <2>1, <2>2, <2>3 DEF FriendsAgreed, BothAgree
  <1>3. ASSUME NEW w \in waiting, NEW y \in Accounts, AcceptFriend(w, y)
        PROVE  FriendsAgreed'
    BY <1>3 DEF AcceptFriend, FriendsAgreed, BothAgree, GraphTypeOK, Request
  <1>4. ASSUME NEW w \in waiting, NEW y \in Accounts, DropFriend(w, y)
        PROVE  FriendsAgreed'
    BY <1>4 DEF DropFriend, FriendsAgreed, BothAgree, GraphTypeOK, Request
  <1>5. ASSUME NEW x \in Accounts, DeleteAccount(x)
        PROVE  FriendsAgreed'
    BY <1>5 DEF DeleteAccount, Without, CouplesWithout, FriendsAgreed,
       BothAgree, GraphTypeOK
  <1> QED BY <1>1, <1>2, <1>3, <1>4, <1>5, FriendshipSteps

(* The older graph.                                                        *)

LEMMA ContactsStep ==
  ASSUME GraphTypeOK, LinkedVouched, [GraphNext]_graphVars
  PROVE  LinkedVouched'
  <1>1. CASE UNCHANGED contacts
    BY <1>1 DEF contacts, LinkedVouched, BothVouch
  <1>2. ASSUME NEW a \in Agents, NEW b \in Agents, ShareContact(a, b)
        PROVE  LinkedVouched'
    BY <1>2 DEF ShareContact, LinkedVouched, BothVouch, GraphTypeOK
  <1>3. ASSUME NEW a \in Agents, NEW b \in Agents, AcceptContact(a, b)
        PROVE  LinkedVouched'
    BY <1>3 DEF AcceptContact, LinkedVouched, BothVouch, GraphTypeOK
  <1>4. ASSUME NEW a \in Agents, NEW b \in Agents, DropContact(a, b)
        PROVE  LinkedVouched'
    BY <1>4 DEF DropContact, LinkedVouched, BothVouch, GraphTypeOK
  <1>5. ASSUME NEW x \in Accounts, DeleteAccount(x)
        PROVE  LinkedVouched'
    BY <1>5 DEF DeleteAccount, Without, CouplesWithout, LinkedVouched,
       BothVouch, GraphTypeOK
  <1>6. \A p \in Pairs : p[1] \in Agents /\ p[2] \in Agents
    OBVIOUS
  <1> QED BY <1>1, <1>2, <1>3, <1>4, <1>5, <1>6, ContactSteps DEF OlderGraph

-----------------------------------------------------------------------------
(* Types, a lemma for each group of tables.                                *)

FriendshipTypes ==
    /\ asking \subseteq Accounts \X Accounts
    /\ friends \subseteq SUBSET Accounts
    /\ agreed \subseteq Accounts \X Accounts

ContactTypes ==
    /\ sharing \subseteq Agents \X Agents
    /\ linked \subseteq SUBSET Agents
    /\ vouched \subseteq Agents \X Agents

RowTypes ==
    /\ accounts \subseteq Accounts
    /\ agents \subseteq Agents
    /\ removed \subseteq Agents \ agents
    /\ auto \subseteq Accounts
    /\ openLink \subseteq agents
    /\ listed \subseteq agents
    /\ grants \subseteq Agents \X Accounts
    /\ tokens \subseteq Connectors

LEMMA Types ==
  GraphTypeOK <=> /\ enforced \in BOOLEAN /\ waiting \subseteq Request
             /\ FriendshipTypes /\ ContactTypes /\ RowTypes
  BY DEF GraphTypeOK, FriendshipTypes, ContactTypes, RowTypes

LEMMA FriendshipsTyped ==
  ASSUME GraphTypeOK, [GraphNext]_graphVars
  PROVE  FriendshipTypes'
  <1>1. CASE UNCHANGED friendships
    BY <1>1 DEF friendships, FriendshipTypes, GraphTypeOK
  <1>2. ASSUME NEW w \in waiting, NEW a \in Agents, FriendRequest(w, a)
        PROVE  FriendshipTypes'
    BY <1>2 DEF FriendRequest, Asked, FriendshipTypes, GraphTypeOK, Request
  <1>3. ASSUME NEW w \in waiting, NEW y \in Accounts, AcceptFriend(w, y) \/ DropFriend(w, y)
        PROVE  FriendshipTypes'
    BY <1>3 DEF AcceptFriend, DropFriend, FriendshipTypes, GraphTypeOK, Request
  <1>4. ASSUME NEW x \in Accounts, DeleteAccount(x)
        PROVE  FriendshipTypes'
    BY <1>4 DEF DeleteAccount, Without, CouplesWithout, FriendshipTypes,
       GraphTypeOK
  <1> QED BY <1>1, <1>2, <1>3, <1>4, FriendshipSteps

LEMMA ContactsTyped ==
  ASSUME GraphTypeOK, [GraphNext]_graphVars
  PROVE  ContactTypes'
  <1>1. CASE UNCHANGED contacts
    BY <1>1 DEF contacts, ContactTypes, GraphTypeOK
  <1>2. ASSUME NEW p \in Pairs, OlderGraph(p[1], p[2])
        PROVE  ContactTypes'
    BY <1>2 DEF OlderGraph, ShareContact, AcceptContact, DropContact,
       ContactTypes, GraphTypeOK
  <1>3. ASSUME NEW x \in Accounts, DeleteAccount(x)
        PROVE  ContactTypes'
    BY <1>3 DEF DeleteAccount, Without, CouplesWithout, ContactTypes, GraphTypeOK
  <1> QED BY <1>1, <1>2, <1>3, ContactSteps

LEMMA RowsTyped ==
  ASSUME GraphTypeOK, tokens \subseteq agents, [GraphNext]_graphVars
  PROVE  RowTypes'
  <1>1. CASE UNCHANGED <<rows, settings, grants>>
    BY <1>1 DEF rows, settings, RowTypes, GraphTypeOK
  <1>2. ASSUME NEW w \in waiting, NEW on \in BOOLEAN, SetAutoAccept(w, on)
        PROVE  RowTypes'
    BY <1>2 DEF SetAutoAccept, rows, RowTypes, GraphTypeOK
  <1>3. ASSUME NEW w \in waiting, NEW a \in Agents, Register(w, a)
        PROVE  RowTypes'
    BY <1>3 DEF Register, RowTypes, GraphTypeOK
  <1>4. ASSUME NEW w \in waiting, NEW a \in Agents, RevokeConnector(w, a)
        PROVE  RowTypes'
    BY <1>4 DEF RevokeConnector, Removed, TokensWithout, RowTypes, GraphTypeOK
  <1>5. ASSUME NEW w \in waiting, NEW a \in Agents, LinkAgent(w, a) \/ AddContact(w, a)
        PROVE  RowTypes'
    BY <1>5 DEF LinkAgent, AddContact, WithGrant, rows, settings,
       RowTypes, GraphTypeOK, Request
  <1>6. ASSUME NEW w \in waiting, NEW o \in Toggle, NEW l \in Toggle, Settings(w, o, l)
        PROVE  RowTypes'
    BY <1>6 DEF Settings, Toggled, GrantsAfter, rows, RowTypes, GraphTypeOK
  <1>7. ASSUME NEW a \in Agents, RemoveAgent(a)
        PROVE  RowTypes'
    BY <1>7 DEF RemoveAgent, Removed, TokensWithout, RowTypes, GraphTypeOK
  <1>8. ASSUME NEW x \in Accounts, DeleteAccount(x)
        PROVE  RowTypes'
    BY <1>8 DEF DeleteAccount, Removed, TokensWithout, RowTypes, GraphTypeOK
  <1> QED BY <1>1, <1>2, <1>3, <1>4, <1>5, <1>6, <1>7, <1>8, AgentSteps

LEMMA RequestsTyped ==
  ASSUME GraphTypeOK, [GraphNext]_graphVars
  PROVE  enforced' = enforced /\ waiting' \subseteq Request
  <1>1. enforced' = enforced
    BY DEF GraphNext, graphVars, AccountRoute, AgentRoute, OlderGraph,
           Authorised, Rejected,
           SetAutoAccept, Register, RevokeConnector, LinkAgent,
           FriendRequest, AcceptFriend,
           DropFriend, Settings, AddContact, RemoveAgent,
           ShareContact, AcceptContact,
           DropContact, DeleteAccount
  <1>2. \/ waiting' \subseteq waiting
        \/ \E x \in Accounts, a \in Agents \cup {NoAgent} : Authorised(x, a)
    BY DEF GraphNext, graphVars, AccountRoute, AgentRoute, OlderGraph,
           Rejected, Resumes, ForAccount,
           ForAgent, SetAutoAccept, Register, RevokeConnector,
           LinkAgent, FriendRequest,
           AcceptFriend, DropFriend, Settings, AddContact,
           RemoveAgent, ShareContact,
           AcceptContact, DropContact, DeleteAccount
  <1> QED BY <1>1, <1>2 DEF Authorised, GraphTypeOK, Request

-----------------------------------------------------------------------------
(* Grants and what is forgotten.                                           *)

LEMMA GrantsStep ==
  ASSUME GraphTypeOK, GrantsAreOpen, [GraphNext]_graphVars
  PROVE  GrantsAreOpen'
  <1>1. CASE UNCHANGED <<rows, settings, grants>>
    BY <1>1 DEF rows, settings, GrantsAreOpen
  <1>2. ASSUME NEW w \in waiting, NEW on \in BOOLEAN, SetAutoAccept(w, on)
        PROVE  GrantsAreOpen'
    BY <1>2 DEF SetAutoAccept, rows, GrantsAreOpen
  <1>3. ASSUME NEW w \in waiting, NEW a \in Agents, Register(w, a)
        PROVE  GrantsAreOpen'
    BY <1>3 DEF Register, GrantsAreOpen, GraphTypeOK
  <1>4. ASSUME NEW w \in waiting, NEW a \in Agents, RevokeConnector(w, a)
        PROVE  GrantsAreOpen'
    BY <1>4 DEF RevokeConnector, Removed, GrantsAreOpen, GraphTypeOK
  <1>5. ASSUME NEW w \in waiting, NEW a \in Agents, LinkAgent(w, a)
        PROVE  GrantsAreOpen'
    BY <1>5 DEF LinkAgent, WithGrant, rows, settings, GrantsAreOpen,
       GraphTypeOK
  <1>6. ASSUME NEW w \in waiting, NEW a \in Agents, AddContact(w, a)
        PROVE  GrantsAreOpen'
    BY <1>6 DEF AddContact, WithGrant, rows, settings, GrantsAreOpen,
       GraphTypeOK
  <1>7. ASSUME NEW w \in waiting, NEW o \in Toggle, NEW l \in Toggle, Settings(w, o, l)
        PROVE  GrantsAreOpen'
    BY <1>7 DEF Settings, Toggled, GrantsAfter, rows, GrantsAreOpen,
       GraphTypeOK, Toggle
  <1>8. ASSUME NEW a \in Agents, RemoveAgent(a)
        PROVE  GrantsAreOpen'
    BY <1>8 DEF RemoveAgent, Removed, GrantsAreOpen, GraphTypeOK
  <1>9. ASSUME NEW x \in Accounts, DeleteAccount(x)
        PROVE  GrantsAreOpen'
    BY <1>9 DEF DeleteAccount, Removed, GrantsAreOpen, GraphTypeOK
  <1> QED BY <1>1, <1>2, <1>3, <1>4, <1>5, <1>6, <1>7, <1>8, <1>9, AgentSteps

\* The part of DeletedIsForgotten that is about rows and grants.
RowsForgotten ==
    /\ tokens \subseteq agents
    /\ enforced =>
        /\ \A a \in agents : Owner[a] \in accounts
        /\ \A g \in grants : g[1] \in agents /\ g[2] \in accounts

LEMMA RowsStep ==
  ASSUME GraphTypeOK, RowsForgotten, [GraphNext]_graphVars
  PROVE  RowsForgotten'
  <1>0. enforced' = enforced
    BY RequestsTyped
  <1>1. CASE UNCHANGED <<rows, settings, grants>>
    BY <1>0, <1>1 DEF rows, RowsForgotten
  <1>2. ASSUME NEW w \in waiting, NEW on \in BOOLEAN, SetAutoAccept(w, on)
        PROVE  RowsForgotten'
    BY <1>2 DEF SetAutoAccept, rows, RowsForgotten
  <1>3. ASSUME NEW w \in waiting, NEW a \in Agents, Register(w, a)
        PROVE  RowsForgotten'
    BY <1>3 DEF Register, Accepts, RowsForgotten, GraphTypeOK
  <1>4. ASSUME NEW w \in waiting, NEW a \in Agents, RevokeConnector(w, a)
        PROVE  RowsForgotten'
    BY <1>4 DEF RevokeConnector, Removed, TokensWithout, RowsForgotten,
       GraphTypeOK
  <1>5. ASSUME NEW w \in waiting, NEW a \in Agents, LinkAgent(w, a) \/ AddContact(w, a)
        PROVE  RowsForgotten'
    BY <1>5 DEF LinkAgent, AddContact, WithGrant, Accepts, rows,
       RowsForgotten, GraphTypeOK
  <1>6. ASSUME NEW w \in waiting, NEW o \in Toggle, NEW l \in Toggle, Settings(w, o, l)
        PROVE  RowsForgotten'
    BY <1>6 DEF Settings, GrantsAfter, rows, RowsForgotten, GraphTypeOK
  <1>7. ASSUME NEW a \in Agents, RemoveAgent(a)
        PROVE  RowsForgotten'
    BY <1>7 DEF RemoveAgent, Removed, TokensWithout, RowsForgotten, GraphTypeOK
  <1>8. ASSUME NEW x \in Accounts, DeleteAccount(x)
        PROVE  RowsForgotten'
    BY <1>8 DEF DeleteAccount, Removed, TokensWithout, RowsForgotten, GraphTypeOK
  <1> QED BY <1>1, <1>2, <1>3, <1>4, <1>5, <1>6, <1>7, <1>8, AgentSteps

AnswerersLive == enforced => \A p \in asking : p[2] \in accounts

LEMMA AccountsStay ==
  ASSUME [GraphNext]_graphVars
  PROVE  accounts' = accounts \/ \E x \in Accounts : DeleteAccount(x)
  BY DEF GraphNext, graphVars, rows, AccountRoute, AgentRoute,
         OlderGraph, Authorised, Rejected,
         SetAutoAccept, Register, RevokeConnector, LinkAgent,
         FriendRequest, AcceptFriend,
         DropFriend, Settings, AddContact, RemoveAgent, ShareContact,
         AcceptContact,
         DropContact

LEMMA AnswerersStep ==
  ASSUME GraphTypeOK, RowsForgotten, AnswerersLive, [GraphNext]_graphVars
  PROVE  AnswerersLive'
  <1>0. enforced' = enforced
    BY RequestsTyped
  <1>1. ASSUME NEW x \in Accounts, DeleteAccount(x)
        PROVE  AnswerersLive'
    BY <1>0, <1>1 DEF DeleteAccount, Without, AnswerersLive, GraphTypeOK
  <1>2. ASSUME accounts' = accounts, UNCHANGED friendships
        PROVE  AnswerersLive'
    BY <1>0, <1>2 DEF friendships, AnswerersLive
  <1>3. ASSUME accounts' = accounts, NEW w \in waiting, NEW a \in Agents, FriendRequest(w, a)
        PROVE  AnswerersLive'
    BY <1>0, <1>3 DEF FriendRequest, AnswerersLive, RowsForgotten, GraphTypeOK, Request
  <1>4. ASSUME accounts' = accounts, NEW w \in waiting, NEW y \in Accounts,
               AcceptFriend(w, y) \/ DropFriend(w, y)
        PROVE  AnswerersLive'
    BY <1>0, <1>4 DEF AcceptFriend, DropFriend, AnswerersLive
  <1> QED BY <1>1, <1>2, <1>3, <1>4, AccountsStay, FriendshipSteps

-----------------------------------------------------------------------------
(* Theorems.                                                               *)

\* The inductive invariant holds in every state.
THEOREM GraphInvariance == GraphSpec => []GraphInv
  <1>1. DeletedIsForgotten <=> RowsForgotten /\ AnswerersLive
    BY DEF DeletedIsForgotten, RowsForgotten, AnswerersLive
  <1>2. GraphInit => GraphInv
    BY DEF GraphInit, GraphInv, GraphTypeOK, FriendsAgreed, LinkedVouched, GrantsAreOpen,
           DeletedIsForgotten
  <1>3. GraphInv /\ [GraphNext]_graphVars => GraphInv'
    <2> SUFFICES ASSUME GraphInv, [GraphNext]_graphVars PROVE GraphInv'
      OBVIOUS
    <2>1. /\ FriendsAgreed' /\ LinkedVouched' /\ GrantsAreOpen'
      BY FriendsStep, ContactsStep, GrantsStep DEF GraphInv
    <2>2. RowsForgotten' /\ AnswerersLive'
      BY <1>1, RowsStep, AnswerersStep DEF GraphInv
    <2>3. DeletedIsForgotten'
      BY <2>2 DEF DeletedIsForgotten, RowsForgotten, AnswerersLive
    <2>4. FriendshipTypes' /\ ContactTypes' /\ RowTypes'
      BY <1>1, FriendshipsTyped, ContactsTyped, RowsTyped DEF GraphInv, RowsForgotten
    <2>5. enforced' \in BOOLEAN /\ waiting' \subseteq Request
      BY RequestsTyped DEF GraphInv, GraphTypeOK
    <2>6. GraphTypeOK'
      BY <2>4, <2>5 DEF GraphTypeOK, FriendshipTypes, ContactTypes, RowTypes
    <2> QED BY <2>1, <2>3, <2>6 DEF GraphInv
  <1> QED BY <1>2, <1>3, PTL DEF GraphSpec

\* Every table has its type.
THEOREM GraphTypes == GraphSpec => []GraphTypeOK
  <1>1. GraphInv => GraphTypeOK
    BY DEF GraphInv
  <1> QED BY <1>1, GraphInvariance, PTL

\* Whoever is reachable from another account has agreed to it, whatever
\* crosses, is late or is deleted in between.
THEOREM ReachIsConsented == GraphSpec => []ReachIsAgreed
  <1>1. GraphInv => ReachIsAgreed
    BY DEF GraphInv, ReachIsAgreed, AreLinked, SameAccount, Befriended,
           AreAccountsLinked,
           Granted, FriendsAgreed, LinkedVouched, GrantsAreOpen, GraphTypeOK
  <1> QED BY <1>1, GraphInvariance, PTL

\* The list of contacts and the gate of sending agree in every state.
THEOREM ListAndGateAgree == GraphSpec => []ListedIsReachable
  <1>1. GraphTypeOK => ListedIsReachable
    BY DEF GraphTypeOK, ListedIsReachable, DerivedContactsOf, AreLinked,
           SameAccount, Befriended,
           Granted
  <1> QED BY <1>1, GraphTypes, PTL

\* What is removed or deleted leaves nothing that lets anybody act or reach.
THEOREM DeletedStaysDeleted == GraphSpec => []DeletedIsForgotten
  <1>1. GraphInv => DeletedIsForgotten
    BY DEF GraphInv
  <1> QED BY <1>1, GraphInvariance, PTL
=============================================================================
