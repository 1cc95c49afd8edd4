------------------------- MODULE HistorySyncProofs -------------------------
(***************************************************************************)
(* Theorems about HistorySync, for any records, batch and page sizes and   *)
(* bounds: the mirror has whatever is recorded as pushed, no replica takes *)
(* back a receipt or an outcome, no read falls behind the cursor of reads, *)
(* and the pull cursor passes nothing the machine has not imported.        *)
(***************************************************************************)
EXTENDS HistorySync, FiniteSetTheorems, WellFoundedInduction, TLAPS

USE RecordsAssumption, BoundsAssumption

MaybeRow == Row \cup {Absent}

-----------------------------------------------------------------------------
(* Rows.                                                                   *)

LEMMA RowFields ==
  ASSUME NEW x \in MaybeRow
  PROVE  /\ x.agent \in Idents /\ x.read \in Times /\ x.seen \in Times
         /\ x # Absent <=> x \in Row
         /\ x \in Row => x.state \in Phases
         /\ x = Absent => x.read = 0 /\ x.seen = 0 /\ x.state = "absent"
  <1>1. CASE x = Absent
    <2>1. Absent \notin Row
      BY DEF Absent, Row, Phases
    <2>2. Absent.agent = 0 /\ Absent.read = 0 /\ Absent.seen = 0 /\ Absent.state = "absent"
      BY DEF Absent
    <2> QED BY <1>1, <2>1, <2>2 DEF Idents, Times
  <1>2. CASE x # Absent
    BY <1>2 DEF MaybeRow, Row
  <1> QED BY <1>1, <1>2

LEMMA MergeFields ==
  ASSUME NEW x \in MaybeRow, NEW y
  PROVE  /\ Merge(x, y).agent = x.agent
         /\ Merge(x, y).read = First(x.read, y.read)
         /\ Merge(x, y).seen = First(x.seen, y.seen)
         /\ Merge(x, y).state =
              IF ~Terminal(x.state) /\ (Terminal(y.state) \/ y.state = "active")
              THEN y.state ELSE x.state
         /\ Merge(x, y) = x <=> /\ First(x.read, y.read) = x.read
                                /\ First(x.seen, y.seen) = x.seen
                                /\ ~Terminal(x.state) /\ (Terminal(y.state) \/ y.state = "active")
                                   => y.state = x.state
  BY DEF Merge, MaybeRow, Row, Absent

LEMMA MergeRow ==
  ASSUME NEW x \in Row, NEW y \in Row
  PROVE  Merge(x, y) \in Row
  BY DEF Merge, Row, First, Times

\* First is the minimum of the times that are there.
LEMMA FirstFacts ==
  ASSUME NEW a \in Nat, NEW b \in Nat
  PROVE  /\ First(a, b) \in {a, b}
         /\ a # 0 => First(a, b) \in 1 .. a
         /\ First(First(a, b), b) = First(a, b)
         /\ \A c \in Nat : First(a, c) = a => First(First(a, b), c) = First(a, b)
         /\ \A c \in Nat : First(0, c) = 0 => c = 0
         /\ First(a, 0) = a
  BY DEF First

LEMMA TimesAreNat == Times \subseteq Nat /\ Idents \subseteq Nat
  BY DEF Times, Idents

\* A row merged in is absorbed from then on, with whatever was before.
LEMMA MergeAbsorbs ==
  ASSUME NEW x \in Row, NEW y \in Row
  PROVE  /\ Absorbed(Merge(x, y), y)
         /\ Absorbed(x, x)
         /\ \A z \in Row : Absorbed(x, z) => Absorbed(Merge(x, y), z)
  <1>1. /\ x \in MaybeRow /\ Merge(x, y) \in Row /\ Merge(x, y) \in MaybeRow
        /\ Merge(x, y) # Absent /\ x # Absent
    BY MergeRow, RowFields DEF MaybeRow
  <1>2. x.read \in Nat /\ x.seen \in Nat /\ y.read \in Nat /\ y.seen \in Nat
    BY <1>1, RowFields, TimesAreNat DEF MaybeRow
  <1>3. Absorbed(Merge(x, y), y)
    BY <1>1, <1>2, MergeFields, FirstFacts DEF Absorbed
  <1>4. Absorbed(x, x)
    BY <1>1, <1>2, MergeFields DEF Absorbed, First
  <1>5. ASSUME NEW z \in Row, Absorbed(x, z)
        PROVE  Absorbed(Merge(x, y), z)
    <2>1. z.read \in Nat /\ z.seen \in Nat
      BY RowFields, TimesAreNat DEF MaybeRow
    <2>2. /\ First(x.read, z.read) = x.read /\ First(x.seen, z.seen) = x.seen
          /\ ~Terminal(x.state) /\ (Terminal(z.state) \/ z.state = "active") => z.state = x.state
      BY <1>1, <1>5, MergeFields DEF Absorbed
    <2>3. First(First(x.read, y.read), z.read) = First(x.read, y.read)
          /\ First(First(x.seen, y.seen), z.seen) = First(x.seen, y.seen)
      BY <1>2, <2>1, <2>2, FirstFacts
    <2> DEFINE w == Merge(x, y)
    <2>4. ~Terminal(w.state) /\ (Terminal(z.state) \/ z.state = "active") => z.state = w.state
      BY <1>1, <2>2, MergeFields DEF Terminal
    <2> QED BY <1>1, <2>3, <2>4, MergeFields DEF Absorbed
  <1> QED BY <1>3, <1>4, <1>5

\* A mark set where there was none takes nothing from what is absorbed.
LEMMA MarkAbsorbs ==
  ASSUME NEW x \in Row, NEW z \in Row, Absorbed(x, z), NEW t \in Times
  PROVE  /\ x.read = 0 => Absorbed([x EXCEPT !.read = t], z)
         /\ x.seen = 0 => Absorbed([x EXCEPT !.seen = t], z)
  <1>1. x \in MaybeRow /\ z.read \in Nat /\ z.seen \in Nat /\ x.read \in Nat /\ x.seen \in Nat
    BY RowFields, TimesAreNat DEF MaybeRow
  <1>2. /\ First(x.read, z.read) = x.read /\ First(x.seen, z.seen) = x.seen
        /\ ~Terminal(x.state) /\ (Terminal(z.state) \/ z.state = "active") => z.state = x.state
    BY <1>1, MergeFields DEF Absorbed
  <1>3. ASSUME x.read = 0
        PROVE  Absorbed([x EXCEPT !.read = t], z)
    <2> DEFINE w == [x EXCEPT !.read = t]
    <2>1. w \in Row /\ w.read = t /\ w.seen = x.seen /\ w.state = x.state
      BY DEF Row
    <2>2. z.read = 0
      BY <1>1, <1>2, <1>3, FirstFacts
    <2>3. First(t, 0) = t
      BY FirstFacts, TimesAreNat
    <2> HIDE DEF w
    <2>4. w \in MaybeRow /\ w # Absent
      BY <2>1, RowFields DEF MaybeRow
    <2>5. Absorbed(w, z)
      BY <1>2, <2>1, <2>2, <2>3, <2>4, MergeFields DEF Absorbed
    <2> QED BY <2>5 DEF w
  <1>4. ASSUME x.seen = 0
        PROVE  Absorbed([x EXCEPT !.seen = t], z)
    <2> DEFINE w == [x EXCEPT !.seen = t]
    <2>1. w \in Row /\ w.seen = t /\ w.read = x.read /\ w.state = x.state
      BY DEF Row
    <2>2. z.seen = 0
      BY <1>1, <1>2, <1>4, FirstFacts
    <2>3. First(t, 0) = t
      BY FirstFacts, TimesAreNat
    <2> HIDE DEF w
    <2>4. w \in MaybeRow /\ w # Absent
      BY <2>1, RowFields DEF MaybeRow
    <2>5. Absorbed(w, z)
      BY <1>2, <2>1, <2>2, <2>3, <2>4, MergeFields DEF Absorbed
    <2> QED BY <2>5 DEF w
  <1> QED BY <1>3, <1>4

-----------------------------------------------------------------------------
(* The platform's change log.                                              *)

\* A set of numbers with a bound has a greatest one, which Max returns.
LEMMA GreatestExists ==
  ASSUME NEW n \in Nat, NEW S \in SUBSET (0 .. n), S # {}
  PROVE  Max(S) \in S
  <1> DEFINE T == {k \in Nat : \A x \in S : x <= k}
  <1>1. n \in T /\ T \subseteq Nat /\ T # {}
    OBVIOUS
  <1>2. \E k \in T : \A j \in T : ~(<<j, k>> \in OpToRel(<, Nat))
    BY <1>1, NatLessThanWellFounded, WFMin
  <1>3. PICK k \in T : \A j \in T : ~(j < k)
    BY <1>2 DEF OpToRel
  <1>4. k \in S
    <2>0. k \in Nat /\ \A x \in S : x <= k
      OBVIOUS
    <2>1. CASE k = 0
      <3>1. PICK x \in S : TRUE
        OBVIOUS
      <3>2. x \in 0 .. n /\ x <= 0
        BY <2>0, <2>1
      <3> QED BY <2>1, <3>2
    <2>2. CASE k # 0
      <3>1. k - 1 \in Nat /\ k - 1 < k
        BY <2>2
      <3>2. k - 1 \notin T
        BY <1>3, <3>1
      <3>3. PICK x \in S : ~(x <= k - 1)
        BY <3>1, <3>2
      <3>4. x \in 0 .. n /\ x <= k
        BY <2>0
      <3> QED BY <2>0, <3>3, <3>4
    <2> QED BY <2>1, <2>2
  <1>5. \E x \in S : \A y \in S : x >= y
    BY <1>4
  <1> QED BY <1>5 DEF Max

LEMMA WriteFacts ==
  ASSUME TypeOK, NEW rows, DOMAIN rows \subseteq Sources \X Records,
         \A w \in DOMAIN rows : rows[w] \in Row, Write(rows)
  PROVE  /\ store' \in [Sources -> [Records -> MaybeRow]]
         /\ changes' \in [Sources -> [Records -> 0 .. revision']]
         /\ revision' \in Nat /\ revision <= revision'
         /\ \A s \in Sources, r \in Records :
              store'[s][r] = IF <<s, r>> \in DOMAIN rows THEN rows[<<s, r>>] ELSE store[s][r]
         /\ Revised => Revised'
  <1>1. IsFiniteSet(DOMAIN rows)
    <2>1. Sources = {"live"} \cup {"mirror"}
      BY DEF Sources
    <2>2. IsFiniteSet(Sources)
      BY <2>1, FS_Singleton, FS_Union
    <2>3. IsFiniteSet(Sources \X Records)
      BY <2>2, FS_Product
    <2> QED BY <2>3, FS_Subset
  <1>2. Cardinality(DOMAIN rows) \in Nat
    BY <1>1, FS_CardinalityType
  <1>3. revision' = revision + Cardinality(DOMAIN rows) /\ revision \in Nat
    BY DEF Write, TypeOK
  <1>4. revision' \in Nat /\ revision <= revision'
    BY <1>2, <1>3
  <1>5. \A s \in Sources, r \in Records :
              store'[s][r] = IF <<s, r>> \in DOMAIN rows THEN rows[<<s, r>>] ELSE store[s][r]
    BY DEF Write
  <1>6. store' \in [Sources -> [Records -> MaybeRow]]
    <2>1. store' = [s \in Sources |-> [r \in Records |->
                 IF <<s, r>> \in DOMAIN rows THEN rows[<<s, r>>] ELSE store[s][r]]]
      BY DEF Write
    <2>2. ASSUME NEW s \in Sources, NEW r \in Records
          PROVE  (IF <<s, r>> \in DOMAIN rows THEN rows[<<s, r>>] ELSE store[s][r]) \in MaybeRow
      BY DEF TypeOK, MaybeRow
    <2> QED BY <2>1, <2>2
  <1>7. PICK order \in [DOMAIN rows -> revision + 1 .. revision + Cardinality(DOMAIN rows)] :
          changes' = [s \in Sources |-> [r \in Records |->
                        IF <<s, r>> \in DOMAIN rows THEN order[<<s, r>>] ELSE changes[s][r]]]
    BY DEF Write
  <1>8. changes' \in [Sources -> [Records -> 0 .. revision']]
    <2>1. ASSUME NEW s \in Sources, NEW r \in Records
          PROVE  (IF <<s, r>> \in DOMAIN rows THEN order[<<s, r>>] ELSE changes[s][r]) \in 0 .. revision'
      <3>1. CASE <<s, r>> \in DOMAIN rows
        <4>1. order[<<s, r>>] \in revision + 1 .. revision'
          BY <1>3, <1>7, <3>1
        <4> QED BY <4>1, <1>3, <1>4, <3>1
      <3>2. CASE <<s, r>> \notin DOMAIN rows
        <4>1. changes[s][r] \in 0 .. revision
          BY DEF TypeOK
        <4> QED BY <4>1, <1>3, <1>4, <3>2
      <3> QED BY <3>1, <3>2
    <2> QED BY <1>7, <2>1
  <1>9. ASSUME Revised, NEW s \in Sources, NEW r \in Records, changes'[s][r] # 0
        PROVE  store'[s][r] # Absent
    <2>1. CASE <<s, r>> \in DOMAIN rows
      BY <1>5, <2>1, RowFields DEF MaybeRow
    <2>2. CASE <<s, r>> \notin DOMAIN rows
      BY <1>5, <1>7, <1>9, <2>2 DEF Revised
    <2> QED BY <2>1, <2>2
  <1> QED BY <1>4, <1>5, <1>6, <1>8, <1>9 DEF Revised

-----------------------------------------------------------------------------
(* What no step takes back.                                                *)

Grows(old, new) ==
  old # Absent =>
    /\ old.read # 0 => new.read \in 1 .. old.read
    /\ old.seen # 0 => new.seen \in 1 .. old.seen
    /\ Terminal(old.state) => new.state = old.state

NothingBack ==
  \A r \in Records : /\ Grows(local[r], local'[r])
                     /\ \A s \in Sources : Grows(store[s][r], store'[s][r])

MirrorGrows ==
  \A r \in Records, z \in Row : Absorbed(store["mirror"][r], z) => Absorbed(store'["mirror"][r], z)

LEMMA SameGrows ==
  ASSUME NEW x \in MaybeRow
  PROVE  Grows(x, x)
  <1>1. x.read \in Nat /\ x.seen \in Nat
    BY RowFields, TimesAreNat
  <1> QED BY <1>1 DEF Grows

LEMMA MergeGrows ==
  ASSUME NEW x \in MaybeRow, NEW y \in Row
  PROVE  Grows(x, Merge(x, y))
  <1>1. x.read \in Nat /\ x.seen \in Nat /\ y.read \in Nat /\ y.seen \in Nat
    BY RowFields, TimesAreNat DEF MaybeRow
  <1>2. x.read # 0 => First(x.read, y.read) \in 1 .. x.read
    BY <1>1, FirstFacts
  <1>3. x.seen # 0 => First(x.seen, y.seen) \in 1 .. x.seen
    BY <1>1, FirstFacts
  <1>4. /\ Merge(x, y).read = First(x.read, y.read) /\ Merge(x, y).seen = First(x.seen, y.seen)
        /\ Terminal(x.state) => Merge(x, y).state = x.state
    BY MergeFields
  <1> QED BY <1>2, <1>3, <1>4 DEF Grows

LEMMA MarkGrows ==
  ASSUME NEW x \in Row, NEW t \in Times \ {0}
  PROVE  /\ [x EXCEPT !.read = t] \in Row /\ [x EXCEPT !.seen = t] \in Row
         /\ x.read = 0 => Grows(x, [x EXCEPT !.read = t])
         /\ x.seen = 0 => Grows(x, [x EXCEPT !.seen = t])
         /\ Grows(x, [x EXCEPT !.agent = 0]) /\ [x EXCEPT !.agent = 0] \in Row
  <1>1. x.read \in Nat /\ x.seen \in Nat /\ t \in Nat /\ x \in MaybeRow
    BY RowFields, TimesAreNat DEF MaybeRow
  <1>2. [x EXCEPT !.read = t] \in Row /\ [x EXCEPT !.seen = t] \in Row /\ [x EXCEPT !.agent = 0] \in Row
    BY DEF Row, Idents
  <1>3. Grows(x, x)
    BY <1>1, SameGrows
  <1>4. x # Absent
    BY <1>1, RowFields
  <1> QED BY <1>1, <1>2, <1>3, <1>4 DEF Grows, Row

LEMMA PhaseGrows ==
  ASSUME NEW x \in Row, NEW state \in NextState(x.state)
  PROVE  [x EXCEPT !.state = state] \in Row /\ Grows(x, [x EXCEPT !.state = state])
  <1>1. state \in Phases /\ ~Terminal(x.state)
    BY DEF NextState, Phases, Terminal
  <1>2. x \in MaybeRow
    BY DEF MaybeRow
  <1>3. Grows(x, x) /\ x # Absent
    BY <1>2, SameGrows, RowFields
  <1> QED BY <1>1, <1>3 DEF Grows, Row

\* A write of rows that grow.
LEMMA WriteGrows ==
  ASSUME TypeOK, NEW rows, DOMAIN rows \subseteq Sources \X Records,
         \A w \in DOMAIN rows : rows[w] \in Row, Write(rows),
         \A w \in DOMAIN rows : Grows(store[w[1]][w[2]], rows[w]),
         \A w \in DOMAIN rows : w[1] = "mirror" =>
            \A z \in Row : Absorbed(store["mirror"][w[2]], z) => Absorbed(rows[w], z)
  PROVE  /\ \A r \in Records, s \in Sources : Grows(store[s][r], store'[s][r])
         /\ MirrorGrows
  <1>1. \A s \in Sources, r \in Records :
              store'[s][r] = IF <<s, r>> \in DOMAIN rows THEN rows[<<s, r>>] ELSE store[s][r]
    BY WriteFacts
  <1>2. ASSUME NEW r \in Records, NEW s \in Sources
        PROVE  Grows(store[s][r], store'[s][r])
    <2>1. CASE <<s, r>> \in DOMAIN rows
      <3>1. Grows(store[<<s, r>>[1]][<<s, r>>[2]], rows[<<s, r>>])
        BY <2>1
      <3> QED BY <1>1, <2>1, <3>1
    <2>2. CASE <<s, r>> \notin DOMAIN rows
      <3>1. store[s][r] \in MaybeRow
        BY DEF TypeOK, MaybeRow
      <3> QED BY <1>1, <2>2, <3>1, SameGrows
    <2> QED BY <2>1, <2>2
  <1>3. ASSUME NEW r \in Records, NEW z \in Row, Absorbed(store["mirror"][r], z)
        PROVE  Absorbed(store'["mirror"][r], z)
    <2>0. "mirror" \in Sources
      BY DEF Sources
    <2>1. CASE <<"mirror", r>> \in DOMAIN rows
      <3>1. <<"mirror", r>>[1] = "mirror" /\ <<"mirror", r>>[2] = r
        OBVIOUS
      <3>2. Absorbed(rows[<<"mirror", r>>], z)
        BY <1>3, <2>1, <3>1
      <3> QED BY <1>1, <2>0, <2>1, <3>2
    <2>2. CASE <<"mirror", r>> \notin DOMAIN rows
      BY <1>1, <1>3, <2>0, <2>2
    <2> QED BY <2>1, <2>2
  <1> QED BY <1>2, <1>3 DEF MirrorGrows

-----------------------------------------------------------------------------
(* The steps.                                                              *)

\* What a step owes, apart from the request it is about.
Typed ==
  /\ local' \in [Records -> MaybeRow]
  /\ store' \in [Sources -> [Records -> MaybeRow]]
  /\ changes' \in [Sources -> [Records -> 0 .. revision']]
  /\ revision' \in Nat /\ revision <= revision'
  /\ Revised'

\* Steps that leave the platform alone.
LEMMA PlatformRests ==
  ASSUME TypeOK, Revised, UNCHANGED platform
  PROVE  /\ store' \in [Sources -> [Records -> MaybeRow]]
         /\ changes' \in [Sources -> [Records -> 0 .. revision']]
         /\ revision' \in Nat /\ revision <= revision'
         /\ Revised' /\ MirrorGrows
         /\ \A r \in Records, s \in Sources : Grows(store[s][r], store'[s][r])
  <1>1. store' = store /\ changes' = changes /\ revision' = revision
    BY DEF platform
  <1>2. \A r \in Records, s \in Sources : Grows(store[s][r], store'[s][r])
    BY <1>1, SameGrows DEF TypeOK, MaybeRow
  <1> QED BY <1>1, <1>2 DEF TypeOK, Revised, MirrorGrows, MaybeRow

LEMMA LocalRests ==
  ASSUME TypeOK, local' = local
  PROVE  local' \in [Records -> MaybeRow] /\ \A r \in Records : Grows(local[r], local'[r])
  BY SameGrows DEF TypeOK, MaybeRow

\* The steps around the engine.
Around ==
  \E r \in Records :
       \/ LocalInsert(r) \/ LocalRead(r) \/ LocalAgentRead(r) \/ LocalCall(r)
       \/ LiveInsert(r) \/ PlatformRead(r) \/ PlatformCall(r)

LEMMA FreshRow ==
  ASSUME NEW r \in Records, NEW a \in Idents
  PROVE  Fresh(r, a) \in Row
  BY DEF Fresh, Row, Times, Phases

LEMMA LocalStep ==
  ASSUME TypeOK, Carried, Revised, NEW r \in Records,
         LocalInsert(r) \/ LocalRead(r) \/ LocalAgentRead(r) \/ LocalCall(r)
  PROVE  Typed /\ NothingBack /\ MirrorGrows
  <1>1. UNCHANGED platform
    BY DEF LocalInsert, LocalRead, LocalAgentRead, LocalCall
  <1>2. local \in [Records -> MaybeRow] /\ local[r] \in MaybeRow /\ now \in Times \ {0}
    BY DEF TypeOK, MaybeRow, Carried
  <1>3. ASSUME NEW y \in Row, local' = [local EXCEPT ![r] = y], Grows(local[r], y)
        PROVE  local' \in [Records -> MaybeRow] /\ \A q \in Records : Grows(local[q], local'[q])
    <2>1. local' \in [Records -> MaybeRow]
      BY <1>2, <1>3 DEF MaybeRow
    <2>2. ASSUME NEW q \in Records
          PROVE  Grows(local[q], local'[q])
      BY <1>2, <1>3, SameGrows
    <2> QED BY <2>1, <2>2
  <1>4. CASE LocalInsert(r)
    <2>1. Fresh(r, 0) \in Row /\ Grows(local[r], Fresh(r, 0))
      BY <1>4, FreshRow DEF LocalInsert, Grows, Idents
    <2>2. local' = [local EXCEPT ![r] = Fresh(r, 0)]
      BY <1>4 DEF LocalInsert
    <2>3. local' \in [Records -> MaybeRow] /\ \A q \in Records : Grows(local[q], local'[q])
      BY <1>3, <2>1, <2>2
    <2> QED BY <1>1, <2>3, PlatformRests DEF Typed, NothingBack
  <1>5. CASE LocalRead(r)
    <2>1. local[r] \in Row /\ local[r].read = 0 /\ local' = [local EXCEPT ![r] = [local[r] EXCEPT !.read = now]]
      BY <1>2, <1>5, RowFields DEF LocalRead
    <2>2. [local[r] EXCEPT !.read = now] \in Row /\ Grows(local[r], [local[r] EXCEPT !.read = now])
      BY <1>2, <2>1, MarkGrows
    <2>3. local' \in [Records -> MaybeRow] /\ \A q \in Records : Grows(local[q], local'[q])
      BY <1>3, <2>1, <2>2
    <2> QED BY <1>1, <2>3, PlatformRests DEF Typed, NothingBack
  <1>6. CASE LocalAgentRead(r)
    <2>1. local[r] \in Row /\ local[r].seen = 0 /\ local' = [local EXCEPT ![r] = [local[r] EXCEPT !.seen = now]]
      BY <1>2, <1>6, RowFields DEF LocalAgentRead
    <2>2. [local[r] EXCEPT !.seen = now] \in Row /\ Grows(local[r], [local[r] EXCEPT !.seen = now])
      BY <1>2, <2>1, MarkGrows
    <2>3. local' \in [Records -> MaybeRow] /\ \A q \in Records : Grows(local[q], local'[q])
      BY <1>3, <2>1, <2>2
    <2> QED BY <1>1, <2>3, PlatformRests DEF Typed, NothingBack
  <1>7. CASE LocalCall(r)
    <2>1. PICK state \in NextState(local[r].state) : local' = [local EXCEPT ![r].state = state]
      BY <1>7 DEF LocalCall
    <2>2. local[r] \in Row /\ local' = [local EXCEPT ![r] = [local[r] EXCEPT !.state = state]]
      BY <1>2, <1>7, <2>1, RowFields DEF LocalCall
    <2>3. [local[r] EXCEPT !.state = state] \in Row /\ Grows(local[r], [local[r] EXCEPT !.state = state])
      BY <2>1, <2>2, PhaseGrows
    <2>4. local' \in [Records -> MaybeRow] /\ \A q \in Records : Grows(local[q], local'[q])
      BY <1>3, <2>2, <2>3
    <2> QED BY <1>1, <2>4, PlatformRests DEF Typed, NothingBack
  <1> QED BY <1>4, <1>5, <1>6, <1>7

LEMMA LiveStep ==
  ASSUME TypeOK, Carried, Revised, NEW r \in Records,
         LiveInsert(r) \/ PlatformRead(r) \/ PlatformCall(r)
  PROVE  Typed /\ NothingBack /\ MirrorGrows
  <1>1. local' = local
    BY DEF LiveInsert, PlatformRead, PlatformCall
  <1>2. /\ store \in [Sources -> [Records -> MaybeRow]]
        /\ now \in Times \ {0} /\ ident \in Idents
        /\ "live" \in Sources /\ "mirror" \in Sources
    BY DEF TypeOK, MaybeRow, Carried, Sources, Idents
  <1>3. ASSUME NEW rows, DOMAIN rows \subseteq Sources \X Records,
               \A w \in DOMAIN rows : rows[w] \in Row, Write(rows),
               \A w \in DOMAIN rows : Grows(store[w[1]][w[2]], rows[w]),
               \A w \in DOMAIN rows : w[1] = "mirror" =>
                  \A z \in Row : Absorbed(store["mirror"][w[2]], z) => Absorbed(rows[w], z)
        PROVE  Typed /\ NothingBack /\ MirrorGrows
    <2>1. /\ store' \in [Sources -> [Records -> MaybeRow]]
          /\ changes' \in [Sources -> [Records -> 0 .. revision']]
          /\ revision' \in Nat /\ revision <= revision' /\ Revised'
      BY <1>3, WriteFacts
    <2>2. (\A q \in Records, s \in Sources : Grows(store[s][q], store'[s][q])) /\ MirrorGrows
      BY <1>3, WriteGrows
    <2> QED BY <1>1, <2>1, <2>2, LocalRests DEF Typed, NothingBack
  <1>4. CASE LiveInsert(r)
    <2> DEFINE x == Fresh(r, IF r \in WithAgent THEN ident ELSE 0)
               rows == [w \in {<<"live", r>>} |-> x]
    <2>1. x \in Row
      BY <1>2, FreshRow DEF Idents
    <2>2. DOMAIN rows = {<<"live", r>>} /\ rows[<<"live", r>>] = x
      OBVIOUS
    <2>3. store["live"][r] = Absent /\ Write(rows)
      BY <1>4 DEF LiveInsert
    <2> HIDE DEF rows, x
    <2>4. <<"live", r>>[1] = "live" /\ <<"live", r>>[2] = r /\ "live" # "mirror"
      OBVIOUS
    <2>5. Grows(store["live"][r], x)
      BY <2>3 DEF Grows
    <2> QED BY <1>2, <1>3, <2>1, <2>2, <2>3, <2>4, <2>5
  <1>5. CASE PlatformCall(r)
    <2>1. PICK state \in NextState(store["live"][r].state) :
            Write([w \in {<<"live", r>>} |-> [store["live"][r] EXCEPT !.state = state]])
      BY <1>5 DEF PlatformCall
    <2> DEFINE x == [store["live"][r] EXCEPT !.state = state]
               rows == [w \in {<<"live", r>>} |-> x]
    <2>2. store["live"][r] \in Row
      <3>1. store["live"][r] \in MaybeRow
        BY <1>2
      <3> QED BY <1>5, <3>1, RowFields DEF PlatformCall
    <2>3. x \in Row /\ Grows(store["live"][r], x)
      BY <2>1, <2>2, PhaseGrows
    <2>4. DOMAIN rows = {<<"live", r>>} /\ rows[<<"live", r>>] = x
      OBVIOUS
    <2>5. Write(rows)
      BY <2>1
    <2> HIDE DEF rows, x
    <2>6. <<"live", r>>[1] = "live" /\ <<"live", r>>[2] = r /\ "live" # "mirror"
      OBVIOUS
    <2> QED BY <1>2, <1>3, <2>3, <2>4, <2>5, <2>6
  <1>6. CASE PlatformRead(r)
    <2> DEFINE unread == {s \in Sources : store[s][r] # Absent /\ store[s][r].read = 0}
               rows == [w \in unread \X {r} |-> [store[w[1]][r] EXCEPT !.read = now]]
    <2>1. Write(rows)
      BY <1>6 DEF PlatformRead
    <2>2. DOMAIN rows = unread \X {r} /\ DOMAIN rows \subseteq Sources \X Records
      OBVIOUS
    <2>3. ASSUME NEW w \in DOMAIN rows
          PROVE  /\ rows[w] \in Row /\ Grows(store[w[1]][w[2]], rows[w])
                 /\ \A z \in Row : Absorbed(store[w[1]][w[2]], z) => Absorbed(rows[w], z)
      <3>1. w[1] \in Sources /\ w[2] = r /\ store[w[1]][r] # Absent /\ store[w[1]][r].read = 0
            /\ rows[w] = [store[w[1]][r] EXCEPT !.read = now]
        BY <2>3
      <3>2. store[w[1]][r] \in MaybeRow
        BY <1>2, <3>1
      <3>3. store[w[1]][r] \in Row
        BY <3>1, <3>2, RowFields
      <3>4. store[w[1]][w[2]] = store[w[1]][r]
        BY <3>1
      <3> DEFINE x == store[w[1]][r]
                 y == [x EXCEPT !.read = now]
      <3>5. x \in Row /\ x.read = 0 /\ rows[w] = y /\ store[w[1]][w[2]] = x
        BY <3>1, <3>3, <3>4
      <3> HIDE DEF rows, unread, x
      <3>6. y \in Row /\ Grows(x, y)
        BY <1>2, <3>5, MarkGrows
      <3>7. ASSUME NEW z \in Row, Absorbed(x, z)
            PROVE  Absorbed(y, z)
        BY <1>2, <3>5, <3>7, MarkAbsorbs
      <3> HIDE DEF y
      <3> QED BY <3>5, <3>6, <3>7
    <2>4. ASSUME NEW w \in DOMAIN rows, w[1] = "mirror", NEW z \in Row, Absorbed(store["mirror"][w[2]], z)
          PROVE  Absorbed(rows[w], z)
      <3> HIDE DEF rows, unread
      <3>1. store[w[1]][w[2]] = store["mirror"][w[2]]
        BY <2>4
      <3> QED BY <2>3, <2>4, <3>1
    <2> HIDE DEF rows, unread
    <2> QED BY <1>3, <2>1, <2>2, <2>3, <2>4
  <1> QED BY <1>4, <1>5, <1>6

\* The exposures and the clock.
LEMMA OtherStep ==
  ASSUME TypeOK, Revised, Expose \/ Unexpose \/ Tick
  PROVE  Typed /\ NothingBack /\ MirrorGrows
  <1>1. local' = local /\ UNCHANGED platform
    BY DEF Expose, Unexpose, Tick
  <1> QED BY <1>1, PlatformRests, LocalRests DEF Typed, NothingBack

\* What an ingested batch does to the mirror.
LEMMA PostStep ==
  ASSUME TypeOK, Carried, Revised, Post
  PROVE  /\ Typed /\ NothingBack /\ MirrorGrows
         /\ PostedIsMirrored'
  <1>1. local' = local
    BY DEF Post
  <1>2. PICK S \in SUBSET DOMAIN pending :
          LET batch == [r \in S |-> pending[r]]
          IN  IF Refused(batch)
              THEN Idle /\ UNCHANGED platform
              ELSE /\ Write(Ingested(batch))
                   /\ pc' = "posted"
                   /\ page' = [NoPage EXCEPT !.rows = batch]
    BY DEF Post
  <1> DEFINE batch == [r \in S |-> pending[r]]
  <1>3. DOMAIN batch = S /\ S \subseteq Records /\ \A r \in S : batch[r] \in Row
    BY DEF TypeOK, Carried
  <1>4. CASE Refused(batch)
    <2>1. Idle /\ UNCHANGED platform
      BY <1>2, <1>4
    <2> QED BY <1>1, <2>1, PlatformRests, LocalRests DEF Typed, NothingBack, PostedIsMirrored, Idle
  <1>5. CASE ~Refused(batch)
    <2> DEFINE rows == Ingested(batch)
               mirror == store["mirror"]
               data(r) == IF mirror[r] = Absent THEN batch[r] ELSE Merge(mirror[r], batch[r])
               written == {r \in S : data(r) # mirror[r]}
    <2>1. Write(rows) /\ pc' = "posted" /\ page'.rows = batch
      BY <1>2, <1>5 DEF NoPage
    <2>2. rows = [w \in {"mirror"} \X written |-> data(w[2])]
      BY <1>3 DEF Ingested
    <2>3. "mirror" \in Sources /\ mirror \in [Records -> MaybeRow]
      BY DEF Sources, TypeOK, MaybeRow
    <2> HIDE DEF rows, mirror, batch
    <2>4. ASSUME NEW r \in S
          PROVE  /\ data(r) \in Row /\ Grows(mirror[r], data(r))
                 /\ Absorbed(data(r), batch[r])
                 /\ \A z \in Row : Absorbed(mirror[r], z) => Absorbed(data(r), z)
      <3>1. batch[r] \in Row /\ mirror[r] \in MaybeRow
        BY <1>3, <2>3
      <3>2. CASE mirror[r] = Absent
        <4>1. data(r) = batch[r]
          BY <3>2
        <4>2. Absorbed(batch[r], batch[r])
          BY <3>1, MergeAbsorbs
        <4> QED BY <3>1, <3>2, <4>1, <4>2 DEF Grows, Absorbed
      <3>3. CASE mirror[r] # Absent
        <4>1. mirror[r] \in Row
          BY <3>1, <3>3, RowFields
        <4>2. data(r) = Merge(mirror[r], batch[r])
          BY <3>3
        <4>3. Merge(mirror[r], batch[r]) \in Row
          BY <3>1, <4>1, MergeRow
        <4>4. Grows(mirror[r], Merge(mirror[r], batch[r]))
          BY <3>1, MergeGrows
        <4>5. /\ Absorbed(Merge(mirror[r], batch[r]), batch[r])
              /\ \A z \in Row : Absorbed(mirror[r], z) => Absorbed(Merge(mirror[r], batch[r]), z)
          BY <3>1, <4>1, MergeAbsorbs
        <4> QED BY <4>2, <4>3, <4>4, <4>5
      <3> QED BY <3>2, <3>3
    <2> HIDE DEF data
    <2>5. ASSUME NEW w \in DOMAIN rows
          PROVE  w[1] = "mirror" /\ w[2] \in S /\ w[2] \in written /\ rows[w] = data(w[2])
      BY <2>2
    <2>6. DOMAIN rows \subseteq Sources \X Records
      BY <1>3, <2>2, <2>3
    <2>7. \A w \in DOMAIN rows : rows[w] \in Row
      BY <2>4, <2>5
    <2>8. \A w \in DOMAIN rows : Grows(store[w[1]][w[2]], rows[w])
      BY <2>4, <2>5 DEF mirror
    <2>9. \A w \in DOMAIN rows : w[1] = "mirror" =>
            \A z \in Row : Absorbed(store["mirror"][w[2]], z) => Absorbed(rows[w], z)
      BY <2>4, <2>5 DEF mirror
    <2>10. /\ store' \in [Sources -> [Records -> MaybeRow]]
           /\ changes' \in [Sources -> [Records -> 0 .. revision']]
           /\ revision' \in Nat /\ revision <= revision' /\ Revised'
           /\ \A s \in Sources, r \in Records :
              store'[s][r] = IF <<s, r>> \in DOMAIN rows THEN rows[<<s, r>>] ELSE store[s][r]
      BY <2>1, <2>6, <2>7, WriteFacts
    <2>11. (\A q \in Records, s \in Sources : Grows(store[s][q], store'[s][q])) /\ MirrorGrows
      BY <2>1, <2>6, <2>7, <2>8, <2>9, WriteGrows
    <2>12. ASSUME NEW r \in S
           PROVE  Absorbed(store'["mirror"][r], batch[r])
      <3>1. CASE r \in written
        <4>1. <<"mirror", r>> \in DOMAIN rows
          BY <2>2, <3>1
        <4>2. rows[<<"mirror", r>>] = data(r)
          BY <2>2, <3>1
        <4> QED BY <1>3, <2>3, <2>4, <2>10, <4>1, <4>2
      <3>2. CASE r \notin written
        <4>1. <<"mirror", r>> \notin DOMAIN rows
          BY <2>2, <3>2
        <4>2. store'["mirror"][r] = mirror[r]
          BY <1>3, <2>3, <2>10, <4>1 DEF mirror
        <4>3. data(r) = mirror[r]
          BY <3>2
        <4> QED BY <2>4, <4>2, <4>3
      <3> QED BY <3>1, <3>2
    <2>13. PostedIsMirrored'
      BY <1>3, <2>1, <2>12 DEF PostedIsMirrored
    <2> QED BY <1>1, <2>10, <2>11, <2>13, LocalRests DEF Typed, NothingBack
  <1> QED BY <1>4, <1>5

\* The reads an agent-read mark stamps.
LEMMA PushReadsStep ==
  ASSUME TypeOK, Carried, Revised, PushAgentReads
  PROVE  Typed /\ NothingBack /\ MirrorGrows
  <1>1. local' = local
    BY DEF PushAgentReads
  <1> DEFINE ids == UnforwardedReads
  <1>2. CASE UNCHANGED platform
    BY <1>1, <1>2, PlatformRests, LocalRests DEF Typed, NothingBack
  <1>3. CASE Write(ReadMarks(ids))
    <2> DEFINE rows == ReadMarks(ids)
               unread == {w \in Marked(ids) : store[w[1]][w[2]].seen = 0}
    <2>1. now \in Times \ {0} /\ store \in [Sources -> [Records -> MaybeRow]] /\ ids \subseteq Records
      BY DEF TypeOK, Carried, MaybeRow, UnforwardedReads, Records
    <2>2. rows = [w \in unread |-> [store[w[1]][w[2]] EXCEPT !.seen = now]]
      BY DEF ReadMarks
    <2> HIDE DEF ids
    <2>3. unread \subseteq Sources \X Records /\ \A w \in unread : store[w[1]][w[2]] # Absent
      BY <2>1 DEF Marked
    <2> HIDE DEF rows
    <2>4. ASSUME NEW w \in unread
          PROVE  /\ rows[w] \in Row /\ Grows(store[w[1]][w[2]], rows[w])
                 /\ \A z \in Row : Absorbed(store[w[1]][w[2]], z) => Absorbed(rows[w], z)
      <3> DEFINE x == store[w[1]][w[2]]
                 y == [x EXCEPT !.seen = now]
      <3>1. w[1] \in Sources /\ w[2] \in Records /\ x # Absent /\ x.seen = 0 /\ rows[w] = y
        BY <2>2, <2>3
      <3>2. x \in MaybeRow
        BY <2>1, <3>1
      <3>3. x \in Row
        BY <3>1, <3>2, RowFields
      <3> HIDE DEF x
      <3>4. y \in Row /\ Grows(x, y)
        BY <2>1, <3>1, <3>3, MarkGrows
      <3>5. ASSUME NEW z \in Row, Absorbed(x, z)
            PROVE  Absorbed(y, z)
        BY <2>1, <3>1, <3>3, <3>5, MarkAbsorbs
      <3> HIDE DEF y
      <3>6. rows[w] \in Row /\ Grows(x, rows[w]) /\ \A z \in Row : Absorbed(x, z) => Absorbed(rows[w], z)
        BY <3>1, <3>4, <3>5
      <3> QED BY <3>6 DEF x
    <2>5. DOMAIN rows = unread
      BY <2>2
    <2> HIDE DEF unread
    <2>6. DOMAIN rows \subseteq Sources \X Records /\ \A w \in DOMAIN rows : rows[w] \in Row
      BY <2>3, <2>4, <2>5
    <2>7. \A w \in DOMAIN rows : Grows(store[w[1]][w[2]], rows[w])
      BY <2>4, <2>5
    <2>8. ASSUME NEW w \in DOMAIN rows, w[1] = "mirror", NEW z \in Row, Absorbed(store["mirror"][w[2]], z)
          PROVE  Absorbed(rows[w], z)
      <3>1. store[w[1]][w[2]] = store["mirror"][w[2]]
        BY <2>8
      <3> QED BY <2>4, <2>5, <2>8, <3>1
    <2>9. Write(rows)
      BY <1>3 DEF rows
    <2>10. /\ store' \in [Sources -> [Records -> MaybeRow]]
           /\ changes' \in [Sources -> [Records -> 0 .. revision']]
           /\ revision' \in Nat /\ revision <= revision' /\ Revised'
      BY <2>6, <2>9, WriteFacts
    <2>11. (\A q \in Records, s \in Sources : Grows(store[s][q], store'[s][q])) /\ MirrorGrows
      BY <2>6, <2>7, <2>8, <2>9, WriteGrows
    <2> QED BY <1>1, <2>10, <2>11, LocalRests DEF Typed, NothingBack
  <1> QED BY <1>2, <1>3 DEF PushAgentReads

\* An imported page.
LEMMA ImportGrows ==
  ASSUME TypeOK, NEW rows, DOMAIN rows \subseteq Records, \A r \in DOMAIN rows : rows[r] \in Row
  PROVE  /\ Imported(rows) \in [Records -> MaybeRow]
         /\ \A r \in Records : Grows(local[r], Imported(rows)[r])
  <1> DEFINE row(r) == ToLocal(r, rows[r])
             merged(r) == Merge(local[r], row(r))
             new(r) == CASE local[r] = Absent -> row(r)
                         [] local[r] # Absent /\ r \in Msgs /\ row(r).agent # rows[r].agent ->
                              [merged(r) EXCEPT !.agent = row(r).agent]
                         [] OTHER -> merged(r)
  <1>1. Imported(rows) = [r \in Records |-> IF r \notin DOMAIN rows THEN local[r] ELSE new(r)]
    BY DEF Imported
  <1>2. ASSUME NEW r \in Records, r \in DOMAIN rows
        PROVE  row(r) \in Row /\ (row(r).agent # rows[r].agent => row(r).agent = 0)
    BY <1>2 DEF ToLocal, Row, Idents
  <1> HIDE DEF row
  <1>3. \A r \in Records : local[r] \in MaybeRow
    BY DEF TypeOK, MaybeRow
  <1>4. ASSUME NEW r \in Records, r \in DOMAIN rows
        PROVE  new(r) \in MaybeRow /\ Grows(local[r], new(r))
    <2>1. CASE local[r] = Absent
      <3>1. new(r) = row(r)
        BY <2>1
      <3> QED BY <1>2, <1>4, <2>1, <3>1 DEF Grows, MaybeRow
    <2>2. CASE local[r] # Absent
      <3> DEFINE m == merged(r)
      <3>1. local[r] \in Row /\ row(r) \in Row
        BY <1>2, <1>3, <1>4, <2>2, RowFields
      <3>2. m \in Row /\ Grows(local[r], m)
        BY <1>3, <3>1, MergeRow, MergeGrows
      <3>3. new(r) = m \/ new(r) = [m EXCEPT !.agent = 0]
        BY <1>2, <1>4, <2>2
      <3> HIDE DEF m, new
      <3>4. [m EXCEPT !.agent = 0] \in Row
        BY <3>2 DEF Row, Idents
      <3>5. Grows(local[r], [m EXCEPT !.agent = 0])
        BY <3>2 DEF Grows, Row
      <3> QED BY <3>2, <3>3, <3>4, <3>5 DEF MaybeRow
    <2> QED BY <2>1, <2>2
  <1> HIDE DEF new
  <1>5. ASSUME NEW r \in Records
        PROVE  /\ (IF r \notin DOMAIN rows THEN local[r] ELSE new(r)) \in MaybeRow
               /\ Grows(local[r], IF r \notin DOMAIN rows THEN local[r] ELSE new(r))
    BY <1>3, <1>4, SameGrows
  <1> QED BY <1>1, <1>5

LEMMA PageStep ==
  ASSUME TypeOK, Carried, Revised, PageArrived
  PROVE  Typed /\ NothingBack /\ MirrorGrows
  <1>1. UNCHANGED platform
    BY DEF PageArrived
  <1>2. CASE local' = local
    BY <1>1, <1>2, PlatformRests, LocalRests DEF Typed, NothingBack
  <1>3. CASE local' = Imported(page.rows)
    <2>1. local' \in [Records -> MaybeRow] /\ \A r \in Records : Grows(local[r], local'[r])
      BY <1>3, ImportGrows DEF Carried
    <2> QED BY <1>1, <2>1, PlatformRests DEF Typed, NothingBack
  <1> QED BY <1>2, <1>3 DEF PageArrived

\* Every step.
LEMMA EveryStep ==
  ASSUME TypeOK, Carried, Revised, Next
  PROVE  Typed /\ NothingBack /\ MirrorGrows
  <1>1. CASE SyncOnce \/ PostAnswered \/ PushDone \/ Pull \/ ReadsAnswered \/ PassLost
    <2>1. local' = local /\ UNCHANGED platform
      BY <1>1 DEF SyncOnce, PostAnswered, PushDone, Pull, ReadsAnswered, PassLost
    <2> QED BY <2>1, PlatformRests, LocalRests DEF Typed, NothingBack
  <1> QED BY <1>1, PostStep, PushReadsStep, PageStep, LocalStep, LiveStep, OtherStep DEF Next, Engine

-----------------------------------------------------------------------------
(* The invariant.                                                          *)

\* A progress record is typed and names nothing the mirror lacks.
Kept(c, mirror, rev, time) ==
  /\ c \in [context : -1 .. MaxIdents, pull : 0 .. rev, reads : 0 .. time,
            pushed : [Records -> Row \cup {NotPushed}]]
  /\ \A r \in Records : c.pushed[r] # NotPushed => Absorbed(mirror[r], c.pushed[r])

Request ==
  /\ pc \in {"idle", "push", "posted", "pull", "pulled", "reads", "marked"}
  /\ ctx \in Idents
  /\ DOMAIN pending \subseteq Records
  /\ Carried

Clocks ==
  /\ ident \in 0 .. minted
  /\ minted \in Idents
  /\ now \in Times \ {0}
  /\ faults \in 0 .. MaxFaults

Progressed ==
  Kept(cursors, store["mirror"], revision, now) /\ Kept(saved, store["mirror"], revision, now)

LEMMA KeptStays ==
  ASSUME NEW c, Kept(c, store["mirror"], revision, now), MirrorGrows,
         revision \in Nat, revision' \in Nat, revision <= revision',
         now \in Nat, now' \in Nat, now <= now'
  PROVE  Kept(c, store'["mirror"], revision', now')
  <1>1. c.pull \in 0 .. revision' /\ c.reads \in 0 .. now'
    BY DEF Kept
  <1>2. c \in [context : -1 .. MaxIdents, pull : 0 .. revision', reads : 0 .. now',
              pushed : [Records -> Row \cup {NotPushed}]]
    BY <1>1 DEF Kept
  <1>3. ASSUME NEW r \in Records, c.pushed[r] # NotPushed
        PROVE  Absorbed(store'["mirror"][r], c.pushed[r])
    <2>1. c.pushed[r] \in Row
      BY <1>3 DEF Kept
    <2>2. Absorbed(store["mirror"][r], c.pushed[r])
      BY <1>3 DEF Kept
    <2> QED BY <2>1, <2>2 DEF MirrorGrows
  <1> QED BY <1>2, <1>3 DEF Kept

LEMMA IdleRequest ==
  ASSUME Idle, now' \in Times \ {0}
  PROVE  Request' /\ PostedIsMirrored'
  BY DEF Idle, Request, Carried, PostedIsMirrored, NoPage, Idents

LEMMA ClocksRun ==
  ASSUME Clocks, Next
  PROVE  Clocks' /\ now <= now' /\ (now' = now \/ Tick)
  <1>0. now \in Nat /\ Times \subseteq Nat /\ minted \in Nat
    BY TimesAreNat DEF Clocks, Idents
  <1>1. CASE SyncOnce \/ Post \/ PostAnswered \/ PushDone \/ Pull \/ PageArrived
               \/ PushAgentReads \/ ReadsAnswered \/ PassLost
    <2>1. UNCHANGED <<ident, minted, now>>
      BY <1>1 DEF SyncOnce, Post, PostAnswered, PushDone, Pull, PageArrived, PushAgentReads,
                  ReadsAnswered, PassLost
    <2>2. faults' = faults \/ (faults < MaxFaults /\ faults' = faults + 1)
      BY <1>1 DEF SyncOnce, Post, PostAnswered, PushDone, Pull, PageArrived, PushAgentReads,
                  ReadsAnswered, PassLost, SaveAndGo
    <2> QED BY <1>0, <2>1, <2>2 DEF Clocks
  <1>2. CASE Around
    <2>1. UNCHANGED <<ident, minted, now, faults>>
      BY <1>2 DEF Around, LocalInsert, LocalRead, LocalAgentRead, LocalCall, LiveInsert,
                  PlatformRead, PlatformCall
    <2> QED BY <1>0, <2>1 DEF Clocks
  <1>3. CASE Expose
    BY <1>0, <1>3 DEF Expose, Clocks, Idents
  <1>4. CASE Unexpose
    BY <1>0, <1>4 DEF Unexpose, Clocks
  <1>5. CASE Tick
    <2>1. now' = now + 1 /\ now' \in Times \ {0}
      BY <1>0, <1>5 DEF Tick, Times
    <2> QED BY <1>0, <1>5, <2>1 DEF Tick, Clocks
  <1> QED BY <1>1, <1>2, <1>3, <1>4, <1>5 DEF Next, Engine, Around

\* IInv in the parts the steps are taken apart by.
LEMMA Parts ==
  IInv <=> /\ Request /\ Clocks /\ Progressed /\ Revised /\ PostedIsMirrored
           /\ local \in [Records -> MaybeRow]
           /\ store \in [Sources -> [Records -> MaybeRow]]
           /\ changes \in [Sources -> [Records -> 0 .. revision]]
           /\ revision \in Nat
  BY DEF IInv, TypeOK, Request, Clocks, Progressed, Kept, MaybeRow, PushedIsMirrored, Carried

LEMMA PartsAgain ==
  ASSUME Request', Clocks', Progressed', Typed, PostedIsMirrored'
  PROVE  IInv'
  BY DEF IInv, TypeOK, Request, Clocks, Progressed, Kept, MaybeRow, PushedIsMirrored, Carried, Typed

LEMMA MappedRow ==
  ASSUME TypeOK, NEW r \in Records, NEW c \in Idents, InScope(r, c)
  PROVE  Mapped(r, c) \in Row
  <1>1. local[r] \in Row
    BY DEF TypeOK, InScope
  <1> QED BY <1>1 DEF Mapped, Row

\* The rows of a page are there, and its cursor is a revision.
LEMMA PageRows ==
  ASSUME TypeOK, Revised, NEW cursor \in 0 .. revision
  PROVE  /\ DOMAIN SyncPage(cursor).rows \subseteq Records
         /\ \A r \in DOMAIN SyncPage(cursor).rows : SyncPage(cursor).rows[r] \in Row
         /\ SyncPage(cursor).next \in 0 .. revision
  <1> DEFINE after == ChangesAfter(cursor)
             rev(w) == changes[w[1]][w[2]]
             taken == {w \in after : Cardinality({v \in after : rev(v) <= rev(w)}) <= PullSize}
             shown == {r \in Records : (\E w \in taken : w[2] = r) /\ Owned(r, Shown(r))}
             revs == {rev(w) : w \in taken}
  <1>1. /\ SyncPage(cursor).rows = [r \in shown |-> Shown(r)]
        /\ SyncPage(cursor).next = NextCursor(cursor, revs)
    BY DEF SyncPage
  <1>2. \A w \in after : w \in Sources \X Records /\ rev(w) > cursor /\ rev(w) \in 0 .. revision
    BY DEF ChangesAfter, TypeOK
  <1>3. taken \subseteq after
    OBVIOUS
  <1> HIDE DEF after
  <1>4. ASSUME NEW r \in shown
        PROVE  Shown(r) \in Row
    <2>1. PICK w \in taken : w[2] = r
      OBVIOUS
    <2>2. w[1] \in Sources /\ r \in Records /\ changes[w[1]][r] # 0
      BY <1>2, <1>3, <2>1
    <2>3. store[w[1]][r] # Absent
      BY <2>2 DEF Revised
    <2>4. Shown(r) # Absent
      BY <2>2, <2>3 DEF Shown, Sources
    <2>5. store["live"][r] \in MaybeRow /\ store["mirror"][r] \in MaybeRow
      BY <2>2 DEF TypeOK, Sources, MaybeRow
    <2> QED BY <2>4, <2>5 DEF Shown, MaybeRow
  <1>5. {cursor} \cup revs \subseteq 0 .. revision
    BY <1>2, <1>3
  <1>6. NextCursor(cursor, revs) \in 0 .. revision
    <2>1. revision \in Nat
      BY DEF TypeOK
    <2> HIDE DEF revs
    <2>2. Max({cursor} \cup revs) \in {cursor} \cup revs
      BY <1>5, <2>1, GreatestExists
    <2> QED BY <1>5, <2>2 DEF NextCursor
  <1> HIDE DEF shown, revs
  <1>7. shown \subseteq Records
    BY DEF shown
  <1> QED BY <1>1, <1>4, <1>6, <1>7

THEOREM InvInit == Init => IInv
  <1> SUFFICES ASSUME Init PROVE IInv
    OBVIOUS
  <1>1. Start(-1) \in [context : -1 .. MaxIdents, pull : 0 .. revision, reads : 0 .. now,
                       pushed : [Records -> Row \cup {NotPushed}]]
    BY DEF Init, Start, NotPushed
  <1>2. TypeOK
    BY <1>1 DEF Init, TypeOK, Idents, Times, Sources
  <1>3. Carried /\ Revised /\ PostedIsMirrored
    BY DEF Init, Carried, Revised, PostedIsMirrored, NoPage
  <1>4. PushedIsMirrored
    BY DEF Init, PushedIsMirrored, Start
  <1> QED BY <1>2, <1>3, <1>4 DEF IInv

THEOREM InvNext == IInv /\ [Next]_vars => IInv'
  <1> SUFFICES ASSUME IInv, [Next]_vars PROVE IInv'
    OBVIOUS
  <1>1. CASE UNCHANGED vars
    BY <1>1 DEF vars, platform, pass, IInv, TypeOK, Carried, Revised, PostedIsMirrored, PushedIsMirrored
  <1>2. CASE Next
    <2>1. /\ Request /\ Clocks /\ Progressed /\ PostedIsMirrored
          /\ TypeOK /\ Carried /\ Revised
      BY Parts DEF IInv
    <2>2. Typed /\ MirrorGrows
      BY <1>2, <2>1, EveryStep
    <2>3. Clocks' /\ now <= now' /\ (now' = now \/ Tick)
      BY <1>2, <2>1, ClocksRun
    <2>4. /\ revision \in Nat /\ revision' \in Nat /\ revision <= revision'
          /\ now \in Nat /\ now' \in Nat /\ ident \in Idents
      BY <2>1, <2>2, <2>3, TimesAreNat DEF Typed, TypeOK, Clocks, Idents
    <2>5. /\ Kept(cursors, store'["mirror"], revision', now')
          /\ Kept(saved, store'["mirror"], revision', now')
      BY <2>1, <2>2, <2>3, <2>4, KeptStays DEF Progressed
    <2>6. now' \in Times \ {0}
      BY <2>3 DEF Clocks
    <2> SUFFICES Request' /\ Progressed' /\ PostedIsMirrored'
      BY <2>2, <2>3, PartsAgain
    <2>7. CASE SyncOnce
      <3> DEFINE c == Resumed(ident)
      <3>1. /\ cursors' = c /\ saved' = saved /\ pending' = Unpushed(ident, c) /\ ctx' = ident
            /\ pc' = "push" /\ page' = page /\ UNCHANGED platform /\ now' = now
        BY <2>7 DEF SyncOnce
      <3>2. Kept(Start(ident), store'["mirror"], revision', now')
        BY <2>4 DEF Kept, Start, NotPushed, Idents
      <3>3. Kept(c, store'["mirror"], revision', now')
        BY <2>5, <3>2 DEF Resumed
      <3>4. Progressed'
        BY <2>5, <3>1, <3>3 DEF Progressed
      <3> HIDE DEF c
      <3>5. DOMAIN pending' \subseteq Records /\ \A r \in DOMAIN pending' : pending'[r] \in Row
        BY <2>1, <2>4, <3>1, MappedRow DEF Unpushed
      <3>6. Request' /\ PostedIsMirrored'
        BY <2>1, <2>4, <2>6, <3>1, <3>5 DEF Request, Carried, PostedIsMirrored
      <3> QED BY <3>4, <3>6
    <2>8. CASE Post
      <3>1. PostedIsMirrored'
        BY <2>1, <2>8, PostStep
      <3>2. cursors' = cursors /\ saved' = saved
        BY <2>8 DEF Post
      <3>3. Progressed'
        BY <2>5, <3>2 DEF Progressed
      <3>4. PICK S \in SUBSET DOMAIN pending :
              LET batch == [r \in S |-> pending[r]]
              IN  \/ Idle
                  \/ /\ pc' = "posted"
                     /\ page' = [NoPage EXCEPT !.rows = batch]
                     /\ UNCHANGED <<ctx, pending>>
        BY <2>8 DEF Post
      <3>5. CASE Idle
        BY <2>6, <3>1, <3>3, <3>5, IdleRequest
      <3>6. CASE /\ pc' = "posted"
                 /\ page' = [NoPage EXCEPT !.rows = [r \in S |-> pending[r]]]
                 /\ UNCHANGED <<ctx, pending>>
        <4>1. page'.rows = [r \in S |-> pending[r]]
          BY <3>6 DEF NoPage
        <4>2. DOMAIN page'.rows \subseteq Records /\ \A r \in DOMAIN page'.rows : page'.rows[r] \in Row
          BY <2>1, <4>1 DEF Request, Carried
        <4>3. Request'
          BY <2>1, <2>6, <3>6, <4>2 DEF Request, Carried
        <4> QED BY <3>1, <3>3, <4>3
      <3> QED BY <3>4, <3>5, <3>6
    <2>9. CASE PostAnswered
      <3> DEFINE sent == page.rows
                 pushed == [r \in Records |-> IF r \in DOMAIN sent THEN sent[r] ELSE cursors.pushed[r]]
                 c == [cursors EXCEPT !.pushed = pushed]
                 rest == [r \in DOMAIN pending \ DOMAIN sent |-> pending[r]]
      <3>1. SaveAndGo(c, "push", rest) /\ pc = "posted"
        BY <2>9 DEF PostAnswered, RowsPushed
      <3>2. UNCHANGED platform /\ now' = now
        BY <2>9 DEF PostAnswered
      <3>3. store' = store
        BY <3>2 DEF platform
      <3>4. \A r \in DOMAIN sent : sent[r] \in Row /\ Absorbed(store["mirror"][r], sent[r])
        BY <2>1, <3>1 DEF Carried, PostedIsMirrored
      <3>5. cursors.pushed \in [Records -> Row \cup {NotPushed}]
        BY <2>5 DEF Kept
      <3>6. pushed \in [Records -> Row \cup {NotPushed}]
        BY <3>4, <3>5
      <3>7. Kept(c, store'["mirror"], revision', now')
        <4>1. c.pushed = pushed
          BY <2>5 DEF Kept
        <4>2. c \in [context : -1 .. MaxIdents, pull : 0 .. revision', reads : 0 .. now',
                     pushed : [Records -> Row \cup {NotPushed}]]
          BY <2>5, <3>6 DEF Kept
        <4>3. ASSUME NEW r \in Records, pushed[r] # NotPushed
              PROVE  Absorbed(store'["mirror"][r], pushed[r])
          <5>1. CASE r \in DOMAIN sent
            BY <3>3, <3>4, <5>1
          <5>2. CASE r \notin DOMAIN sent
            BY <2>5, <4>3, <5>2 DEF Kept
          <5> QED BY <5>1, <5>2
        <4> QED BY <4>1, <4>2, <4>3 DEF Kept
      <3>8. DOMAIN rest \subseteq DOMAIN pending /\ \A r \in DOMAIN rest : rest[r] = pending[r]
        OBVIOUS
      <3> HIDE DEF c, rest
      <3>9. CASE /\ cursors' = c /\ saved' = c /\ pc' = "push" /\ pending' = rest
                 /\ page' = NoPage /\ ctx' = ctx
        <4>1. Progressed'
          BY <3>7, <3>9 DEF Progressed
        <4>2. Request' /\ PostedIsMirrored'
          BY <2>1, <2>6, <3>8, <3>9 DEF Request, Carried, PostedIsMirrored, NoPage
        <4> QED BY <4>1, <4>2
      <3>10. CASE cursors' = saved /\ saved' = saved /\ Idle
        BY <2>5, <2>6, <3>10, IdleRequest DEF Progressed
      <3> QED BY <3>1, <3>9, <3>10 DEF SaveAndGo
    <2>10. CASE PushDone
      <3>1. pc' = "pull" /\ UNCHANGED <<cursors, saved, ctx, pending, page>>
        BY <2>10 DEF PushDone
      <3> QED BY <2>1, <2>5, <2>6, <3>1 DEF Progressed, Request, Carried, PostedIsMirrored
    <2>11. CASE Pull
      <3>1. /\ pc' = "pulled" /\ page' = SyncPage(cursors.pull) /\ UNCHANGED platform
            /\ UNCHANGED <<cursors, saved, ctx, pending>>
        BY <2>11 DEF Pull
      <3>2. cursors.pull \in 0 .. revision /\ revision' = revision
        BY <2>1, <3>1 DEF Progressed, Kept, platform
      <3>3. /\ DOMAIN page'.rows \subseteq Records /\ \A r \in DOMAIN page'.rows : page'.rows[r] \in Row
            /\ page'.next \in 0 .. revision'
        BY <2>1, <3>1, <3>2, PageRows
      <3>4. Progressed'
        BY <2>5, <3>1 DEF Progressed
      <3> QED BY <2>1, <2>6, <3>1, <3>3, <3>4 DEF Request, Carried, PostedIsMirrored
    <2>12. CASE PageArrived
      <3> DEFINE c == [cursors EXCEPT !.pull = page.next]
      <3>1. pc = "pulled" /\ UNCHANGED platform
        BY <2>12 DEF PageArrived
      <3>2. page.next \in 0 .. revision'
        BY <2>1, <2>4, <3>1 DEF Carried
      <3>3. Kept(c, store'["mirror"], revision', now')
        BY <2>5, <3>2 DEF Kept
      <3> HIDE DEF c
      <3>4. CASE SaveAndGo(c, IF page.more THEN "pull" ELSE "reads", pending)
        <4>1. CASE /\ cursors' = c /\ saved' = c /\ pc' \in {"pull", "reads"} /\ pending' = pending
                   /\ page' = NoPage /\ ctx' = ctx
          <5>1. Progressed'
            BY <3>3, <4>1 DEF Progressed
          <5>2. Request' /\ PostedIsMirrored'
            BY <2>1, <2>6, <4>1 DEF Request, Carried, PostedIsMirrored, NoPage
          <5> QED BY <5>1, <5>2
        <4>2. CASE cursors' = saved /\ saved' = saved /\ Idle
          BY <2>5, <2>6, <4>2, IdleRequest DEF Progressed
        <4> QED BY <3>4, <4>1, <4>2 DEF SaveAndGo
      <3>5. CASE Idle /\ UNCHANGED <<cursors, saved>>
        BY <2>5, <2>6, <3>5, IdleRequest DEF Progressed
      <3> QED BY <2>12, <3>4, <3>5 DEF PageArrived, c
    <2>13. CASE PushAgentReads
      <3>1. cursors' = cursors /\ saved' = saved /\ now' = now
        BY <2>13 DEF PushAgentReads
      <3>2. Progressed'
        BY <2>5, <3>1 DEF Progressed
      <3>3. CASE Idle
        BY <2>6, <3>2, <3>3, IdleRequest
      <3>4. CASE page' = [NoPage EXCEPT !.next = now] /\ pc' = "marked" /\ UNCHANGED <<ctx, pending>>
        <4>1. page'.next = now /\ page'.rows = <<>>
          BY <3>4 DEF NoPage
        <4>2. now \in 1 .. now'
          BY <2>4, <2>6, <3>1
        <4> QED BY <2>1, <2>6, <3>2, <3>4, <4>1, <4>2 DEF Request, Carried, PostedIsMirrored
      <3> QED BY <2>13, <3>3, <3>4 DEF PushAgentReads
    <2>14. CASE ReadsAnswered
      <3> DEFINE c == [cursors EXCEPT !.reads = ReadCursor(page.next)]
      <3>1. Idle /\ ((cursors' = c /\ saved' = c) \/ (cursors' = saved /\ saved' = saved)) /\ pc = "marked"
        BY <2>14 DEF ReadsAnswered
      <3>2. ReadCursor(page.next) \in 0 .. now'
        BY <2>1, <2>3, <2>4, <3>1 DEF Carried, ReadCursor
      <3>3. Kept(c, store'["mirror"], revision', now')
        BY <2>5, <3>2 DEF Kept
      <3> HIDE DEF c
      <3> QED BY <2>5, <2>6, <3>1, <3>3, IdleRequest DEF Progressed
    <2>15. CASE PassLost
      <3>1. Idle /\ cursors' \in {cursors, saved} /\ saved' = saved
        BY <2>15 DEF PassLost
      <3> QED BY <2>5, <2>6, <3>1, IdleRequest DEF Progressed
    <2>16. CASE Around \/ Expose \/ Unexpose \/ Tick
      <3>1. UNCHANGED <<cursors, saved, pc, ctx, pending, page>>
        BY <2>16 DEF Around, LocalInsert, LocalRead, LocalAgentRead, LocalCall, LiveInsert,
                     PlatformRead, PlatformCall, Expose, Unexpose, Tick, pass
      <3>2. Progressed'
        BY <2>5, <3>1 DEF Progressed
      <3>3. Request'
        <4>1. pc = "pulled" => page.next \in 0 .. revision'
          BY <2>1, <2>4 DEF Carried
        <4>2. pc = "marked" => page.next \in 1 .. now'
          BY <2>1, <2>3, <2>4 DEF Carried
        <4>3. Carried'
          BY <2>1, <2>6, <3>1, <4>1, <4>2 DEF Carried
        <4> QED BY <2>1, <3>1, <4>3 DEF Request
      <3>4. PostedIsMirrored'
        BY <2>1, <2>2, <3>1 DEF PostedIsMirrored, MirrorGrows, Carried
      <3> QED BY <3>2, <3>3, <3>4
    <2> QED BY <1>2, <2>7, <2>8, <2>9, <2>10, <2>11, <2>12, <2>13, <2>14, <2>15, <2>16
        DEF Next, Engine, Around
  <1> QED BY <1>1, <1>2

THEOREM Invariance == Spec => []IInv
  <1> QED BY InvInit, InvNext, PTL DEF Spec

\* The states of both machines, the platform and the engine stay typed.
THEOREM TypeCorrect == Spec => []TypeOK
  <1>1. IInv => TypeOK
    BY DEF IInv
  <1> QED BY <1>1, Invariance, PTL

\* A row whose hash the engine saved after an answered batch (pushUp) is on
\* the platform with every receipt and state, for any batch size and whatever
\* is lost, refused or repeated.
THEOREM PushedIsThere == Spec => []PushedIsMirrored
  <1>1. IInv => PushedIsMirrored
    BY DEF IInv
  <1> QED BY <1>1, Invariance, PTL

\* No merge, mark or phase change of either side takes back a receipt or the
\* outcome of a call that is over.
THEOREM ReplicasOnlyGrow == Spec => NothingTakenBack
  <1> DEFINE Kind(old, new) ==
               old # Absent =>
                 /\ old.read # 0 => new.read \in 1 .. old.read
                 /\ old.seen # 0 => new.seen \in 1 .. old.seen
                 /\ Terminal(old.state) => new.state = old.state
             A == \A r \in Records :
                    \A pair \in {<<local[r], local'[r]>>, <<store["live"][r], store'["live"][r]>>,
                                 <<store["mirror"][r], store'["mirror"][r]>>} :
                      LET old == pair[1]
                          new == pair[2]
                      IN  Kind(old, new)
  <1>1. IInv /\ [Next]_vars => [A]_vars
    <2> SUFFICES ASSUME IInv, Next PROVE A
      OBVIOUS
    <2>1. NothingBack
      BY EveryStep DEF IInv
    <2>2. \A r \in Records : /\ Kind(local[r], local'[r])
                             /\ Kind(store["live"][r], store'["live"][r])
                             /\ Kind(store["mirror"][r], store'["mirror"][r])
      BY <2>1 DEF NothingBack, Grows, Sources
    <2> HIDE DEF Kind
    <2> QED BY <2>2
  <1>2. [A]_vars => [\A r \in Records :
       \A pair \in {<<local[r], local'[r]>>, <<store["live"][r], store'["live"][r]>>,
                    <<store["mirror"][r], store'["mirror"][r]>>} :
         LET old == pair[1]
             new == pair[2]
         IN  old # Absent =>
               /\ old.read # 0 => new.read \in 1 .. old.read
               /\ old.seen # 0 => new.seen \in 1 .. old.seen
               /\ Terminal(old.state) => new.state = old.state]_vars
    OBVIOUS
  <1> HIDE DEF A
  <1> QED BY <1>1, <1>2, Invariance, PTL DEF Spec, NothingTakenBack

-----------------------------------------------------------------------------
(* Reads: none falls behind the cursor.                                    *)

\* What the steps leave of the live rows, of the mirror's and of the local ones.
RowsStay ==
  /\ \A r \in Records :
       /\ store["live"][r] # Absent =>
            /\ store'["live"][r] # Absent
            /\ store'["live"][r].agent = store["live"][r].agent
       /\ r \in ToAgent /\ store["live"][r] = Absent /\ store'["live"][r] # Absent =>
            local[r] = Absent
  /\ \A r \in Records : store'["mirror"][r] # Absent =>
       store["mirror"][r] # Absent \/ r \in DOMAIN pending
  /\ \A r \in Records : local[r] # Absent => local'[r] # Absent

LEMMA PlatformRowsStay ==
  ASSUME TypeOK, UNCHANGED platform, \A r \in Records : local[r] # Absent => local'[r] # Absent
  PROVE  RowsStay
  <1>1. store' = store
    BY DEF platform
  <1> QED BY <1>1 DEF RowsStay

LEMMA AgentMessages == ToAgent \subseteq Records /\ ToAgent \subseteq WithAgent /\ ToAgent \cap Calls = {}
                       /\ ToAgent \subseteq Msgs
  BY DEF Records

\* A write of live rows that keeps their agents.
LEMMA WriteRowsStay ==
  ASSUME TypeOK, NEW rows, DOMAIN rows \subseteq Sources \X Records,
         \A w \in DOMAIN rows : rows[w] \in Row, Write(rows), local' = local,
         \A r \in Records : <<"live", r>> \in DOMAIN rows =>
            IF store["live"][r] = Absent THEN r \in ToAgent => local[r] = Absent
            ELSE rows[<<"live", r>>].agent = store["live"][r].agent,
         \A r \in Records : <<"mirror", r>> \in DOMAIN rows =>
            store["mirror"][r] # Absent \/ r \in DOMAIN pending
  PROVE  RowsStay
  <1>1. \A s \in Sources, r \in Records :
              store'[s][r] = IF <<s, r>> \in DOMAIN rows THEN rows[<<s, r>>] ELSE store[s][r]
    BY WriteFacts
  <1>2. "live" \in Sources /\ "mirror" \in Sources
    BY DEF Sources
  <1>3. ASSUME NEW r \in Records
        PROVE  /\ store["live"][r] # Absent =>
                    /\ store'["live"][r] # Absent
                    /\ store'["live"][r].agent = store["live"][r].agent
               /\ r \in ToAgent /\ store["live"][r] = Absent /\ store'["live"][r] # Absent =>
                    local[r] = Absent
    <2>2. CASE <<"live", r>> \in DOMAIN rows
      <3>1. store'["live"][r] = rows[<<"live", r>>] /\ rows[<<"live", r>>] # Absent
        BY <1>1, <1>2, <2>2, RowFields DEF MaybeRow
      <3> QED BY <2>2, <3>1
    <2>3. CASE <<"live", r>> \notin DOMAIN rows
      BY <1>1, <1>2, <2>3
    <2> QED BY <2>2, <2>3
  <1>4. ASSUME NEW r \in Records, store'["mirror"][r] # Absent
        PROVE  store["mirror"][r] # Absent \/ r \in DOMAIN pending
    BY <1>1, <1>2, <1>4
  <1> QED BY <1>3, <1>4 DEF RowsStay

\* An imported page keeps every record; a message's mark is the earlier of the
\* two and its agent the one it had, the page's, or the local id.
LEMMA ImportFields ==
  ASSUME TypeOK, NEW rows, DOMAIN rows \subseteq Records, \A r \in DOMAIN rows : rows[r] \in Row,
         NEW r \in Records
  PROVE  /\ r \notin DOMAIN rows => Imported(rows)[r] = local[r]
         /\ r \in DOMAIN rows =>
              /\ Imported(rows)[r] \in Row
              /\ Imported(rows)[r].seen = First(local[r].seen, rows[r].seen)
              /\ Imported(rows)[r].agent \in
                   {0, IF local[r] = Absent THEN rows[r].agent ELSE local[r].agent}
  <1> DEFINE row == ToLocal(r, rows[r])
             merged == Merge(local[r], row)
             x == Imported(rows)[r]
  <1>1. x = IF r \notin DOMAIN rows THEN local[r]
            ELSE CASE local[r] = Absent -> row
                   [] local[r] # Absent /\ r \in Msgs /\ row.agent # rows[r].agent ->
                        [merged EXCEPT !.agent = row.agent]
                   [] OTHER -> merged
    BY DEF Imported
  <1>2. ASSUME r \in DOMAIN rows
        PROVE  /\ row \in Row /\ row.seen = rows[r].seen
               /\ row.agent = rows[r].agent \/ row.agent = 0
    BY <1>2 DEF ToLocal, Row, Idents
  <1>3. local[r] \in MaybeRow
    BY DEF TypeOK, MaybeRow
  <1> HIDE DEF row, x
  <1>4. ASSUME r \in DOMAIN rows
        PROVE  /\ x \in Row /\ x.seen = First(local[r].seen, rows[r].seen)
               /\ x.agent \in {0, IF local[r] = Absent THEN rows[r].agent ELSE local[r].agent}
    <2>1. CASE local[r] = Absent
      <3>1. x = row
        BY <1>1, <1>4, <2>1
      <3>2. local[r].seen = 0 /\ rows[r].seen \in Nat
        BY <1>3, <1>4, <2>1, RowFields, TimesAreNat DEF MaybeRow
      <3>3. First(0, rows[r].seen) = rows[r].seen
        BY DEF First
      <3> QED BY <1>2, <1>4, <2>1, <3>1, <3>2, <3>3
    <2>2. CASE local[r] # Absent
      <3> DEFINE m == merged
      <3>1. local[r] \in Row /\ row \in Row
        BY <1>2, <1>3, <1>4, <2>2, RowFields
      <3>2. m \in Row /\ m.agent = local[r].agent /\ m.seen = First(local[r].seen, rows[r].seen)
        BY <1>2, <1>3, <1>4, <3>1, MergeRow, MergeFields
      <3>3. x = m \/ x = [m EXCEPT !.agent = 0]
        BY <1>1, <1>2, <1>4, <2>2
      <3> HIDE DEF m
      <3>4. [m EXCEPT !.agent = 0] \in Row /\ [m EXCEPT !.agent = 0].seen = m.seen
            /\ [m EXCEPT !.agent = 0].agent = 0
        BY <3>2 DEF Row, Idents
      <3> QED BY <2>2, <3>2, <3>3, <3>4
    <2> QED BY <2>1, <2>2
  <1> QED BY <1>1, <1>4 DEF x

\* What an insert, a mark or a call's step does to the local rows.
LEMMA LocalFields ==
  ASSUME TypeOK, NEW q \in Records,
         LocalInsert(q) \/ LocalRead(q) \/ LocalAgentRead(q) \/ LocalCall(q),
         NEW r \in Records
  PROVE  /\ local[r] # Absent => local'[r] # Absent
         /\ local'[r].agent = local[r].agent
         /\ local'[r].seen = local[r].seen \/ local'[r].seen = now
  <1>1. local \in [Records -> MaybeRow] /\ local[q] \in MaybeRow
    BY DEF TypeOK, MaybeRow
  <1>2. CASE LocalInsert(q)
    <2>1. local' = [local EXCEPT ![q] = Fresh(q, 0)] /\ local[q] = Absent
      BY <1>2 DEF LocalInsert
    <2>2. Fresh(q, 0).agent = 0 /\ Fresh(q, 0).seen = 0 /\ Absent.agent = 0 /\ Absent.seen = 0
      BY DEF Fresh, Absent
    <2> QED BY <1>1, <2>1, <2>2
  <1>3. CASE LocalRead(q) \/ LocalAgentRead(q) \/ LocalCall(q)
    <2>1. local[q] \in Row
      BY <1>1, <1>3, RowFields DEF LocalRead, LocalAgentRead, LocalCall
    <2>2. PICK y : /\ local' = [local EXCEPT ![q] = y]
                   /\ \/ y = [local[q] EXCEPT !.read = now]
                      \/ y = [local[q] EXCEPT !.seen = now]
                      \/ \E state \in NextState(local[q].state) : y = [local[q] EXCEPT !.state = state]
      <3>1. CASE LocalRead(q)
        BY <1>1, <3>1 DEF LocalRead
      <3>2. CASE LocalAgentRead(q)
        BY <1>1, <3>2 DEF LocalAgentRead
      <3>3. CASE LocalCall(q)
        BY <1>1, <3>3 DEF LocalCall
      <3> QED BY <1>3, <3>1, <3>2, <3>3
    <2>3. y.agent = local[q].agent /\ (y.seen = local[q].seen \/ y.seen = now) /\ y.state # "absent"
      <3>1. local[q].state \in Phases
        BY <2>1 DEF Row
      <3>2. CASE y = [local[q] EXCEPT !.read = now] \/ y = [local[q] EXCEPT !.seen = now]
        BY <2>1, <3>1, <3>2 DEF Row, Phases
      <3>3. CASE \E state \in NextState(local[q].state) : y = [local[q] EXCEPT !.state = state]
        BY <2>1, <3>3 DEF Row, NextState
      <3> QED BY <2>2, <3>2, <3>3
    <2>4. y # Absent
      BY <2>3 DEF Absent
    <2> QED BY <1>1, <2>2, <2>3, <2>4
  <1> QED BY <1>2, <1>3

LEMMA LiveRowsStay ==
  ASSUME TypeOK, Carried, NEW r \in Records,
         LiveInsert(r) \/ PlatformRead(r) \/ PlatformCall(r)
  PROVE  RowsStay
  <1>1. local' = local
    BY DEF LiveInsert, PlatformRead, PlatformCall
  <1>2. /\ store \in [Sources -> [Records -> MaybeRow]]
        /\ now \in Times \ {0} /\ ident \in Idents
        /\ "live" \in Sources /\ "mirror" \in Sources /\ "live" # "mirror"
    BY DEF TypeOK, MaybeRow, Carried, Sources, Idents
  <1>3. CASE LiveInsert(r)
    <2> DEFINE x == Fresh(r, IF r \in WithAgent THEN ident ELSE 0)
               rows == [w \in {<<"live", r>>} |-> x]
    <2>1. x \in Row
      BY <1>2, FreshRow DEF Idents
    <2>2. DOMAIN rows = {<<"live", r>>} /\ rows[<<"live", r>>] = x
      OBVIOUS
    <2>3. store["live"][r] = Absent /\ Write(rows) /\ (r \in ToAgent => local[r] = Absent)
      BY <1>3 DEF LiveInsert
    <2> HIDE DEF rows, x
    <2>4. ASSUME NEW q, <<"live", q>> \in DOMAIN rows
          PROVE  q = r
      BY <2>2, <2>4
    <2>5. \A q : <<"mirror", q>> \notin DOMAIN rows
      BY <1>2, <2>2
    <2> QED BY <1>1, <1>2, <2>1, <2>2, <2>3, <2>4, <2>5, WriteRowsStay
  <1>4. CASE PlatformCall(r)
    <2>1. PICK state \in NextState(store["live"][r].state) :
            Write([w \in {<<"live", r>>} |-> [store["live"][r] EXCEPT !.state = state]])
      BY <1>4 DEF PlatformCall
    <2> DEFINE x == [store["live"][r] EXCEPT !.state = state]
               rows == [w \in {<<"live", r>>} |-> x]
    <2>2. store["live"][r] \in Row
      <3>1. store["live"][r] \in MaybeRow
        BY <1>2
      <3> QED BY <1>4, <3>1, RowFields DEF PlatformCall
    <2>3. x \in Row /\ x.agent = store["live"][r].agent
      BY <2>1, <2>2, PhaseGrows DEF Row
    <2>4. DOMAIN rows = {<<"live", r>>} /\ rows[<<"live", r>>] = x
      OBVIOUS
    <2>5. Write(rows) /\ store["live"][r] # Absent
      BY <1>4, <2>1 DEF PlatformCall
    <2> HIDE DEF rows, x
    <2>6. ASSUME NEW q, <<"live", q>> \in DOMAIN rows
          PROVE  q = r
      BY <2>4, <2>6
    <2>7. \A q : <<"mirror", q>> \notin DOMAIN rows
      BY <1>2, <2>4
    <2>8. DOMAIN rows \subseteq Sources \X Records /\ \A w \in DOMAIN rows : rows[w] \in Row
      BY <1>2, <2>3, <2>4
    <2>9. \A q \in Records : <<"live", q>> \in DOMAIN rows =>
            /\ store["live"][q] # Absent
            /\ rows[<<"live", q>>].agent = store["live"][q].agent
      BY <2>3, <2>4, <2>5, <2>6
    <2> QED BY <1>1, <2>5, <2>7, <2>8, <2>9, WriteRowsStay
  <1>5. CASE PlatformRead(r)
    <2> DEFINE unread == {s \in Sources : store[s][r] # Absent /\ store[s][r].read = 0}
               rows == [w \in unread \X {r} |-> [store[w[1]][r] EXCEPT !.read = now]]
    <2>1. Write(rows)
      BY <1>5 DEF PlatformRead
    <2>2. DOMAIN rows = unread \X {r} /\ DOMAIN rows \subseteq Sources \X Records
      OBVIOUS
    <2>3. ASSUME NEW s, NEW q, <<s, q>> \in DOMAIN rows
          PROVE  /\ s \in Sources /\ q = r /\ store[s][r] # Absent
                 /\ rows[<<s, q>>] = [store[s][r] EXCEPT !.read = now]
      BY <2>3
    <2> HIDE DEF rows, unread
    <2>4. ASSUME NEW s, NEW q, <<s, q>> \in DOMAIN rows
          PROVE  /\ q = r /\ store[s][q] # Absent /\ rows[<<s, q>>] \in Row
                 /\ rows[<<s, q>>].agent = store[s][q].agent
      <3> DEFINE x == store[s][r]
      <3>1. s \in Sources /\ q = r /\ x # Absent /\ rows[<<s, q>>] = [x EXCEPT !.read = now]
        BY <2>3, <2>4
      <3>2. x \in MaybeRow
        BY <1>2, <3>1
      <3> HIDE DEF x
      <3>3. x \in Row
        BY <3>1, <3>2, RowFields
      <3>4. [x EXCEPT !.read = now] \in Row /\ [x EXCEPT !.read = now].agent = x.agent
        BY <1>2, <3>3, MarkGrows DEF Row
      <3> QED BY <3>1, <3>4 DEF x
    <2>5. \A w \in DOMAIN rows : w = <<w[1], w[2]>>
      BY <2>2
    <2>6. \A w \in DOMAIN rows : rows[w] \in Row
      BY <2>4, <2>5
    <2> QED BY <1>1, <2>1, <2>2, <2>4, <2>6, WriteRowsStay
  <1> QED BY <1>3, <1>4, <1>5

LEMMA PostRowsStay ==
  ASSUME TypeOK, Carried, Post
  PROVE  RowsStay
  <1>1. local' = local
    BY DEF Post
  <1>2. PICK S \in SUBSET DOMAIN pending :
          LET batch == [r \in S |-> pending[r]]
          IN  IF Refused(batch) THEN UNCHANGED platform ELSE Write(Ingested(batch))
    BY DEF Post
  <1>3. CASE UNCHANGED platform
    BY <1>1, <1>3, PlatformRowsStay
  <1>4. CASE Write(Ingested([r \in S |-> pending[r]]))
    <2> DEFINE batch == [r \in S |-> pending[r]]
               mirror == store["mirror"]
               data(r) == IF mirror[r] = Absent THEN batch[r] ELSE Merge(mirror[r], batch[r])
               written == {r \in S : data(r) # mirror[r]}
               rows == Ingested(batch)
    <2>1. DOMAIN batch = S /\ S \subseteq Records /\ \A r \in S : batch[r] \in Row
      BY DEF TypeOK, Carried
    <2>2. rows = [w \in {"mirror"} \X written |-> data(w[2])]
      BY <2>1 DEF Ingested
    <2>3. "mirror" \in Sources /\ mirror \in [Records -> MaybeRow] /\ "mirror" # "live"
      BY DEF Sources, TypeOK, MaybeRow
    <2> HIDE DEF rows, mirror, batch
    <2>4. ASSUME NEW r \in S
          PROVE  data(r) \in Row
      <3>1. batch[r] \in Row /\ mirror[r] \in MaybeRow
        BY <2>1, <2>3
      <3>2. CASE mirror[r] # Absent
        BY <3>1, <3>2, RowFields, MergeRow
      <3> QED BY <3>1, <3>2
    <2> HIDE DEF data
    <2>5. ASSUME NEW w \in DOMAIN rows
          PROVE  w[1] = "mirror" /\ w[2] \in S /\ rows[w] = data(w[2])
      BY <2>2
    <2>6. DOMAIN rows \subseteq Sources \X Records
      BY <2>1, <2>2, <2>3
    <2>7. \A w \in DOMAIN rows : rows[w] \in Row
      BY <2>4, <2>5
    <2>8. \A r : <<"live", r>> \notin DOMAIN rows
      BY <2>2, <2>3
    <2>9. \A r : <<"mirror", r>> \in DOMAIN rows => r \in DOMAIN pending
      BY <2>2
    <2>10. Write(rows)
      BY <1>4 DEF rows, batch
    <2> QED BY <1>1, <2>6, <2>7, <2>8, <2>9, <2>10, WriteRowsStay
  <1> QED BY <1>2, <1>3, <1>4

\* What an agent-read mark writes.
LEMMA ReadMarksFields ==
  ASSUME TypeOK, Carried, NEW ids \in SUBSET Records
  PROVE  /\ DOMAIN ReadMarks(ids) \subseteq Sources \X ids
         /\ \A w \in DOMAIN ReadMarks(ids) : ReadMarks(ids)[w] \in Row
         /\ \A s \in Sources, r \in ids :
              /\ <<s, r>> \in DOMAIN ReadMarks(ids) <=> store[s][r] # Absent /\ store[s][r].seen = 0
              /\ <<s, r>> \in DOMAIN ReadMarks(ids) =>
                   /\ ReadMarks(ids)[<<s, r>>].agent = store[s][r].agent
                   /\ ReadMarks(ids)[<<s, r>>].seen = now
  <1> DEFINE unread == {w \in Marked(ids) : store[w[1]][w[2]].seen = 0}
             rows == ReadMarks(ids)
  <1>1. rows = [w \in unread |-> [store[w[1]][w[2]] EXCEPT !.seen = now]]
    BY DEF ReadMarks
  <1>2. unread \subseteq Sources \X ids
    BY DEF Marked
  <1>3. \A s \in Sources, r \in ids : <<s, r>> \in unread <=> store[s][r] # Absent /\ store[s][r].seen = 0
    BY DEF Marked
  <1>4. now \in Times \ {0} /\ store \in [Sources -> [Records -> MaybeRow]]
    BY DEF TypeOK, Carried, MaybeRow
  <1> HIDE DEF unread, rows
  <1>5. ASSUME NEW s \in Sources, NEW r \in ids, <<s, r>> \in unread
        PROVE  rows[<<s, r>>] \in Row /\ rows[<<s, r>>].agent = store[s][r].agent
               /\ rows[<<s, r>>].seen = now
    <2>1. store[s][r] \in Row
      BY <1>3, <1>4, <1>5, RowFields
    <2>2. rows[<<s, r>>] = [store[s][r] EXCEPT !.seen = now]
      BY <1>1, <1>5
    <2> QED BY <1>4, <2>1, <2>2, MarkGrows DEF Row
  <1>6. DOMAIN rows = unread
    BY <1>1
  <1>7. \A w \in unread : w = <<w[1], w[2]>> /\ w[1] \in Sources /\ w[2] \in ids
    BY <1>2
  <1>8. \A w \in unread : rows[w] \in Row
    BY <1>5, <1>7
  <1> QED BY <1>2, <1>3, <1>5, <1>6, <1>8 DEF rows

LEMMA PushReadsRowsStay ==
  ASSUME TypeOK, Carried, PushAgentReads
  PROVE  RowsStay
  <1>1. local' = local
    BY DEF PushAgentReads
  <1>2. CASE UNCHANGED platform
    BY <1>1, <1>2, PlatformRowsStay
  <1>3. CASE Write(ReadMarks(UnforwardedReads))
    <2> DEFINE ids == UnforwardedReads
               rows == ReadMarks(ids)
    <2>1. ids \subseteq Records
      BY AgentMessages DEF UnforwardedReads
    <2>2. Write(rows)
      BY <1>3
    <2> HIDE DEF ids
    <2>3. /\ DOMAIN rows \subseteq Sources \X ids
          /\ \A w \in DOMAIN rows : rows[w] \in Row
          /\ \A s \in Sources, r \in ids :
              <<s, r>> \in DOMAIN rows =>
                   store[s][r] # Absent /\ rows[<<s, r>>].agent = store[s][r].agent
      BY <2>1, ReadMarksFields
    <2> HIDE DEF rows
    <2>4. \A s, r : <<s, r>> \in DOMAIN rows => s \in Sources /\ r \in ids
      BY <2>3
    <2>5. DOMAIN rows \subseteq Sources \X Records
      BY <2>1, <2>3
    <2> QED BY <1>1, <2>2, <2>3, <2>4, <2>5, WriteRowsStay
  <1> QED BY <1>2, <1>3 DEF PushAgentReads

LEMMA EveryRowStays ==
  ASSUME TypeOK, Carried, Next
  PROVE  RowsStay
  <1>1. CASE SyncOnce \/ PostAnswered \/ PushDone \/ Pull \/ ReadsAnswered \/ PassLost
               \/ Expose \/ Unexpose \/ Tick
    <2>1. local' = local /\ UNCHANGED platform
      BY <1>1 DEF SyncOnce, PostAnswered, PushDone, Pull, ReadsAnswered, PassLost, Expose, Unexpose, Tick
    <2> QED BY <2>1, PlatformRowsStay
  <1>2. CASE PageArrived
    <2>1. UNCHANGED platform /\ (local' = local \/ local' = Imported(page.rows))
      BY <1>2 DEF PageArrived
    <2>2. ASSUME NEW r \in Records, local[r] # Absent
          PROVE  local'[r] # Absent
      <3>1. CASE local' = local
        BY <2>2, <3>1
      <3>2. CASE local' = Imported(page.rows)
        <4>1. /\ r \notin DOMAIN page.rows => local'[r] = local[r]
              /\ r \in DOMAIN page.rows => local'[r] \in Row
          BY <3>2, ImportFields DEF Carried
        <4> QED BY <2>2, <4>1, RowFields DEF MaybeRow
      <3> QED BY <2>1, <3>1, <3>2
    <2> QED BY <2>1, <2>2, PlatformRowsStay
  <1>3. ASSUME NEW q \in Records,
               LocalInsert(q) \/ LocalRead(q) \/ LocalAgentRead(q) \/ LocalCall(q)
        PROVE  RowsStay
    <2>1. UNCHANGED platform
      BY <1>3 DEF LocalInsert, LocalRead, LocalAgentRead, LocalCall
    <2>2. \A r \in Records : local[r] # Absent => local'[r] # Absent
      BY <1>3, LocalFields
    <2> QED BY <2>1, <2>2, PlatformRowsStay
  <1> QED BY <1>1, <1>2, <1>3, PostRowsStay, PushReadsRowsStay, LiveRowsStay DEF Next, Engine

\* ForwardedTo and a cursor's share of ReadsInv, of given rows and clock.
Forwarded(mine, live, agent, upto) ==
  \A r \in ToAgent :
    /\ mine[r] # Absent /\ mine[r].seen \in 1 .. upto
    /\ live[r] # Absent /\ live[r].agent = agent /\ agent # 0
    => live[r].seen # 0

Behind(c, mine, live, time) == c.reads < time /\ Forwarded(mine, live, c.context, c.reads)

CursorsBehind ==
  Behind(cursors, local, store["live"], now) /\ Behind(saved, local, store["live"], now)

RequestReads ==
  /\ pc # "idle" => cursors.context = ctx
  /\ pc = "marked" => Forwarded(local, store["live"], ctx, page.next - 1)
  /\ pc = "pulled" => \A r \in DOMAIN page.rows : Paged(r)
  /\ \A r \in DOMAIN pending : local[r] # Absent

RowsNamed ==
  /\ \A r \in Records : store["mirror"][r] # Absent => local[r] # Absent
  /\ \A r \in Records : Named(r)

LEMMA ReadsParts == ReadsInv <=> CursorsBehind /\ RequestReads /\ RowsNamed
  BY DEF ReadsInv, ForwardedTo, CursorsBehind, RequestReads, RowsNamed, Behind, Forwarded

LEMMA ReadsPartsAgain ==
  ASSUME CursorsBehind', RequestReads', RowsNamed'
  PROVE  ReadsInv'
  BY DEF ReadsInv, ForwardedTo, CursorsBehind, RequestReads, RowsNamed, Behind, Forwarded

\* Where a local read comes from: it was there, it is made now, or a page
\* brought it, and then the live row has it.
ReadsKept ==
  \A r \in ToAgent : local'[r] # Absent /\ local'[r].seen # 0 =>
    \/ local[r] # Absent /\ local'[r].seen = local[r].seen
    \/ local'[r].seen = now
    \/ store'["live"][r] # Absent => store'["live"][r].seen # 0

LEMMA LocalReads ==
  ASSUME TypeOK, Carried, RowsNamed, RequestReads, RowsStay, Next
  PROVE  ReadsKept /\ \A r \in Records : Named(r)'
  <1>1. CASE local' = local
    BY <1>1, AgentMessages DEF ReadsKept, RowsNamed, RowsStay, Named
  <1>2. ASSUME NEW q \in Records,
               LocalInsert(q) \/ LocalRead(q) \/ LocalAgentRead(q) \/ LocalCall(q)
        PROVE  ReadsKept /\ \A r \in Records : Named(r)'
    <2>1. store' = store
      BY <1>2 DEF LocalInsert, LocalRead, LocalAgentRead, LocalCall, platform
    <2>2. ASSUME NEW r \in Records
          PROVE  /\ local'[r].agent = local[r].agent
                 /\ local'[r].seen = local[r].seen \/ local'[r].seen = now
      BY <1>2, LocalFields
    <2>3. Absent.agent = 0 /\ Absent.seen = 0
      BY DEF Absent
    <2>4. ReadsKept
      BY <2>1, <2>2, <2>3, AgentMessages DEF ReadsKept
    <2>5. \A r \in Records : Named(r)'
      BY <2>1, <2>2, <2>3 DEF RowsNamed, Named
    <2> QED BY <2>4, <2>5
  <1>3. CASE PageArrived /\ local' = Imported(page.rows)
    <2>1. store' = store /\ pc = "pulled"
      BY <1>3 DEF PageArrived, platform
    <2>2. ASSUME NEW r \in Records, r \in DOMAIN page.rows
          PROVE  /\ r \in ToAgent /\ local'[r].seen # 0 =>
                      \/ local[r] # Absent /\ local'[r].seen = local[r].seen
                      \/ store["live"][r] # Absent => store["live"][r].seen # 0
                 /\ local'[r] # Absent =>
                      \/ local'[r].agent = 0
                      \/ store["live"][r] # Absent /\ local'[r].agent = store["live"][r].agent
      <3>1. /\ local'[r].seen = First(local[r].seen, page.rows[r].seen)
            /\ local'[r].agent \in
                 {0, IF local[r] = Absent THEN page.rows[r].agent ELSE local[r].agent}
        BY <1>3, <2>2, ImportFields DEF Carried
      <3>2. Paged(r) /\ Named(r)
        BY <2>1, <2>2 DEF RequestReads, RowsNamed
      <3>3. First(local[r].seen, page.rows[r].seen) \in {local[r].seen, page.rows[r].seen}
        BY DEF First
      <3>4. Absent.seen = 0
        BY DEF Absent
      <3> QED BY <3>1, <3>2, <3>3, <3>4 DEF Paged, Named
    <2>3. ASSUME NEW r \in Records, r \notin DOMAIN page.rows
          PROVE  local'[r] = local[r]
      BY <1>3, <2>3, ImportFields DEF Carried
    <2>4. ReadsKept
      BY <2>1, <2>2, <2>3, AgentMessages DEF ReadsKept
    <2>5. \A r \in Records : Named(r)'
      BY <2>1, <2>2, <2>3 DEF RowsNamed, Named
    <2> QED BY <2>4, <2>5
  <1>4. \/ local' = local
        \/ PageArrived /\ local' = Imported(page.rows)
        \/ \E q \in Records : LocalInsert(q) \/ LocalRead(q) \/ LocalAgentRead(q) \/ LocalCall(q)
    BY DEF Next, Engine, SyncOnce, Post, PostAnswered, PushDone, Pull, PageArrived, PushAgentReads,
           ReadsAnswered, PassLost, LiveInsert, PlatformRead, PlatformCall, Expose, Unexpose, Tick
  <1> QED BY <1>1, <1>2, <1>3, <1>4

\* A cursor that lies behind the clock stays true.
LEMMA ForwardedStays ==
  ASSUME TypeOK, Typed, NothingBack, RowsStay, ReadsKept, now \in Nat,
         NEW agent, NEW upto \in Nat, upto < now,
         Forwarded(local, store["live"], agent, upto)
  PROVE  Forwarded(local', store'["live"], agent, upto)
  <1> SUFFICES ASSUME NEW r \in ToAgent,
                      local'[r] # Absent, local'[r].seen \in 1 .. upto,
                      store'["live"][r] # Absent, store'["live"][r].agent = agent, agent # 0
               PROVE  store'["live"][r].seen # 0
    BY DEF Forwarded
  <1>1. local'[r].seen # 0 /\ local'[r].seen # now
    OBVIOUS
  <1>2. CASE local[r] # Absent /\ local'[r].seen = local[r].seen
    <2>1. store["live"][r] # Absent /\ store["live"][r].agent = agent
      BY <1>2 DEF RowsStay
    <2>2. store["live"][r].seen # 0
      BY <1>2, <2>1 DEF Forwarded
    <2>3. "live" \in Sources /\ r \in Records
      BY AgentMessages DEF Sources
    <2>4. Grows(store["live"][r], store'["live"][r])
      BY <2>3 DEF NothingBack
    <2>5. store["live"][r] \in MaybeRow
      BY <2>3 DEF TypeOK, MaybeRow
    <2>6. store["live"][r].seen \in Nat
      BY <2>5, RowFields, TimesAreNat
    <2> QED BY <2>1, <2>2, <2>4, <2>6 DEF Grows
  <1> QED BY <1>1, <1>2 DEF ReadsKept

LEMMA PagedStays ==
  ASSUME TypeOK, Typed, NothingBack, RowsStay, page' = page, NEW r \in Records, Paged(r)
  PROVE  Paged(r)'
  <1>1. "live" \in Sources
    BY DEF Sources
  <1>2. Grows(store["live"][r], store'["live"][r]) /\ store["live"][r].seen \in Nat
    <2>1. store["live"][r] \in MaybeRow
      BY <1>1 DEF TypeOK, MaybeRow
    <2> QED BY <1>1, <2>1, RowFields, TimesAreNat DEF NothingBack
  <1>3. store["live"][r].seen # 0 => store["live"][r] # Absent /\ store'["live"][r].seen # 0
    BY <1>2 DEF Grows, Absent
  <1>4. local'[r] = Absent => local[r] = Absent
    BY DEF RowsStay
  <1>5. r \in ToAgent /\ store'["live"][r] # Absent => store["live"][r] # Absent \/ local[r] = Absent
    BY DEF RowsStay
  <1> QED BY <1>3, <1>4, <1>5 DEF Paged, RowsStay

LEMMA IdleReads ==
  ASSUME Idle
  PROVE  RequestReads'
  BY DEF Idle, RequestReads

\* The page a pull reads: a row of a message is its live row where there is
\* one, or a mirrored one, which was pushed.
LEMMA PulledRows ==
  ASSUME RowsNamed, NEW cursor, NEW r \in Records, r \in DOMAIN SyncPage(cursor).rows,
         SyncPage(cursor).rows[r] # Absent
  PROVE  IF store["live"][r] = Absent THEN local[r] # Absent
         ELSE SyncPage(cursor).rows[r] = store["live"][r]
  <1>1. SyncPage(cursor).rows[r] = Shown(r)
    BY DEF SyncPage
  <1> QED BY <1>1 DEF Shown, RowsNamed

\* The reads a mark carries: the ones since the cursor are on the platform once
\* it is taken, and the ones before it were.
LEMMA MarkedReads ==
  ASSUME TypeOK, Carried, Progressed, ReadsInv, PushAgentReads,
         NothingBack, RowsStay, ~Idle
  PROVE  Forwarded(local', store'["live"], ctx, now - 1)
  <1> DEFINE ids == UnforwardedReads
  <1>1. Write(ReadMarks(ids)) /\ local' = local /\ pc = "reads"
    BY DEF PushAgentReads
  <1>2. ids \subseteq Records /\ "live" \in Sources /\ now \in Nat
    BY AgentMessages, TimesAreNat DEF UnforwardedReads, Sources, TypeOK
  <1>3. /\ DOMAIN ReadMarks(ids) \subseteq Sources \X ids
        /\ \A w \in DOMAIN ReadMarks(ids) : ReadMarks(ids)[w] \in Row
        /\ \A s \in Sources, r \in ids :
              /\ <<s, r>> \in DOMAIN ReadMarks(ids) <=> store[s][r] # Absent /\ store[s][r].seen = 0
              /\ <<s, r>> \in DOMAIN ReadMarks(ids) => ReadMarks(ids)[<<s, r>>].seen = now
    <2> HIDE DEF ids
    <2> QED BY <1>2, ReadMarksFields
  <1>4. \A s \in Sources, r \in Records :
          store'[s][r] = IF <<s, r>> \in DOMAIN ReadMarks(ids) THEN ReadMarks(ids)[<<s, r>>]
                         ELSE store[s][r]
    <2> DEFINE rows == ReadMarks(ids)
    <2>1. DOMAIN rows \subseteq Sources \X Records
      BY <1>2, <1>3
    <2>2. (\A w \in DOMAIN rows : rows[w] \in Row) /\ Write(rows)
      BY <1>1, <1>3
    <2> HIDE DEF rows
    <2>3. \A s \in Sources, r \in Records :
            store'[s][r] = IF <<s, r>> \in DOMAIN rows THEN rows[<<s, r>>] ELSE store[s][r]
      BY <2>1, <2>2, WriteFacts
    <2> QED BY <2>3 DEF rows
  <1> SUFFICES ASSUME NEW r \in ToAgent,
                      local[r] # Absent, local[r].seen \in 1 .. now - 1,
                      store'["live"][r] # Absent, store'["live"][r].agent = ctx, ctx # 0
               PROVE  store'["live"][r].seen # 0
    BY <1>1 DEF Forwarded
  <1>5. store["live"][r] # Absent /\ store["live"][r].agent = ctx /\ r \in Records
    BY AgentMessages DEF RowsStay
  <1>6. store["live"][r] \in MaybeRow
    BY <1>2, <1>5 DEF TypeOK, MaybeRow
  <1>7. store["live"][r].seen \in Nat /\ cursors.reads \in Nat
    <2>1. store["live"][r].seen \in Nat
      BY <1>6, RowFields, TimesAreNat
    <2>2. cursors.reads \in 0 .. now
      BY DEF Progressed, Kept
    <2> QED BY <1>2, <2>1, <2>2
  <1>8. CASE r \in ids
    <2>1. now # 0
      BY DEF Carried
    <2> DEFINE rows == ReadMarks(ids)
    <2> HIDE DEF ids
    <2>2. /\ <<"live", r>> \in DOMAIN rows <=> store["live"][r] # Absent /\ store["live"][r].seen = 0
          /\ <<"live", r>> \in DOMAIN rows => rows[<<"live", r>>].seen = now
      BY <1>2, <1>3, <1>8
    <2>3. store'["live"][r] = IF <<"live", r>> \in DOMAIN rows THEN rows[<<"live", r>>]
                              ELSE store["live"][r]
      BY <1>2, <1>4, <1>5
    <2> HIDE DEF rows
    <2> QED BY <1>5, <2>1, <2>2, <2>3
  <1>9. CASE r \notin ids
    <2>1. local[r].agent \in {0, ctx}
      BY <1>5 DEF ReadsInv, Named
    <2>2. local[r].seen \in 1 .. cursors.reads
      BY <1>2, <1>5, <1>7, <1>9, <2>1 DEF UnforwardedReads
    <2>3. cursors.context = ctx
      BY <1>1 DEF ReadsInv
    <2>4. store["live"][r].seen # 0
      BY <1>5, <2>2, <2>3 DEF ReadsInv, ForwardedTo
    <2>5. Grows(store["live"][r], store'["live"][r])
      BY <1>2, <1>5 DEF NothingBack
    <2> QED BY <1>5, <1>7, <2>4, <2>5 DEF Grows
  <1> QED BY <1>8, <1>9

LEMMA ReadsInit == Init => ReadsInv
  <1> SUFFICES ASSUME Init PROVE ReadsInv
    OBVIOUS
  <1>1. /\ cursors.reads = 0 /\ saved.reads = 0 /\ now = 1 /\ pc = "idle" /\ DOMAIN pending = {}
        /\ \A r \in Records : local[r] = Absent /\ store["mirror"][r] = Absent
    BY DEF Init, Start, Sources
  <1>2. \A r \in ToAgent : local[r] = Absent
    BY <1>1, AgentMessages
  <1> QED BY <1>1, <1>2 DEF ReadsInv, ForwardedTo, Named

LEMMA ReadsNext == IInv /\ ReadsInv /\ [Next]_vars => ReadsInv'
  <1> SUFFICES ASSUME IInv, ReadsInv, [Next]_vars PROVE ReadsInv'
    OBVIOUS
  <1>1. CASE UNCHANGED vars
    BY <1>1 DEF vars, platform, pass, ReadsInv, ForwardedTo, Named, Paged
  <1>2. CASE Next
    <2>1. /\ Request /\ Clocks /\ Progressed /\ TypeOK /\ Carried /\ Revised
          /\ CursorsBehind /\ RequestReads /\ RowsNamed
      BY Parts, ReadsParts DEF IInv
    <2>2. Typed /\ NothingBack /\ RowsStay
      BY <1>2, <2>1, EveryStep, EveryRowStays
    <2>3. ReadsKept /\ \A r \in Records : Named(r)'
      BY <1>2, <2>1, <2>2, LocalReads
    <2>4. Clocks' /\ now <= now' /\ now \in Nat /\ now' \in Nat
      BY <1>2, <2>1, ClocksRun, TimesAreNat DEF Clocks
    <2>5. RowsNamed'
      BY <2>1, <2>2, <2>3 DEF RowsNamed, RowsStay, RequestReads
    <2>6. cursors.reads \in Nat /\ saved.reads \in Nat
      BY <2>1, <2>4 DEF Progressed, Kept
    <2>7. /\ Behind(cursors, local', store'["live"], now')
          /\ Behind(saved, local', store'["live"], now')
      BY <2>1, <2>2, <2>3, <2>4, <2>6, ForwardedStays DEF CursorsBehind, Behind
    <2> SUFFICES CursorsBehind' /\ RequestReads'
      BY <2>5, ReadsPartsAgain
    <2>8. CASE SyncOnce
      <3> DEFINE c == Resumed(ident)
      <3>1. /\ cursors' = c /\ saved' = saved /\ pending' = Unpushed(ident, c) /\ ctx' = ident
            /\ pc' = "push"
        BY <2>8 DEF SyncOnce
      <3>2. c.context = ident /\ (c = cursors \/ c.reads = 0)
        BY DEF Resumed, Start
      <3>3. Behind(c, local', store'["live"], now')
        <4>1. now' # 0
          BY <2>4 DEF Clocks
        <4> QED BY <2>4, <2>7, <3>2, <4>1 DEF Behind, Forwarded
      <3> HIDE DEF c
      <3>4. \A r \in DOMAIN pending' : r \in Records /\ local[r] # Absent
        BY <3>1 DEF Unpushed, InScope
      <3>5. \A r \in DOMAIN pending' : local'[r] # Absent
        BY <2>2, <3>4 DEF RowsStay
      <3>6. RequestReads'
        BY <3>1, <3>2, <3>5 DEF RequestReads
      <3> QED BY <2>7, <3>1, <3>3, <3>6 DEF CursorsBehind
    <2>9. CASE Post
      <3>1. cursors' = cursors /\ saved' = saved /\ pc = "push"
        BY <2>9 DEF Post
      <3>2. Idle \/ (pc' = "posted" /\ UNCHANGED <<ctx, pending>>)
        BY <2>9 DEF Post
      <3>3. CASE pc' = "posted" /\ UNCHANGED <<ctx, pending>>
        BY <2>1, <2>2, <2>7, <3>1, <3>3 DEF CursorsBehind, RequestReads, RowsStay, Request
      <3> QED BY <2>7, <3>1, <3>2, <3>3, IdleReads DEF CursorsBehind
    <2>10. CASE PostAnswered
      <3>1. PICK p : LET c == [cursors EXCEPT !.pushed = p]
                         rest == [r \in DOMAIN pending \ DOMAIN page.rows |-> pending[r]]
                     IN  SaveAndGo(c, "push", rest) /\ pc = "posted"
        BY <2>10 DEF PostAnswered, RowsPushed
      <3> DEFINE c == [cursors EXCEPT !.pushed = p]
                 rest == [r \in DOMAIN pending \ DOMAIN page.rows |-> pending[r]]
      <3>2. c.context = cursors.context /\ c.reads = cursors.reads /\ DOMAIN rest \subseteq DOMAIN pending
        BY <2>1 DEF Progressed, Kept
      <3>3. SaveAndGo(c, "push", rest) /\ pc = "posted"
        BY <3>1
      <3> HIDE DEF c, rest
      <3>4. CASE cursors' = c /\ saved' = c /\ pc' = "push" /\ pending' = rest /\ ctx' = ctx
        <4>1. CursorsBehind'
          BY <2>7, <3>2, <3>4 DEF CursorsBehind, Behind
        <4>2. RequestReads'
          BY <2>1, <2>2, <3>2, <3>3, <3>4 DEF RequestReads, RowsStay, Request
        <4> QED BY <4>1, <4>2
      <3>5. CASE cursors' = saved /\ saved' = saved /\ Idle
        BY <2>7, <3>5, IdleReads DEF CursorsBehind
      <3> QED BY <3>3, <3>4, <3>5 DEF SaveAndGo
    <2>11. CASE PushDone
      <3>1. pc = "push" /\ pc' = "pull" /\ UNCHANGED <<cursors, saved, ctx, pending, page>>
        BY <2>11 DEF PushDone
      <3> QED BY <2>1, <2>2, <2>7, <3>1 DEF CursorsBehind, RequestReads, RowsStay, Request
    <2>12. CASE Pull
      <3>1. /\ pc = "pull" /\ pc' = "pulled" /\ page' = SyncPage(cursors.pull)
            /\ UNCHANGED <<cursors, saved, ctx, pending, local, store>>
        BY <2>12 DEF Pull, platform
      <3>2. cursors.pull \in 0 .. revision
        BY <2>1 DEF Progressed, Kept
      <3>3. ASSUME NEW r \in DOMAIN page'.rows
            PROVE  Paged(r)'
        <4>1. page'.rows[r] # Absent
          BY <2>1, <3>1, <3>2, PageRows, RowFields DEF MaybeRow
        <4>2. r \in Records
          BY <2>1, <3>1, <3>2, PageRows
        <4> QED BY <2>1, <3>1, <4>1, <4>2, PulledRows DEF Paged
      <3> QED BY <2>1, <2>2, <2>7, <3>1, <3>3 DEF CursorsBehind, RequestReads, RowsStay, Request
    <2>13. CASE PageArrived
      <3> DEFINE c == [cursors EXCEPT !.pull = page.next]
      <3>1. /\ pc = "pulled"
            /\ \/ SaveAndGo(c, IF page.more THEN "pull" ELSE "reads", pending)
               \/ Idle /\ UNCHANGED <<cursors, saved>>
        BY <2>13 DEF PageArrived
      <3>2. c.context = cursors.context /\ c.reads = cursors.reads
        BY <2>1 DEF Progressed, Kept
      <3> HIDE DEF c
      <3>3. CASE /\ cursors' = c /\ saved' = c /\ pc' \in {"pull", "reads"} /\ pending' = pending
                 /\ ctx' = ctx
        <4>1. CursorsBehind'
          BY <2>7, <3>2, <3>3 DEF CursorsBehind, Behind
        <4>2. RequestReads'
          BY <2>1, <2>2, <3>1, <3>2, <3>3 DEF RequestReads, RowsStay, Request
        <4> QED BY <4>1, <4>2
      <3>4. CASE cursors' \in {cursors, saved} /\ saved' = saved /\ Idle
        BY <2>7, <3>4, IdleReads DEF CursorsBehind
      <3> QED BY <3>1, <3>3, <3>4 DEF SaveAndGo
    <2>14. CASE PushAgentReads
      <3>1. cursors' = cursors /\ saved' = saved /\ pc = "reads"
        BY <2>14 DEF PushAgentReads
      <3>2. CASE ~Idle
        <4>1. page' = [NoPage EXCEPT !.next = now] /\ pc' = "marked" /\ UNCHANGED <<ctx, pending>>
          BY <2>14, <3>2 DEF PushAgentReads
        <4>2. page'.next = now
          BY <4>1 DEF NoPage
        <4>3. Forwarded(local', store'["live"], ctx', page'.next - 1)
          BY <2>1, <2>2, <2>14, <3>2, <4>1, <4>2, MarkedReads
        <4> QED BY <2>1, <2>2, <2>7, <3>1, <4>1, <4>3 DEF CursorsBehind, RequestReads, RowsStay, Request
      <3> QED BY <2>7, <3>1, <3>2, IdleReads DEF CursorsBehind
    <2>15. CASE ReadsAnswered
      <3> DEFINE c == [cursors EXCEPT !.reads = ReadCursor(page.next)]
      <3>1. Idle /\ ((cursors' = c /\ saved' = c) \/ (cursors' = saved /\ saved' = saved)) /\ pc = "marked"
        BY <2>15 DEF ReadsAnswered
      <3>2. page.next \in 1 .. now
        BY <2>1, <3>1 DEF Carried
      <3>3. page.next - 1 \in Nat /\ page.next - 1 < now /\ page.next - 1 < now'
        BY <2>4, <3>2
      <3>4. Forwarded(local', store'["live"], ctx, page.next - 1) /\ cursors.context = ctx
        BY <2>1, <2>2, <2>3, <2>4, <3>1, <3>3, ForwardedStays DEF RequestReads
      <3>5. c.context = cursors.context /\ c.reads = page.next - 1
        BY <2>1 DEF Progressed, Kept, ReadCursor
      <3> HIDE DEF c
      <3>6. Behind(c, local', store'["live"], now')
        BY <3>3, <3>4, <3>5 DEF Behind
      <3> QED BY <2>7, <3>1, <3>6, IdleReads DEF CursorsBehind
    <2>16. CASE PassLost
      <3>1. Idle /\ cursors' \in {cursors, saved} /\ saved' = saved
        BY <2>16 DEF PassLost
      <3> QED BY <2>7, <3>1, IdleReads DEF CursorsBehind
    <2>17. CASE Around \/ Expose \/ Unexpose \/ Tick
      <3>1. UNCHANGED <<cursors, saved, pc, ctx, pending, page>>
        BY <2>17 DEF Around, LocalInsert, LocalRead, LocalAgentRead, LocalCall, LiveInsert,
                     PlatformRead, PlatformCall, Expose, Unexpose, Tick, pass
      <3>2. CursorsBehind'
        BY <2>7, <3>1 DEF CursorsBehind
      <3>3. pc = "marked" => Forwarded(local', store'["live"], ctx, page.next - 1)
        <4> SUFFICES ASSUME pc = "marked"
                     PROVE  Forwarded(local', store'["live"], ctx, page.next - 1)
          OBVIOUS
        <4>1. page.next \in 1 .. now
          BY <2>1 DEF Carried
        <4>2. page.next - 1 \in Nat /\ page.next - 1 < now
          BY <2>4, <4>1
        <4> QED BY <2>1, <2>2, <2>3, <2>4, <4>2, ForwardedStays DEF RequestReads
      <3>4. pc = "pulled" => \A r \in DOMAIN page.rows : Paged(r)'
        BY <2>1, <2>2, <3>1, PagedStays DEF RequestReads, Carried
      <3>5. \A r \in DOMAIN pending : local'[r] # Absent
        BY <2>1, <2>2 DEF RequestReads, RowsStay, Request
      <3>6. RequestReads'
        BY <2>1, <3>1, <3>3, <3>4, <3>5 DEF RequestReads
      <3> QED BY <3>2, <3>6
    <2> QED BY <1>2, <2>8, <2>9, <2>10, <2>11, <2>12, <2>13, <2>14, <2>15, <2>16, <2>17
        DEF Next, Engine, Around
  <1> QED BY <1>1, <1>2

\* An agent's read of a message the platform routed to it is never left behind
\* by the saved or the running cursor of forwarded reads (pushAgentReads), for
\* any clock, whatever is lost and however reads, pages, marks and exposures
\* interleave.
THEOREM ReadsAreForwarded == Spec => []ReadsForwarded
  <1>1. IInv /\ ReadsInv => ReadsForwarded
    BY DEF ReadsInv, ForwardedTo, ReadsForwarded, OwnedIdents
  <1>2. Spec => []ReadsInv
    BY ReadsInit, ReadsNext, Invariance, PTL DEF Spec
  <1> QED BY <1>1, <1>2, Invariance, PTL

-----------------------------------------------------------------------------
(* Pulls: the cursor passes nothing the machine has not imported.          *)

\* The change log, as a step leaves it: a row is as it was, or its revision is
\* a new one.
Logged ==
  \A s \in Sources, r \in Records :
    \/ store'[s][r] = store[s][r] /\ changes'[s][r] = changes[s][r]
    \/ changes'[s][r] > revision

LEMMA EveryStepLogged ==
  ASSUME TypeOK, Typed, Next
  PROVE  Logged
  <1>1. CASE UNCHANGED platform
    BY <1>1 DEF platform, Logged
  <1>2. ASSUME NEW rows, Write(rows)
        PROVE  Logged
    <2>1. revision' = revision + Cardinality(DOMAIN rows) /\ revision \in Nat /\ revision' \in Nat
      BY <1>2 DEF Write, TypeOK, Typed
    <2>2. PICK order \in [DOMAIN rows -> revision + 1 .. revision'] :
            changes' = [s \in Sources |-> [r \in Records |->
                          IF <<s, r>> \in DOMAIN rows THEN order[<<s, r>>] ELSE changes[s][r]]]
      BY <1>2, <2>1 DEF Write
    <2>3. ASSUME NEW s \in Sources, NEW r \in Records
          PROVE  \/ store'[s][r] = store[s][r] /\ changes'[s][r] = changes[s][r]
                 \/ changes'[s][r] > revision
      <3>1. CASE <<s, r>> \in DOMAIN rows
        <4>1. order[<<s, r>>] \in revision + 1 .. revision'
          BY <2>2, <3>1
        <4>2. changes'[s][r] = order[<<s, r>>]
          BY <2>2, <3>1
        <4> QED BY <2>1, <4>1, <4>2
      <3>2. CASE <<s, r>> \notin DOMAIN rows
        BY <1>2, <2>2, <3>2 DEF Write
      <3> QED BY <3>1, <3>2
    <2> QED BY <2>3 DEF Logged
  <1>3. UNCHANGED platform \/ \E rows : Write(rows)
    <2>1. CASE SyncOnce \/ PostAnswered \/ PushDone \/ Pull \/ PageArrived \/ ReadsAnswered \/ PassLost
                 \/ Expose \/ Unexpose \/ Tick
      BY <2>1 DEF SyncOnce, PostAnswered, PushDone, Pull, PageArrived, ReadsAnswered, PassLost,
                  Expose, Unexpose, Tick
    <2>2. ASSUME NEW r \in Records,
                 LocalInsert(r) \/ LocalRead(r) \/ LocalAgentRead(r) \/ LocalCall(r)
          PROVE  UNCHANGED platform
      BY <2>2 DEF LocalInsert, LocalRead, LocalAgentRead, LocalCall
    <2>3. ASSUME NEW r \in Records, LiveInsert(r) \/ PlatformRead(r) \/ PlatformCall(r)
          PROVE  \E rows : Write(rows)
      BY <2>3 DEF LiveInsert, PlatformRead, PlatformCall
    <2>4. CASE Post \/ PushAgentReads
      BY <2>4 DEF Post, PushAgentReads
    <2> QED BY <2>1, <2>2, <2>3, <2>4 DEF Next, Engine
  <1> QED BY <1>1, <1>2, <1>3

\* Shown, Passed and Covered, of given rows and revisions.
ShownOf(rows, r) == IF rows["live"][r] # Absent THEN rows["live"][r] ELSE rows["mirror"][r]

PassedOf(rows, log, agent, r, upto) ==
  /\ ShownOf(rows, r) # Absent
  /\ OwnedBy(agent, r, ShownOf(rows, r))
  /\ \A s \in Sources : log[s][r] <= upto

CoveredOf(mine, rows, log, agent, upto) ==
  \A r \in Records : PassedOf(rows, log, agent, r, upto) =>
    /\ Absorbed(mine[r], ShownOf(rows, r))
    /\ r \in Msgs \cap WithAgent => mine[r].agent \notin {agent} \ {0}

\* What is passed after a step was passed before it, and is shown as it was.
LEMMA PassedBefore ==
  ASSUME TypeOK, Typed, Logged, NEW upto \in 0 .. revision, NEW r \in Records,
         \A s \in Sources : changes'[s][r] <= upto
  PROVE  /\ ShownOf(store', r) = ShownOf(store, r)
         /\ \A s \in Sources : changes'[s][r] = changes[s][r]
  <1>1. revision \in Nat /\ upto \in Nat /\ upto <= revision
    BY DEF TypeOK
  <1>2. "live" \in Sources /\ "mirror" \in Sources
    BY DEF Sources
  <1>3. ASSUME NEW s \in Sources
        PROVE  store'[s][r] = store[s][r] /\ changes'[s][r] = changes[s][r]
    <2>1. changes'[s][r] \in Nat /\ changes'[s][r] <= upto
      BY DEF Typed
    <2> QED BY <1>1, <2>1 DEF Logged
  <1> QED BY <1>2, <1>3 DEF ShownOf

\* What absorbs a row absorbs one with the same marks and state.
LEMMA AbsorbsMarks ==
  ASSUME NEW x \in Row, NEW y \in Row, NEW z \in Row, NEW w \in Row, Absorbed(x, z),
         y.read = x.read, y.seen = x.seen, y.state = x.state,
         w.read = z.read, w.seen = z.seen, w.state = z.state
  PROVE  Absorbed(y, w)
  <1>1. x \in MaybeRow /\ y \in MaybeRow /\ y # Absent
    BY RowFields DEF MaybeRow
  <1> QED BY <1>1, MergeFields DEF Absorbed

LEMMA PhaseAbsorbs ==
  ASSUME NEW x \in Row, NEW z \in Row, Absorbed(x, z), NEW state \in NextState(x.state)
  PROVE  Absorbed([x EXCEPT !.state = state], z)
  <1> DEFINE y == [x EXCEPT !.state = state]
  <1>1. x \in MaybeRow
    BY DEF MaybeRow
  <1>2. y \in Row /\ y.read = x.read /\ y.seen = x.seen /\ y.state = state
    BY PhaseGrows DEF Row
  <1> HIDE DEF y
  <1>3. y \in MaybeRow /\ y # Absent
    BY <1>2, RowFields DEF MaybeRow
  <1>4. z.state \in Phases
    BY DEF Row
  <1>5. /\ First(x.read, z.read) = x.read /\ First(x.seen, z.seen) = x.seen
        /\ ~Terminal(x.state) /\ (Terminal(z.state) \/ z.state = "active") => z.state = x.state
    BY <1>1, MergeFields DEF Absorbed
  <1>6. ~Terminal(state) /\ (Terminal(z.state) \/ z.state = "active") => z.state = state
    BY <1>4, <1>5 DEF NextState, Terminal, Phases
  <1>7. Absorbed(y, z)
    BY <1>2, <1>3, <1>5, <1>6, MergeFields DEF Absorbed
  <1> QED BY <1>7 DEF y

\* A page imported: its rows are absorbed, with what was before.
LEMMA ImportAbsorbs ==
  ASSUME TypeOK, NEW rows, DOMAIN rows \subseteq Records, \A r \in DOMAIN rows : rows[r] \in Row,
         NEW r \in Records
  PROVE  /\ \A z \in Row : Absorbed(local[r], z) => Absorbed(Imported(rows)[r], z)
         /\ r \in DOMAIN rows => Absorbed(Imported(rows)[r], rows[r])
         /\ r \in DOMAIN rows /\ r \in Msgs \cap WithAgent /\ ctx # 0
            /\ (local[r] # Absent => local[r].agent \in {0, rows[r].agent})
              => Imported(rows)[r].agent # ctx
  <1> DEFINE row == ToLocal(r, rows[r])
             merged == Merge(local[r], row)
             x == Imported(rows)[r]
  <1>1. x = IF r \notin DOMAIN rows THEN local[r]
            ELSE CASE local[r] = Absent -> row
                   [] local[r] # Absent /\ r \in Msgs /\ row.agent # rows[r].agent ->
                        [merged EXCEPT !.agent = row.agent]
                   [] OTHER -> merged
    BY DEF Imported
  <1>2. ASSUME r \in DOMAIN rows
        PROVE  /\ row \in Row /\ row.read = rows[r].read /\ row.seen = rows[r].seen
               /\ row.state = rows[r].state
               /\ IF r \in WithAgent /\ rows[r].agent = ctx THEN row.agent = 0
                  ELSE row.agent = rows[r].agent
    BY <1>2 DEF ToLocal, Row, Idents
  <1>3. local[r] \in MaybeRow
    BY DEF TypeOK, MaybeRow
  <1> HIDE DEF row, x
  <1>4. CASE r \notin DOMAIN rows
    BY <1>1, <1>4 DEF x
  <1>5. CASE r \in DOMAIN rows /\ local[r] = Absent
    <2>1. x = row /\ row \in Row /\ rows[r] \in Row
      BY <1>1, <1>2, <1>5
    <2>2. Absorbed(row, row)
      BY <2>1, MergeAbsorbs
    <2>3. Absorbed(x, rows[r])
      BY <1>2, <1>5, <2>1, <2>2, AbsorbsMarks
    <2>4. r \in WithAgent /\ ctx # 0 => x.agent # ctx
      BY <1>2, <1>5, <2>1
    <2> QED BY <1>5, <2>3, <2>4 DEF x, Absorbed
  <1>6. CASE r \in DOMAIN rows /\ local[r] # Absent
    <2> DEFINE m == merged
    <2>1. local[r] \in Row /\ row \in Row /\ rows[r] \in Row
      BY <1>2, <1>3, <1>6, RowFields
    <2>2. /\ m \in Row /\ m.agent = local[r].agent /\ Absorbed(m, row)
          /\ \A z \in Row : Absorbed(local[r], z) => Absorbed(m, z)
      BY <1>3, <2>1, MergeRow, MergeFields, MergeAbsorbs
    <2>3. \/ x = m
          \/ r \in WithAgent /\ x = [m EXCEPT !.agent = 0]
      BY <1>1, <1>2, <1>6
    <2>4. r \in Msgs /\ r \in WithAgent /\ rows[r].agent = ctx /\ ctx # 0 => x = [m EXCEPT !.agent = 0]
      BY <1>1, <1>2, <1>6
    <2> HIDE DEF m
    <2>5. LET y == [m EXCEPT !.agent = 0]
          IN  y \in Row /\ y.read = m.read /\ y.seen = m.seen /\ y.state = m.state /\ y.agent = 0
      BY <2>2 DEF Row, Idents
    <2>6. x \in Row /\ x.read = m.read /\ x.seen = m.seen /\ x.state = m.state /\ x.agent \in {0, m.agent}
      BY <2>2, <2>3, <2>5
    <2>7. ASSUME NEW z \in Row, Absorbed(m, z)
          PROVE  Absorbed(x, z)
      BY <2>2, <2>6, <2>7, AbsorbsMarks
    <2>8. Absorbed(x, row)
      BY <2>1, <2>2, <2>7
    <2>9. Absorbed(x, rows[r])
      BY <1>2, <1>6, <2>1, <2>6, <2>8, AbsorbsMarks
    <2>10. r \in Msgs /\ r \in WithAgent /\ ctx # 0 /\ local[r].agent \in {0, rows[r].agent} => x.agent # ctx
      <3>1. CASE rows[r].agent = ctx
        BY <2>4, <2>5, <3>1
      <3>2. CASE rows[r].agent # ctx
        BY <2>2, <2>6, <3>2
      <3> QED BY <3>1, <3>2
    <2>11. \A z \in Row : Absorbed(local[r], z) => Absorbed(x, z)
      BY <2>2, <2>7
    <2> QED BY <1>6, <2>9, <2>10, <2>11 DEF x
  <1> QED BY <1>4, <1>5, <1>6

\* What the local history absorbed it absorbs after every step, and the names
\* it gives the agent only become the local id.
LocalKeeps ==
  \A r \in Records : local[r] # Absent =>
    /\ local'[r].agent \in {0, local[r].agent}
    /\ \A z \in Row : Absorbed(local[r], z) => Absorbed(local'[r], z)

LEMMA EveryStepKeeps ==
  ASSUME TypeOK, Carried, Next
  PROVE  LocalKeeps
  <1>1. local \in [Records -> MaybeRow] /\ now \in Times
    BY DEF TypeOK, MaybeRow
  <1>2. CASE local' = local
    BY <1>2 DEF LocalKeeps
  <1>3. ASSUME NEW q \in Records,
               LocalInsert(q) \/ LocalRead(q) \/ LocalAgentRead(q) \/ LocalCall(q)
        PROVE  LocalKeeps
    <2>1. ASSUME NEW r \in Records, local[r] # Absent, NEW z \in Row, Absorbed(local[r], z)
          PROVE  Absorbed(local'[r], z)
      <3>0. local[q] \in MaybeRow
        BY <1>1
      <3>1. CASE r # q
        <4>1. local'[r] = local[r]
          BY <1>1, <1>3, <3>1 DEF LocalInsert, LocalRead, LocalAgentRead, LocalCall
        <4> QED BY <2>1, <4>1
      <3>2. CASE r = q /\ LocalInsert(q)
        BY <2>1, <3>2 DEF LocalInsert
      <3> DEFINE x == local[q]
      <3>3. CASE r = q /\ LocalRead(q)
        <4>1. x \in Row /\ x.read = 0 /\ local'[r] = [x EXCEPT !.read = now] /\ now \in Times
          BY <1>1, <3>0, <3>3, RowFields DEF LocalRead
        <4> HIDE DEF x
        <4>2. Absorbed(x, z)
          BY <2>1, <3>3 DEF x
        <4>3. Absorbed([x EXCEPT !.read = now], z)
          BY <4>1, <4>2, MarkAbsorbs
        <4> QED BY <4>1, <4>3
      <3>4. CASE r = q /\ LocalAgentRead(q)
        <4>1. x \in Row /\ x.seen = 0 /\ local'[r] = [x EXCEPT !.seen = now] /\ now \in Times
          BY <1>1, <3>0, <3>4, RowFields DEF LocalAgentRead
        <4> HIDE DEF x
        <4>2. Absorbed(x, z)
          BY <2>1, <3>4 DEF x
        <4>3. Absorbed([x EXCEPT !.seen = now], z)
          BY <4>1, <4>2, MarkAbsorbs
        <4> QED BY <4>1, <4>3
      <3>5. CASE r = q /\ LocalCall(q)
        <4>1. PICK state \in NextState(x.state) : local'[r] = [x EXCEPT !.state = state]
          BY <1>1, <3>5 DEF LocalCall
        <4>2. x \in Row
          BY <3>0, <3>5, RowFields DEF LocalCall
        <4> HIDE DEF x
        <4>3. Absorbed(x, z)
          BY <2>1, <3>5 DEF x
        <4> QED BY <4>1, <4>2, <4>3, PhaseAbsorbs
      <3> QED BY <1>3, <3>1, <3>2, <3>3, <3>4, <3>5
    <2>2. \A r \in Records : local'[r].agent = local[r].agent
      BY <1>3, LocalFields
    <2> QED BY <2>1, <2>2 DEF LocalKeeps
  <1>4. CASE PageArrived /\ local' = Imported(page.rows)
    <2>1. ASSUME NEW r \in Records, local[r] # Absent
          PROVE  /\ local'[r].agent \in {0, local[r].agent}
                 /\ \A z \in Row : Absorbed(local[r], z) => Absorbed(local'[r], z)
      BY <1>4, <2>1, ImportFields, ImportAbsorbs DEF Carried
    <2> QED BY <2>1 DEF LocalKeeps
  <1>5. \/ local' = local
        \/ PageArrived /\ local' = Imported(page.rows)
        \/ \E q \in Records : LocalInsert(q) \/ LocalRead(q) \/ LocalAgentRead(q) \/ LocalCall(q)
    BY DEF Next, Engine, SyncOnce, Post, PostAnswered, PushDone, Pull, PageArrived, PushAgentReads,
           ReadsAnswered, PassLost, LiveInsert, PlatformRead, PlatformCall, Expose, Unexpose, Tick
  <1> QED BY <1>2, <1>3, <1>4, <1>5

\* A cursor that covers goes on covering.
LEMMA CoveredStays ==
  ASSUME TypeOK, Typed, Logged, LocalKeeps, NEW agent, NEW upto \in 0 .. revision,
         CoveredOf(local, store, changes, agent, upto)
  PROVE  CoveredOf(local', store', changes', agent, upto)
  <1> SUFFICES ASSUME NEW r \in Records, PassedOf(store', changes', agent, r, upto)
               PROVE  /\ Absorbed(local'[r], ShownOf(store', r))
                      /\ r \in Msgs \cap WithAgent => local'[r].agent \notin {agent} \ {0}
    BY DEF CoveredOf
  <1>1. /\ ShownOf(store', r) = ShownOf(store, r)
        /\ \A s \in Sources : changes'[s][r] = changes[s][r]
    BY PassedBefore DEF PassedOf
  <1>2. PassedOf(store, changes, agent, r, upto)
    BY <1>1 DEF PassedOf
  <1>3. Absorbed(local[r], ShownOf(store, r)) /\ local[r] # Absent
        /\ (r \in Msgs \cap WithAgent => local[r].agent \notin {agent} \ {0})
    BY <1>2 DEF CoveredOf, Absorbed
  <1>4. ShownOf(store, r) \in Row
    BY <1>2 DEF PassedOf, ShownOf, TypeOK, Sources
  <1> QED BY <1>1, <1>3, <1>4 DEF LocalKeeps

\* Every row of the platform has a revision.
Stamped == \A s \in Sources, r \in Records : store[s][r] # Absent => changes[s][r] # 0

\* Before the first revision there is nothing to cover.
LEMMA NothingToCover ==
  ASSUME NEW mine, NEW rows, NEW log \in [Sources -> [Records -> Nat]], NEW agent,
         \A s \in Sources, r \in Records : rows[s][r] # Absent => log[s][r] # 0
  PROVE  CoveredOf(mine, rows, log, agent, 0)
  <1> SUFFICES ASSUME NEW r \in Records, PassedOf(rows, log, agent, r, 0)
               PROVE  FALSE
    BY DEF CoveredOf
  <1>1. "live" \in Sources /\ "mirror" \in Sources
    BY DEF Sources
  <1>2. PICK s \in Sources : rows[s][r] # Absent
    BY <1>1 DEF PassedOf, ShownOf
  <1>3. log[s][r] \in Nat /\ log[s][r] <= 0 /\ log[s][r] # 0
    BY <1>2 DEF PassedOf
  <1> QED BY <1>3

\* A page read under an identity the account has: it holds what its cursor
\* passes and the one it was asked after does not.
LEMMA PageCovers ==
  ASSUME TypeOK, Revised, NEW cursor \in 0 .. revision, ctx \in {0, ident},
         NEW r \in Records,
         PassedOf(store, changes, ctx, r, SyncPage(cursor).next),
         ~PassedOf(store, changes, ctx, r, cursor)
  PROVE  r \in DOMAIN SyncPage(cursor).rows /\ SyncPage(cursor).rows[r] = ShownOf(store, r)
  <1> DEFINE after == ChangesAfter(cursor)
             rev(w) == changes[w[1]][w[2]]
             below(w) == {v \in after : rev(v) <= rev(w)}
             taken == {w \in after : Cardinality({v \in after : rev(v) <= rev(w)}) <= PullSize}
             shown == {q \in Records : (\E w \in taken : w[2] = q) /\ Owned(q, Shown(q))}
             revs == {rev(w) : w \in taken}
             next == SyncPage(cursor).next
  <1>1. /\ SyncPage(cursor).rows = [q \in shown |-> Shown(q)]
        /\ next = NextCursor(cursor, revs)
    BY DEF SyncPage
  <1>2. after \subseteq Sources \X Records /\ \A w \in after : rev(w) \in 0 .. revision
    BY DEF ChangesAfter, TypeOK
  <1>3. Shown(r) = ShownOf(store, r)
    BY DEF Shown, ShownOf
  <1>4. ShownOf(store, r) # Absent /\ OwnedBy(ctx, r, ShownOf(store, r))
        /\ \A s \in Sources : changes[s][r] <= next
    BY DEF PassedOf
  <1>5. Owned(r, Shown(r))
    BY <1>3, <1>4 DEF Owned, OwnedBy, OwnedIdents
  <1>6. PICK s \in Sources : ~(changes[s][r] <= cursor)
    BY <1>4 DEF PassedOf
  <1>7. /\ changes[s][r] \in 0 .. revision /\ cursor \in Nat /\ revision \in Nat
        /\ changes[s][r] > cursor /\ changes[s][r] <= next
    BY <1>4, <1>6 DEF TypeOK
  <1>8. <<s, r>> \in after
    <2>1. store[s][r] # Absent
      BY <1>7 DEF Revised
    <2>2. s = "live" => Owned(r, store["live"][r])
      BY <1>5, <2>1 DEF Shown
    <2> QED BY <1>7, <2>2 DEF ChangesAfter
  <1>9. PICK v \in taken : next = rev(v)
    <2>1. {cursor} \cup revs \subseteq 0 .. revision
      BY <1>2
    <2> HIDE DEF revs
    <2>2. next \in {cursor} \cup revs
      BY <1>1, <1>7, <2>1, GreatestExists DEF NextCursor
    <2>3. next \in revs
      BY <1>7, <2>2
    <2> QED BY <2>3 DEF revs
  <1>10. <<s, r>> \in taken
    <2>0. v \in after /\ Cardinality(below(v)) <= PullSize
      BY <1>9
    <2> HIDE DEF after, next
    <2>1. IsFiniteSet(Sources \X Records)
      <3>1. Sources = {"live"} \cup {"mirror"}
        BY DEF Sources
      <3>2. IsFiniteSet(Sources)
        BY <3>1, FS_Singleton, FS_Union
      <3> QED BY <3>2, FS_Product
    <2>2. IsFiniteSet(below(v))
      BY <1>2, <2>1, FS_Subset
    <2>3. rev(<<s, r>>) <= rev(v) /\ \A u \in after : rev(u) \in Nat
      BY <1>2, <1>7, <1>9
    <2>4. below(<<s, r>>) \subseteq below(v)
      BY <1>8, <2>0, <2>3
    <2>5. /\ Cardinality(below(<<s, r>>)) <= Cardinality(below(v))
          /\ Cardinality(below(<<s, r>>)) \in Nat /\ Cardinality(below(v)) \in Nat
      BY <2>2, <2>4, FS_Subset, FS_CardinalityType
    <2>6. Cardinality(below(<<s, r>>)) <= PullSize
      BY <2>0, <2>5
    <2> QED BY <1>8, <2>6
  <1>11. r \in shown
    <2> HIDE DEF taken
    <2> QED BY <1>5, <1>10
  <1> HIDE DEF shown
  <1> QED BY <1>1, <1>3, <1>11

\* CoverInv in the parts the steps are taken apart by.
Covers(c, mine, rows, log, exposed, last) ==
  /\ c.context <= last
  /\ c.context \in {0, exposed} => CoveredOf(mine, rows, log, c.context, c.pull)

CursorsCover ==
  /\ Covers(cursors, local, store, changes, ident, minted)
  /\ Covers(saved, local, store, changes, ident, minted)

PageHolds ==
  pc = "pulled" /\ ctx \in {0, ident} =>
    \A r \in Records :
      /\ PassedOf(store, changes, ctx, r, page.next)
      /\ ~PassedOf(store, changes, ctx, r, cursors.pull)
      => r \in DOMAIN page.rows /\ page.rows[r] = ShownOf(store, r)

LEMMA CoverParts == CoverInv <=> CursorsCover /\ PageHolds /\ Stamped
  BY DEF CoverInv, CursorsCover, Covers, PageHolds, Stamped, Covered, Passed, CoveredOf,
         PassedOf, Shown, ShownOf

LEMMA CoverPartsAgain ==
  ASSUME CursorsCover', PageHolds', Stamped'
  PROVE  CoverInv'
  BY DEF CoverInv, CursorsCover, Covers, PageHolds, Stamped, Covered, Passed, CoveredOf,
         PassedOf, Shown, ShownOf

\* A page imported under its context covers what its cursor passes.
LEMMA ImportCovers ==
  ASSUME TypeOK, Typed, Carried, Logged, LocalKeeps, RowsNamed, PageHolds,
         PageArrived, local' = Imported(page.rows), ctx \in {0, ident},
         CoveredOf(local, store, changes, ctx, cursors.pull)
  PROVE  CoveredOf(local', store', changes', ctx, page.next)
  <1>1. store' = store /\ changes' = changes /\ pc = "pulled"
    BY DEF PageArrived, platform
  <1> SUFFICES ASSUME NEW r \in Records, PassedOf(store, changes, ctx, r, page.next)
               PROVE  /\ Absorbed(local'[r], ShownOf(store, r))
                      /\ r \in Msgs \cap WithAgent => local'[r].agent \notin {ctx} \ {0}
    BY <1>1 DEF CoveredOf
  <1>2. CASE PassedOf(store, changes, ctx, r, cursors.pull)
    <2>1. Absorbed(local[r], ShownOf(store, r)) /\ local[r] # Absent
          /\ (r \in Msgs \cap WithAgent => local[r].agent \notin {ctx} \ {0})
      BY <1>2 DEF CoveredOf, Absorbed
    <2>2. ShownOf(store, r) \in Row
      BY <1>2 DEF PassedOf, ShownOf, TypeOK, Sources
    <2> QED BY <2>1, <2>2 DEF LocalKeeps
  <1>3. CASE ~PassedOf(store, changes, ctx, r, cursors.pull)
    <2>1. r \in DOMAIN page.rows /\ page.rows[r] = ShownOf(store, r)
      BY <1>1, <1>3 DEF PageHolds
    <2>2. local[r] # Absent => local[r].agent \in {0, page.rows[r].agent}
      BY <2>1 DEF RowsNamed, Named, ShownOf
    <2>3. /\ Absorbed(local'[r], page.rows[r])
          /\ r \in Msgs \cap WithAgent /\ ctx # 0 => local'[r].agent # ctx
      BY <2>1, <2>2, ImportAbsorbs DEF Carried
    <2> QED BY <2>1, <2>3
  <1> QED BY <1>2, <1>3

LEMMA CoverInit == Init => CoverInv
  <1> SUFFICES ASSUME Init PROVE CoverInv
    OBVIOUS
  <1>1. /\ cursors.context = -1 /\ saved.context = -1 /\ minted = 0 /\ ident = 0 /\ pc = "idle"
        /\ \A s \in Sources, r \in Records : store[s][r] = Absent
    BY DEF Init, Start
  <1> QED BY <1>1 DEF CoverInv

LEMMA CoverNext == IInv /\ ReadsInv /\ CoverInv /\ [Next]_vars => CoverInv'
  <1> SUFFICES ASSUME IInv, ReadsInv, CoverInv, [Next]_vars PROVE CoverInv'
    OBVIOUS
  <1>1. CASE UNCHANGED vars
    BY <1>1 DEF vars, platform, pass, CoverInv, Covered, Passed, Shown
  <1>2. CASE Next
    <2>1. /\ Request /\ Clocks /\ Progressed /\ TypeOK /\ Carried /\ Revised
          /\ RequestReads /\ RowsNamed /\ CursorsCover /\ PageHolds /\ Stamped
      BY Parts, ReadsParts, CoverParts DEF IInv
    <2>2. Typed /\ Logged /\ LocalKeeps
      BY <1>2, <2>1, EveryStep, EveryStepLogged, EveryStepKeeps
    <2>3. /\ minted \in Nat /\ ident \in Nat /\ ident <= minted /\ revision \in Nat
          /\ cursors.pull \in 0 .. revision /\ saved.pull \in 0 .. revision
          /\ cursors.context \in Int /\ saved.context \in Int /\ ctx \in Nat
      BY <2>1, TimesAreNat DEF Clocks, Idents, TypeOK, Progressed, Kept, Request
    <2>4. Stamped'
      BY <2>1, <2>2, <2>3 DEF Stamped, Logged
    <2> SUFFICES CursorsCover' /\ PageHolds'
      BY <2>4, CoverPartsAgain
    <2>5. ASSUME ident' = ident, minted' = minted
          PROVE  /\ Covers(cursors, local', store', changes', ident', minted')
                 /\ Covers(saved, local', store', changes', ident', minted')
      BY <2>1, <2>2, <2>3, <2>5, CoveredStays DEF CursorsCover, Covers
    <2>6. ASSUME UNCHANGED <<pc, page, ctx, cursors>>,
                 pc = "pulled" /\ ctx \in {0, ident'} => ctx \in {0, ident}
          PROVE  PageHolds'
      <3> SUFFICES ASSUME pc = "pulled", ctx \in {0, ident'}, NEW r \in Records,
                          PassedOf(store', changes', ctx, r, page.next),
                          ~PassedOf(store', changes', ctx, r, cursors.pull)
                   PROVE  r \in DOMAIN page.rows /\ page.rows[r] = ShownOf(store', r)
        BY <2>6 DEF PageHolds
      <3>1. page.next \in 0 .. revision
        BY <2>1 DEF Carried
      <3>2. /\ ShownOf(store', r) = ShownOf(store, r)
            /\ \A s \in Sources : changes'[s][r] = changes[s][r]
        BY <2>1, <2>2, <3>1, PassedBefore DEF PassedOf
      <3>3. /\ PassedOf(store, changes, ctx, r, page.next)
            /\ ~PassedOf(store, changes, ctx, r, cursors.pull)
        BY <3>2 DEF PassedOf
      <3> QED BY <2>1, <2>6, <3>2, <3>3 DEF PageHolds
    <2>7. CASE SyncOnce
      <3> DEFINE c == Resumed(ident)
      <3>1. /\ cursors' = c /\ saved' = saved /\ pc' = "push" /\ ident' = ident /\ minted' = minted
        BY <2>7 DEF SyncOnce
      <3>2. c = cursors \/ (c.context = ident /\ c.pull = 0)
        BY DEF Resumed, Start
      <3>3. CoveredOf(local', store', changes', ident, 0)
        <4>1. changes' \in [Sources -> [Records -> Nat]]
          BY <2>2 DEF Typed
        <4> DEFINE mine == local'
                   rows == store'
                   log == changes'
        <4>2. \A s \in Sources, r \in Records : rows[s][r] # Absent => log[s][r] # 0
          BY <2>4 DEF Stamped
        <4> HIDE DEF mine, rows, log
        <4>3. CoveredOf(mine, rows, log, ident, 0)
          BY <4>1, <4>2, NothingToCover DEF log
        <4> QED BY <4>3 DEF mine, rows, log
      <3> HIDE DEF c
      <3>4. Covers(c, local', store', changes', ident', minted')
        BY <2>3, <2>5, <3>1, <3>2, <3>3 DEF Covers
      <3> QED BY <2>5, <3>1, <3>4 DEF CursorsCover, PageHolds
    <2>8. CASE Post \/ PushDone \/ PushAgentReads
      <3>1. UNCHANGED <<cursors, saved, ident, minted>> /\ pc' # "pulled"
        BY <2>8 DEF Post, PushDone, PushAgentReads, Idle
      <3> QED BY <2>5, <3>1 DEF CursorsCover, PageHolds
    <2>9. CASE PostAnswered
      <3>1. PICK p : LET c == [cursors EXCEPT !.pushed = p]
                         rest == [r \in DOMAIN pending \ DOMAIN page.rows |-> pending[r]]
                     IN  SaveAndGo(c, "push", rest) /\ ident' = ident /\ minted' = minted
        BY <2>9 DEF PostAnswered, RowsPushed
      <3> DEFINE c == [cursors EXCEPT !.pushed = p]
      <3>2. c.context = cursors.context /\ c.pull = cursors.pull
        BY <2>1 DEF Progressed, Kept
      <3>3. /\ pc' # "pulled" /\ ident' = ident /\ minted' = minted
            /\ (cursors' = c /\ saved' = c) \/ (cursors' = saved /\ saved' = saved)
        BY <3>1 DEF SaveAndGo, Idle
      <3> HIDE DEF c
      <3>4. Covers(c, local', store', changes', ident', minted')
        BY <2>5, <3>2, <3>3 DEF Covers
      <3> QED BY <2>5, <3>3, <3>4 DEF CursorsCover, PageHolds
    <2>10. CASE Pull
      <3>1. /\ pc' = "pulled" /\ page' = SyncPage(cursors.pull)
            /\ UNCHANGED <<cursors, saved, ctx, local, store, changes, ident, minted>>
        BY <2>10 DEF Pull, platform
      <3>2. PageHolds'
        BY <2>1, <2>3, <3>1, PageCovers DEF PageHolds
      <3> QED BY <2>5, <3>1, <3>2 DEF CursorsCover
    <2>11. CASE PageArrived
      <3> DEFINE c == [cursors EXCEPT !.pull = page.next]
      <3>1. /\ pc = "pulled" /\ pc' # "pulled" /\ ident' = ident /\ minted' = minted
            /\ \/ cursors' = c /\ saved' = c /\ local' = Imported(page.rows)
               \/ cursors' \in {cursors, saved} /\ saved' = saved
        BY <2>11 DEF PageArrived, SaveAndGo, Idle
      <3>2. c.context = cursors.context /\ c.pull = page.next /\ cursors.context = ctx
        BY <2>1, <3>1 DEF Progressed, Kept, RequestReads
      <3> HIDE DEF c
      <3>3. ASSUME local' = Imported(page.rows)
            PROVE  Covers(c, local', store', changes', ident', minted')
        <4>1. ctx \in {0, ident} => CoveredOf(local, store, changes, ctx, cursors.pull)
          BY <2>1, <3>2 DEF CursorsCover, Covers
        <4>2. ctx \in {0, ident} => CoveredOf(local', store', changes', ctx, page.next)
          BY <2>1, <2>2, <2>11, <3>3, <4>1, ImportCovers
        <4> QED BY <2>1, <3>1, <3>2, <4>2 DEF CursorsCover, Covers
      <3> QED BY <2>5, <3>1, <3>3 DEF CursorsCover, PageHolds
    <2>12. CASE ReadsAnswered
      <3> DEFINE c == [cursors EXCEPT !.reads = ReadCursor(page.next)]
      <3>1. /\ pc' # "pulled" /\ ident' = ident /\ minted' = minted
            /\ (cursors' = c /\ saved' = c) \/ (cursors' = saved /\ saved' = saved)
        BY <2>12 DEF ReadsAnswered, Idle
      <3>2. c.context = cursors.context /\ c.pull = cursors.pull
        BY <2>1 DEF Progressed, Kept
      <3> HIDE DEF c
      <3>3. Covers(c, local', store', changes', ident', minted')
        BY <2>5, <3>1, <3>2 DEF Covers
      <3> QED BY <2>5, <3>1, <3>3 DEF CursorsCover, PageHolds
    <2>13. CASE PassLost
      <3>1. /\ pc' # "pulled" /\ ident' = ident /\ minted' = minted
            /\ cursors' \in {cursors, saved} /\ saved' = saved
        BY <2>13 DEF PassLost, Idle
      <3> QED BY <2>5, <3>1 DEF CursorsCover, PageHolds
    <2>14. CASE Around \/ Tick
      <3>1. UNCHANGED <<cursors, saved, pc, ctx, page, ident, minted>>
        BY <2>14 DEF Around, LocalInsert, LocalRead, LocalAgentRead, LocalCall, LiveInsert,
                     PlatformRead, PlatformCall, Tick, pass
      <3> QED BY <2>5, <2>6, <3>1 DEF CursorsCover
    <2>15. CASE Expose \/ Unexpose
      <3>1. /\ UNCHANGED <<cursors, saved, pc, ctx, page, local, store, changes>>
            /\ minted' \in Nat /\ minted <= minted'
            /\ ident' = 0 \/ (ident = 0 /\ ident' > minted)
        BY <2>3, <2>15 DEF Expose, Unexpose, pass, platform
      <3>2. CursorsCover'
        BY <2>1, <2>3, <3>1 DEF CursorsCover, Covers
      <3>3. pc = "pulled" => ctx <= minted
        BY <2>1 DEF RequestReads, CursorsCover, Covers
      <3>4. pc = "pulled" /\ ctx \in {0, ident'} => ctx \in {0, ident}
        BY <2>3, <3>1, <3>3
      <3> QED BY <2>6, <3>1, <3>2, <3>4
    <2> QED BY <1>2, <2>7, <2>8, <2>9, <2>10, <2>11, <2>12, <2>13, <2>14, <2>15
        DEF Next, Engine, Around
  <1> QED BY <1>1, <1>2

\* The pull cursor, running or saved, never passes a change of a row the account
\* sees that the machine has not imported (pullOnce, importPage), for any page
\* size, whatever is written during a page, lost or cut off between the two
\* saves, and whenever the agent is exposed or withdrawn.
THEOREM PullsMissNothing == Spec => []CursorCovers
  <1>1. IInv /\ CoverInv => CursorCovers
    <2> SUFFICES ASSUME IInv, CoverInv, NEW c \in {cursors, saved}, c.context = ident,
                        NEW r \in Records,
                        \E s \in Sources : /\ store[s][r] # Absent
                                           /\ s = "live" => Owned(r, store["live"][r]),
                        Owned(r, Shown(r)),
                        \A s \in Sources :
                          /\ store[s][r] # Absent
                          /\ s = "live" => Owned(r, store["live"][r])
                          => changes[s][r] <= c.pull
                 PROVE  /\ Absorbed(local[r], Shown(r))
                        /\ r \in Msgs \cap WithAgent => local[r].agent \notin OwnedIdents
      BY DEF CursorCovers
    <2>1. Covered(ident, c.pull)
      BY DEF CoverInv
    <2>2. c.pull \in Nat /\ "live" \in Sources /\ "mirror" \in Sources
      BY DEF IInv, TypeOK, Sources
    <2>3. Shown(r) # Absent
      BY DEF Shown, Sources
    <2>4. ASSUME NEW s \in Sources
          PROVE  changes[s][r] <= c.pull
      <3>1. CASE store[s][r] = Absent
        <4>1. changes[s][r] = 0
          BY <3>1 DEF IInv, Revised
        <4> QED BY <2>2, <4>1
      <3>2. CASE store[s][r] # Absent
        <4>1. s = "live" => Owned(r, store["live"][r])
          BY <3>2 DEF Shown
        <4> QED BY <3>2, <4>1
      <3> QED BY <3>1, <3>2
    <2>5. Passed(ident, r, c.pull)
      BY <2>3, <2>4 DEF Passed, Owned, OwnedBy, OwnedIdents
    <2> QED BY <2>1, <2>5 DEF Covered, OwnedIdents
  <1>2. Spec => []CoverInv
    <2>1. Spec => []ReadsInv
      BY ReadsInit, ReadsNext, Invariance, PTL DEF Spec
    <2> QED BY <2>1, CoverInit, CoverNext, Invariance, PTL DEF Spec
  <1> QED BY <1>1, <1>2, Invariance, PTL

=============================================================================
