------------------------- MODULE LabelHarnessProofs -------------------------
(***************************************************************************)
(* sample, label and score for any corpora, truths and command lines, with *)
(* a death of the command anywhere and the data replaced between commands. *)
(***************************************************************************)
EXTENDS LabelHarness, FiniteSetTheorems, WellFoundedInduction, TLAPS

\* A set of numbers has a least one.
LEMMA LeastNumber ==
    ASSUME NEW S, S \subseteq Nat, S # {}
    PROVE  \E i \in S : \A j \in S : i <= j
<1>1. PICK i \in S : \A j \in S : ~ (<<j, i>> \in OpToRel(<, Nat))
  BY NatLessThanWellFounded, WFMin
<1>2. ASSUME NEW j \in S PROVE i <= j
  <2>1. i \in Nat /\ j \in Nat
    OBVIOUS
  <2>2. <<j, i>> \in Nat \X Nat /\ ~ (j < i)
    BY <1>1, <2>1 DEF OpToRel
  <2> QED BY <2>1, <2>2
<1> QED BY <1>2

\* The values of a function are no more than its arguments.
LEMMA ValuesAreFewer ==
    ASSUME NEW S, IsFiniteSet(S), NEW f, NEW T, T \subseteq {f[x] : x \in S}
    PROVE  IsFiniteSet(T) /\ Cardinality(T) <= Cardinality(S)
<1> DEFINE R == {f[x] : x \in S}
           g == [x \in S |-> f[x]]
<1>1. g \in Surjection(S, R)
  BY DEF Surjection
<1>2. IsFiniteSet(R) /\ Cardinality(R) <= Cardinality(S) /\ Cardinality(S) \in Nat
  <2> HIDE DEF R, g
  <2> QED BY <1>1, FS_Surjection, FS_CardinalityType
<1>3. IsFiniteSet(T) /\ Cardinality(T) <= Cardinality(R) /\ Cardinality(T) \in Nat /\ Cardinality(R) \in Nat
  <2> T \in SUBSET R
    OBVIOUS
  <2> HIDE DEF R
  <2> QED BY <1>2, FS_Subset, FS_CardinalityType
<1> QED BY <1>2, <1>3

\* What the two data files hold between them.
Drawings == {[events |-> d.events, truth |-> d.truth] : d \in Datasets}

DataOk == Now \in Drawings /\ source \in [sample : Drawings, key : Drawings]

\* A made-up id says nothing of its event; a real one is the event's own, and
\* among all events or all failures no other event has it.
HasItsId(all, e, id) ==
    id.kind = "own" =>
        /\ e.id = id.n
        /\ \E list \in {all, {f \in all : f.fails}} : e \in list /\ HasIds(list)

\* A sample on disk: every row has what was last said of it, unless it was given
\* up at the note, and the id of its event.
RowsOk ==
    /\ blind \in Seq(Row)
    /\ said \in [DOMAIN blind -> Labels \cup {NoLabel}]
    /\ \A i \in DOMAIN blind :
         /\ blind[i].label = IF i \in givenUp THEN NoLabel ELSE said[i]
         /\ HasItsId(source.sample.events, blind[i].payload, blind[i].id)

Written == HasRows(blind) \/ pc \in {"manifest", "manifest_open", "key", "note", "done"}

BlindOk == Written => RowsOk

\* A key on disk: for each id the cause of an event that has it; and the cause
\* of every row's event, if the sample was drawn with it.
KeyOk ==
    /\ HasRows(manifest) =>
         \A id \in DOMAIN manifest :
            \E e \in source.key.events :
               /\ HasItsId(source.key.events, e, id)
               /\ manifest[id] = source.key.truth[e.customer]
    /\ Written /\ HasRows(manifest) /\ whole =>
         \A i \in DOMAIN blind :
            /\ blind[i].id \in DOMAIN manifest
            /\ manifest[blind[i].id] = source.sample.truth[blind[i].payload.customer]

Entry == [id : RowIds, cause : Causes, event : Event]

\* What sample has drawn is one of the draws its command line allows, under
\* different ids, and until it ends it is what the new sample holds.
SampleOk ==
    /\ args \in SampleArgs
    /\ picked \in Seq(Entry)
    /\ \A i, j \in DOMAIN picked : picked[i].id = picked[j].id => i = j
    /\ \A i \in DOMAIN picked :
         /\ picked[i].event \in events
         /\ HasItsId(events, picked[i].event, picked[i].id)
         /\ picked[i].cause = truth[picked[i].event.customer]
    /\ pc \notin {"blind", "blind_open", "manifest", "manifest_open"} => picked = << >>
    /\ pc = "blind" =>
         \E draw \in Draws(args) : picked \in SetToSeqs({Drawn(e, args) : e \in draw})
    /\ pc \in {"blind_open", "manifest", "manifest_open"} => ~whole
    /\ pc \in {"manifest", "manifest_open"} =>
         /\ source.sample = Now /\ DOMAIN blind = DOMAIN picked
         /\ \A i \in DOMAIN picked :
              blind[i].id = picked[i].id /\ blind[i].payload = picked[i].event

\* label has the file in memory, the cursor is on a row, and the rows above it
\* have a label.
LabelOk ==
    /\ pc \in Steps
    /\ pc \in {"key", "note"} =>
         /\ blind = rows
         /\ cursor \in DOMAIN rows
         /\ \A i \in 1..cursor - 1 : ~Unlabelled(rows[i])
    /\ pc = "done" => \A i \in DOMAIN blind : ~Unlabelled(blind[i])

HarnessInv == DataOk /\ BlindOk /\ KeyOk /\ SampleOk /\ LabelOk

----------------------------------------------------------------------------
(* sample's arithmetic.                                                    *)

\* Min and Max of the community modules, on sets that have one.
LEMMA MinIs ==
    ASSUME NEW S, S \subseteq Nat, S # {}
    PROVE  Min(S) \in S /\ \A i \in S : Min(S) <= i
BY LeastNumber DEF Min

LEMMA MinOfTwo ==
    ASSUME NEW a \in Int, NEW b \in Int
    PROVE  Min({a, b}) = IF a <= b THEN a ELSE b
<1>1. \E x \in {a, b} : \A y \in {a, b} : x <= y
  OBVIOUS
<1>2. Min({a, b}) \in {a, b} /\ \A y \in {a, b} : Min({a, b}) <= y
  BY <1>1 DEF Min
<1> QED BY <1>2

LEMMA MaxOfTwo ==
    ASSUME NEW a \in Int, NEW b \in Int
    PROVE  Max({a, b}) = IF a <= b THEN b ELSE a
<1>1. \E x \in {a, b} : \A y \in {a, b} : x >= y
  OBVIOUS
<1>2. Max({a, b}) \in {a, b} /\ \A y \in {a, b} : Max({a, b}) >= y
  BY <1>1 DEF Max
<1> QED BY <1>2

\* The cursor goes to the first row without a label, or past the last row.
LEMMA SeekStops ==
    ASSUME NEW file, Len(file) \in Nat, NEW i \in 1..Len(file) + 1
    PROVE  /\ Seek(file, i) \in i..Len(file) + 1
           /\ Seek(file, i) <= Len(file) => Unlabelled(file[Seek(file, i)])
           /\ \A j \in i..Seek(file, i) - 1 : ~Unlabelled(file[j])
<1> DEFINE S == {Len(file) + 1} \cup {j \in i..Len(file) : Unlabelled(file[j])}
<1>1. S \subseteq Nat /\ S # {}
  OBVIOUS
<1>2. Seek(file, i) \in S /\ \A j \in S : Seek(file, i) <= j
  <2> HIDE DEF S
  <2>1. Min(S) \in S /\ \A j \in S : Min(S) <= j
    BY <1>1, MinIs
  <2> QED BY <2>1 DEF Seek, S
<1> QED BY <1>2

----------------------------------------------------------------------------
(* What sample draws.                                                      *)

LEMMA DataIs ==
    ASSUME DataOk
    PROVE  /\ events \subseteq Event /\ IsFiniteSet(events)
           /\ \A e, f \in events : e.place = f.place => e = f
           /\ truth \in [Customers -> Causes \cup {NoTruth}]
<1>1. PICK d \in Datasets : events = d.events /\ truth = d.truth
  <2>1. PICK d \in Datasets : Now = [events |-> d.events, truth |-> d.truth]
    BY DEF DataOk, Drawings
  <2> QED BY <2>1 DEF Now
<1> QED BY <1>1, DataAssumption

\* Of two events one is the earlier.
LEMMA EarlierIsTotal ==
    ASSUME DataOk, NEW list \in SUBSET events, NEW e \in list, NEW f \in list,
           ~Earlier(e, f, list), ~Earlier(f, e, list)
    PROVE  e = f
<1>1. e \in Event /\ f \in Event /\ (e.place = f.place => e = f)
  BY DataIs
<1>2. e.created_at = f.created_at
  BY <1>1 DEF Event, Earlier
<1>3. CASE HasIds(list)
  BY <1>1, <1>2, <1>3 DEF Event, Earlier, HasIds
<1>4. CASE ~HasIds(list)
  BY <1>1, <1>2, <1>4 DEF Event, Earlier
<1> QED BY <1>3, <1>4

\* Of some events one is the earliest.
LEMMA FirstOfSome ==
    ASSUME DataOk, NEW list \in SUBSET events, NEW S \in SUBSET list, S # {}
    PROVE  \E f \in S : \A g \in S : ~Earlier(g, f, list)
<1> DEFINE times == {g.created_at : g \in S}
           second(g) == IF HasIds(list) THEN g.id ELSE g.place
<1>1. \A g \in S : g.created_at \in Nat /\ second(g) \in Nat
  BY DataIs DEF Event, HasIds
<1>2. PICK t \in times : \A u \in times : t <= u
  <2>1. times \subseteq Nat /\ times # {}
    BY <1>1
  <2> HIDE DEF times
  <2> QED BY <2>1, LeastNumber
<1> DEFINE tied == {second(g) : g \in {h \in S : h.created_at = t}}
<1>3. PICK i \in tied : \A j \in tied : i <= j
  <2>1. tied \subseteq Nat /\ tied # {}
    BY <1>1
  <2> HIDE DEF tied
  <2> QED BY <2>1, LeastNumber
<1>4. PICK f \in S : f.created_at = t /\ second(f) = i
  BY <1>3
<1>5. ASSUME NEW g \in S PROVE ~Earlier(g, f, list)
  <2>1. t <= g.created_at /\ (g.created_at = t => i <= second(g))
    BY <1>2, <1>3
  <2>2. /\ g.created_at \in Nat /\ f.created_at \in Nat
        /\ second(g) \in Nat /\ second(f) \in Nat
    BY <1>1
  <2>3. Earlier(g, f, list) <=>
          \/ g.created_at < f.created_at
          \/ g.created_at = f.created_at /\ second(g) < second(f)
    BY DEF Earlier
  <2> HIDE DEF second
  <2> QED BY <1>4, <2>1, <2>2, <2>3
<1> QED BY <1>4, <1>5

\* A group is the same for each of its members.
LEMMA GroupIsShared ==
    ASSUME NEW list, NEW opts, NEW e \in list, NEW f \in Group(e, list, opts)
    PROVE  Group(f, list, opts) = Group(e, list, opts)
BY DEF Group

\* What may be drawn comes from the corpus.
LEMMA PoolIsListed ==
    ASSUME NEW opts
    PROVE  /\ Failures(events, opts) \subseteq events
           /\ Failures(events, opts) \in {events, {e \in events : e.fails}}
           /\ Deduped(Failures(events, opts), opts) \subseteq Failures(events, opts)
           /\ Pool(opts) \subseteq Deduped(Failures(events, opts), opts)
           /\ \A e \in Pool(opts) : truth[e.customer] # NoTruth
BY DEF Failures, Deduped, Pool, Joined

\* The groups come in an order: of two events that were kept one is ahead.
LEMMA OneIsAhead ==
    ASSUME DataOk, NEW opts, NEW list \in SUBSET events,
           NEW e \in Deduped(list, opts), NEW f \in Deduped(list, opts), e # f
    PROVE  /\ Met(e, list, opts) \in Nat /\ Met(f, list, opts) \in Nat
           /\ Ahead(e, f, list, opts) \/ Ahead(f, e, list, opts)
<1> DEFINE Places(x) == {g.place : g \in Group(x, list, opts)}
<1>1. e \in list /\ f \in list
  BY DEF Deduped
<1>2. \A x \in list : Places(x) \subseteq Nat /\ Places(x) # {}
  BY DataIs DEF Event, Group
<1>3. \A x \in list : Met(x, list, opts) \in Places(x) /\ Met(x, list, opts) \in Nat
  <2> SUFFICES ASSUME NEW x \in list
               PROVE Met(x, list, opts) \in Places(x) /\ Met(x, list, opts) \in Nat
    OBVIOUS
  <2>1. Places(x) \subseteq Nat /\ Places(x) # {}
    BY <1>2
  <2>2. Met(x, list, opts) = Min(Places(x))
    BY DEF Met
  <2> HIDE DEF Places
  <2> QED BY <2>1, <2>2, MinIs
<1>4. Met(e, list, opts) # Met(f, list, opts)
  <2> SUFFICES ASSUME Met(e, list, opts) = Met(f, list, opts) PROVE FALSE
    OBVIOUS
  <2>1. PICK g \in Group(e, list, opts) : g.place = Met(e, list, opts)
    BY <1>1, <1>3
  <2>2. PICK h \in Group(f, list, opts) : h.place = Met(f, list, opts)
    BY <1>1, <1>3
  <2>3. g = h
    BY <2>1, <2>2, DataIs DEF Group
  <2>4. Group(e, list, opts) = Group(f, list, opts)
    BY <1>1, <2>1, <2>2, <2>3, GroupIsShared
  <2>5. e \in Group(f, list, opts) /\ f \in Group(e, list, opts)
    BY <1>1, <2>4 DEF Group
  <2>6. ~Earlier(e, f, list) /\ ~Earlier(f, e, list)
    BY <2>5 DEF Deduped
  <2> QED BY <1>1, <2>6, EarlierIsTotal
<1>5. Met(e, list, opts) < Met(f, list, opts) \/ Met(f, list, opts) < Met(e, list, opts)
  BY <1>1, <1>3, <1>4
<1> QED BY <1>1, <1>3, <1>5 DEF Ahead

\* So a place in the list belongs to one event.
LEMMA IndexIsOwn ==
    ASSUME DataOk, NEW opts, NEW list \in SUBSET events,
           NEW e \in Deduped(list, opts), NEW f \in Deduped(list, opts),
           Ahead(e, f, list, opts)
    PROVE  /\ Index(e, list, opts) \in Nat /\ Index(f, list, opts) \in Nat
           /\ Index(e, list, opts) < Index(f, list, opts)
<1> DEFINE Before(x) == {g \in Deduped(list, opts) : Ahead(g, x, list, opts)}
<1>1. \A x \in Deduped(list, opts) : Met(x, list, opts) \in Nat
  <2> SUFFICES ASSUME NEW x \in Deduped(list, opts) PROVE Met(x, list, opts) \in Nat
    OBVIOUS
  <2>1. {g.place : g \in Group(x, list, opts)} \subseteq Nat
    BY DataIs DEF Event, Group
  <2>2. {g.place : g \in Group(x, list, opts)} # {}
    BY DEF Group, Deduped
  <2> QED BY <2>1, <2>2, MinIs DEF Met
<1>2. Before(e) \subseteq Before(f)
  <2> SUFFICES ASSUME NEW g \in Deduped(list, opts), Ahead(g, e, list, opts)
               PROVE  Ahead(g, f, list, opts)
    OBVIOUS
  <2> QED BY <1>1 DEF Ahead
<1>3. e \in Before(f) /\ e \notin Before(e)
  BY <1>1 DEF Ahead
<1>4. IsFiniteSet(Before(f)) /\ IsFiniteSet(Before(e))
  <2>1. Before(f) \in SUBSET events /\ Before(e) \in SUBSET events
    BY DEF Deduped
  <2> QED BY <2>1, DataIs, FS_Subset
<1>5. Index(e, list, opts) = Cardinality(Before(e)) /\ Index(f, list, opts) = Cardinality(Before(f))
  BY DEF Index
<1> HIDE DEF Before
<1> QED BY <1>2, <1>3, <1>4, <1>5, FS_Subset, FS_CardinalityType

\* A row's id is its event's own, or made up, and no other row has it.
LEMMA RowIdsDiffer ==
    ASSUME DataOk, NEW opts, NEW e \in Pool(opts)
    PROVE  /\ RowId(e, opts) \in RowIds
           /\ HasItsId(events, e, RowId(e, opts))
           /\ \A f \in Pool(opts) : RowId(e, opts) = RowId(f, opts) => e = f
<1> DEFINE list == Failures(events, opts)
<1>1. /\ list \in SUBSET events /\ list \in {events, {f \in events : f.fails}}
      /\ Pool(opts) \subseteq Deduped(list, opts) /\ Deduped(list, opts) \subseteq list
  BY PoolIsListed
<1>2. CASE HasIds(list)
  <2>1. \A f \in Pool(opts) : RowId(f, opts) = [kind |-> "own", n |-> f.id]
    BY <1>2 DEF RowId
  <2>2. e \in list /\ e.id \in Nat
    BY <1>1, <1>2, DataIs DEF HasIds, Event
  <2>3. RowId(e, opts).n = e.id /\ RowId(e, opts) \in RowIds
    <3>1. [kind |-> "own", n |-> e.id].n = e.id
      OBVIOUS
    <3>2. [kind |-> "own", n |-> e.id] \in RowIds
      BY <2>2 DEF RowIds
    <3> QED BY <2>1, <3>1, <3>2
  <2>4. HasItsId(events, e, RowId(e, opts))
    <3> HIDE DEF list
    <3> QED BY <1>1, <1>2, <2>2, <2>3 DEF HasItsId
  <2>5. ASSUME NEW f \in Pool(opts), RowId(e, opts) = RowId(f, opts) PROVE e = f
    <3>1. RowId(f, opts).n = f.id /\ f \in list
      BY <1>1, <2>1
    <3> HIDE DEF list
    <3> QED BY <1>2, <2>2, <2>3, <2>5, <3>1 DEF HasIds
  <2> QED BY <2>3, <2>4, <2>5
<1>3. CASE ~HasIds(list)
  <2>1. \A f \in Pool(opts) : RowId(f, opts) = [kind |-> "row", n |-> Index(f, list, opts)]
    BY <1>3 DEF RowId
  <2> HIDE DEF list
  <2>2. ASSUME NEW f \in Pool(opts), e # f
        PROVE  /\ Index(e, list, opts) # Index(f, list, opts)
    <3>1. e \in Deduped(list, opts) /\ f \in Deduped(list, opts)
      BY <1>1
    <3>2. Ahead(e, f, list, opts) \/ Ahead(f, e, list, opts)
      BY <1>1, <2>2, <3>1, OneIsAhead
    <3>3. CASE Ahead(e, f, list, opts)
      BY <1>1, <3>1, <3>3, IndexIsOwn
    <3>4. CASE Ahead(f, e, list, opts)
      BY <1>1, <3>1, <3>4, IndexIsOwn
    <3> QED BY <3>2, <3>3, <3>4
  <2>3. Index(e, list, opts) \in Nat
    <3>1. {f \in Deduped(list, opts) : Ahead(f, e, list, opts)} \in SUBSET events
      BY <1>1
    <3> QED BY <3>1, DataIs, FS_Subset, FS_CardinalityType DEF Index
  <2>4. RowId(e, opts) \in RowIds
    BY <2>1, <2>3 DEF RowIds
  <2>5. RowId(e, opts).kind = "row"
    <3>1. RowId(e, opts) = [kind |-> "row", n |-> Index(e, list, opts)]
      BY <2>1
    <3> QED BY <3>1
  <2>6. \A f \in Pool(opts) : RowId(f, opts).n = Index(f, list, opts)
    BY <2>1
  <2>7. HasItsId(events, e, RowId(e, opts))
    BY <2>5 DEF HasItsId
  <2>8. ASSUME NEW f \in Pool(opts), RowId(e, opts) = RowId(f, opts) PROVE e = f
    BY <2>2, <2>6, <2>8
  <2> QED BY <2>4, <2>7, <2>8
<1> QED BY <1>2, <1>3

\* The shuffled rows are the rows drawn, each of them once.
LEMMA ShuffleIsWhole ==
    ASSUME NEW S, IsFiniteSet(S), NEW s \in SetToSeqs(S)
    PROVE  /\ s \in Seq(S) /\ ToSet(s) = S
           /\ \A i, j \in DOMAIN s : s[i] = s[j] => i = j
<1> DEFINE n == Cardinality(S)
<1>1. n \in Nat
  BY FS_CardinalityType
<1>2. s \in [1..n -> S] /\ \A i, j \in 1..n : i # j => s[i] # s[j]
  BY DEF SetToSeqs
<1>3. s \in Injection(1..n, S)
  BY <1>2 DEF Injection, IsInjective
<1>4. s \in Surjection(1..n, S)
  <2>1. Cardinality(1..n) = n
    BY <1>1, FS_Interval
  <2> QED BY <1>1, <1>3, <2>1, FS_Injection
<1>5. ToSet(s) = S
  BY <1>2, <1>4 DEF Surjection, ToSet
<1> QED BY <1>1, <1>2, <1>5

\* A draw is part of the pool, and its rows have their ids and causes.
LEMMA DrawIsInPool ==
    ASSUME DataOk, NEW opts, NEW draw \in Draws(opts)
    PROVE  /\ draw \subseteq Pool(opts) /\ IsFiniteSet(Pool(opts)) /\ IsFiniteSet(draw)
           /\ IsFiniteSet({Drawn(e, opts) : e \in draw})
           /\ \A e \in draw :
                /\ Drawn(e, opts) \in Entry /\ e \in events
                /\ HasItsId(events, e, Drawn(e, opts).id)
                /\ Drawn(e, opts).event = e
                /\ Drawn(e, opts).cause = truth[e.customer]
           /\ \A e, f \in draw : Drawn(e, opts).id = Drawn(f, opts).id => e = f
<1>1. draw \subseteq Pool(opts)
  BY DEF Draws, kSubset, Floor
<1>2. Pool(opts) \in SUBSET events
  BY PoolIsListed
<1>3. IsFiniteSet(Pool(opts)) /\ IsFiniteSet(draw)
  BY <1>1, <1>2, DataIs, FS_Subset
<1>4. IsFiniteSet({Drawn(e, opts) : e \in draw})
  <2> DEFINE drawnOf == [e \in draw |-> Drawn(e, opts)]
             T == {Drawn(e, opts) : e \in draw}
  <2>1. T \subseteq {drawnOf[e] : e \in draw}
    OBVIOUS
  <2> HIDE DEF drawnOf, T
  <2>2. IsFiniteSet(T)
    BY <1>3, <2>1, ValuesAreFewer
  <2> QED BY <2>2 DEF T
<1>5. ASSUME NEW e \in draw
      PROVE  /\ Drawn(e, opts) \in Entry /\ e \in events
             /\ HasItsId(events, e, Drawn(e, opts).id)
             /\ Drawn(e, opts).id = RowId(e, opts)
             /\ Drawn(e, opts).event = e
             /\ Drawn(e, opts).cause = truth[e.customer]
  <2>1. e \in Event /\ e \in events /\ truth[e.customer] \in Causes
    BY <1>1, <1>2, DataIs, PoolIsListed DEF Event
  <2>2. RowId(e, opts) \in RowIds /\ HasItsId(events, e, RowId(e, opts))
    BY <1>1, RowIdsDiffer
  <2> QED BY <2>1, <2>2 DEF Drawn, Entry
<1>6. \A e, f \in draw : Drawn(e, opts).id = Drawn(f, opts).id => e = f
  BY <1>1, <1>5, RowIdsDiffer
<1> QED BY <1>1, <1>3, <1>4, <1>5, <1>6

----------------------------------------------------------------------------
(* The commands keep the invariant.                                        *)

LEMMA HarnessInit == Init => HarnessInv
<1> SUFFICES ASSUME Init PROVE HarnessInv
  OBVIOUS
<1>1. args \in SampleArgs
  BY ArgsAssumption DEF Init, NoArgs
<1>2. DataOk
  BY DEF Init, DataOk, Drawings, Now
<1>3. << >> \in Seq(Entry) /\ DOMAIN << >> = {}
  OBVIOUS
<1> QED BY <1>1, <1>2, <1>3
     DEF Init, HarnessInv, BlindOk, Written, KeyOk, SampleOk, LabelOk, HasRows, Steps

LEMMA RegenerateKeeps ==
    ASSUME HarnessInv, Regenerate
    PROVE  HarnessInv'
<1>1. PICK d \in Datasets : events' = d.events /\ truth' = d.truth
  BY DEF Regenerate
<1>2. /\ pc = "idle" /\ pc' = pc
      /\ UNCHANGED <<blind, manifest, args, picked, rows, cursor, said, givenUp, source, whole>>
  BY DEF Regenerate, files, history
<1>3. DataOk'
  BY <1>1, <1>2 DEF DataOk, Drawings, Now, HarnessInv
<1>4. SampleOk'
  BY <1>2 DEF SampleOk, HarnessInv
<1>5. BlindOk' /\ KeyOk' /\ LabelOk'
  BY <1>2 DEF HarnessInv, BlindOk, Written, HasRows, RowsOk, KeyOk, LabelOk
<1> QED BY <1>3, <1>4, <1>5 DEF HarnessInv

\* What may be drawn depends on the data and the command line alone.
LEMMA DrawsStay ==
    ASSUME UNCHANGED <<events, truth>>
    PROVE  Draws(args)' = Draws(args') /\ \A e : Drawn(e, args)' = Drawn(e, args')
<1>1. Pool(args)' = Pool(args')
  BY DEF Pool, Joined
<1>2. \A e : RowId(e, args)' = RowId(e, args') /\ Drawn(e, args)' = Drawn(e, args')
  BY DEF RowId, Drawn
<1>3. Floor(Pool(args), args)' = Floor(Pool(args'), args')
  <2>1. \A e : Class(Pool(args), truth[e.customer])' = Class(Pool(args'), truth[e.customer])
    BY <1>1 DEF Class
  <2>2. \A e : {f \in Class(Pool(args), truth[e.customer]) : RowId(f, args).n < RowId(e, args).n}'
                = {f \in Class(Pool(args'), truth[e.customer]) :
                     RowId(f, args').n < RowId(e, args').n}
    BY <1>2, <2>1
  <2> QED BY <1>1, <2>1, <2>2 DEF Floor
<1> QED BY <1>1, <1>2, <1>3 DEF Draws

LEMMA DrawKeeps ==
    ASSUME HarnessInv, Draw
    PROVE  HarnessInv'
<1>1. /\ args' \in SampleArgs /\ pc = "idle" /\ pc' = "blind"
      /\ UNCHANGED <<events, truth, blind, manifest, rows, cursor, said, givenUp, source, whole>>
  BY DEF Draw, data, files, history
<1>2. PICK draw \in Draws(args') : picked' \in SetToSeqs({Drawn(e, args') : e \in draw})
  BY DEF Draw
<1>3. DataOk /\ DataOk'
  BY <1>1 DEF HarnessInv, DataOk, Now
<1> DEFINE S == {Drawn(e, args') : e \in draw}
<1>4. /\ S \subseteq Entry /\ IsFiniteSet(S)
      /\ \A x, y \in S : x.id = y.id => x = y
      /\ \A x \in S : /\ x.event \in events /\ HasItsId(events, x.event, x.id)
                      /\ x.cause = truth[x.event.customer]
  BY <1>2, <1>3, DrawIsInPool
<1>5. /\ picked' \in Seq(S) /\ ToSet(picked') = S
      /\ \A i, j \in DOMAIN picked' : picked'[i] = picked'[j] => i = j
  <2> HIDE DEF S
  <2>1. picked' \in SetToSeqs(S)
    BY <1>2 DEF S
  <2> QED BY <1>4, <2>1, ShuffleIsWhole
<1>6. \A i \in DOMAIN picked' : picked'[i] \in S
  BY <1>5 DEF ToSet
<1>7. picked' \in Seq(Entry)
  <2> HIDE DEF S
  <2> QED BY <1>4, <1>5
<1>8. (\E d \in Draws(args) : picked \in SetToSeqs({Drawn(e, args) : e \in d}))'
  BY <1>1, <1>2, DrawsStay
<1>9. SampleOk'
  <2> HIDE DEF S
  <2> QED BY <1>1, <1>4, <1>5, <1>6, <1>7, <1>8 DEF SampleOk
<1>10. BlindOk' /\ KeyOk' /\ LabelOk'
  BY <1>1 DEF HarnessInv, BlindOk, Written, HasRows, RowsOk, KeyOk, LabelOk, Steps
<1> QED BY <1>3, <1>9, <1>10 DEF HarnessInv

\* The new sample has the rows drawn, with nothing said of any.
LEMMA WriteBlindKeeps ==
    ASSUME HarnessInv, WriteBlind
    PROVE  HarnessInv'
<1> DEFINE fresh == [i \in DOMAIN picked |->
                       [id |-> picked[i].id, label |-> NoLabel, payload |-> picked[i].event]]
<1>1. /\ pc = "blind_open" /\ pc' = "manifest" /\ blind' = fresh
      /\ said' = [i \in DOMAIN picked |-> NoLabel] /\ givenUp' = {}
      /\ source' = [source EXCEPT !.sample = Now]
      /\ UNCHANGED <<events, truth, manifest, args, picked, rows, cursor, whole>>
  BY DEF WriteBlind, data
<1>2. /\ DataOk /\ SampleOk /\ KeyOk /\ picked \in Seq(Entry)
      /\ source \in [sample : Drawings, key : Drawings] /\ Now \in Drawings
  BY DEF HarnessInv, SampleOk, DataOk
<1>3. source'.sample = Now /\ source'.key = source.key /\ DataOk'
  BY <1>1, <1>2 DEF DataOk, Now
<1>4. /\ fresh \in Seq(Row) /\ DOMAIN fresh = DOMAIN picked
      /\ \A i \in DOMAIN picked :
           fresh[i].id = picked[i].id /\ fresh[i].label = NoLabel /\ fresh[i].payload = picked[i].event
  <2>1. \A i \in 1..Len(picked) :
          [id |-> picked[i].id, label |-> NoLabel, payload |-> picked[i].event] \in Row
    <3>1. \A i \in 1..Len(picked) : picked[i] \in Entry
      BY <1>2
    <3> QED BY <3>1 DEF Row, Entry
  <2> QED BY <1>2, <2>1
<1> HIDE DEF fresh
<1>5. \A i \in DOMAIN picked : HasItsId(Now.events, picked[i].event, picked[i].id)
  BY <1>2 DEF SampleOk, Now
<1>6. RowsOk'
  BY <1>1, <1>3, <1>4, <1>5 DEF RowsOk
<1>7. SampleOk'
  <2>1. Now' = Now
    BY <1>1 DEF Now
  <2> QED BY <1>1, <1>2, <1>3, <1>4, <2>1 DEF SampleOk
<1>8. KeyOk'
  BY <1>1, <1>2, <1>3 DEF KeyOk, SampleOk, HasRows
<1>9. LabelOk'
  BY <1>1 DEF LabelOk, Steps, HarnessInv
<1> QED BY <1>3, <1>6, <1>7, <1>8, <1>9 DEF HarnessInv, BlindOk

\* The new key has the cause of every row drawn, as the rows' ids differ.
LEMMA WriteManifestKeeps ==
    ASSUME HarnessInv, WriteManifest
    PROVE  HarnessInv'
<1> DEFINE ids == {picked[i].id : i \in DOMAIN picked}
           LastWith(id) == Max({i \in DOMAIN picked : picked[i].id = id})
<1>1. /\ pc = "manifest_open" /\ pc' = "idle"
      /\ manifest' = [id \in ids |-> picked[LastWith(id)].cause]
      /\ source' = [source EXCEPT !.key = Now]
      /\ args' = NoArgs /\ picked' = << >>
      /\ UNCHANGED <<events, truth, blind, rows, cursor, said, givenUp>>
  BY DEF WriteManifest, data
<1>2. /\ DataOk /\ SampleOk /\ RowsOk
      /\ source \in [sample : Drawings, key : Drawings] /\ Now \in Drawings
  BY <1>1 DEF HarnessInv, DataOk, BlindOk, Written
<1>3. source'.key = Now /\ source'.sample = source.sample /\ source.sample = Now /\ DataOk'
  BY <1>1, <1>2 DEF DataOk, Now, SampleOk
<1>4. ASSUME NEW i \in DOMAIN picked
      PROVE  /\ picked[i].id \in DOMAIN manifest'
             /\ manifest'[picked[i].id] = picked[i].cause
  <2>1. {j \in DOMAIN picked : picked[j].id = picked[i].id} = {i}
    BY <1>2 DEF SampleOk
  <2>2. i \in Nat
    BY <1>2 DEF SampleOk
  <2>3. Max({i}) = i
    BY <2>2, MaxOfTwo
  <2>4. LastWith(picked[i].id) = i /\ picked[i].id \in ids
    BY <2>1, <2>3
  <2> HIDE DEF ids, LastWith
  <2> QED BY <1>1, <2>4
<1>5. \A id \in DOMAIN manifest' : \E i \in DOMAIN picked : id = picked[i].id
  BY <1>1
<1>6. KeyOk'
  <2>1. ASSUME NEW id \in DOMAIN manifest'
        PROVE  \E e \in source'.key.events :
                 /\ HasItsId(source'.key.events, e, id)
                 /\ manifest'[id] = source'.key.truth[e.customer]
    <3>1. PICK i \in DOMAIN picked : id = picked[i].id
      BY <1>5
    <3>2. /\ picked[i].event \in events
          /\ HasItsId(events, picked[i].event, picked[i].id)
          /\ picked[i].cause = truth[picked[i].event.customer]
      BY <1>2 DEF SampleOk
    <3> QED BY <1>3, <1>4, <3>1, <3>2 DEF Now
  <2>2. ASSUME NEW i \in DOMAIN blind'
        PROVE  /\ blind'[i].id \in DOMAIN manifest'
               /\ manifest'[blind'[i].id] = source'.sample.truth[blind'[i].payload.customer]
    <3>1. /\ i \in DOMAIN picked /\ blind'[i].id = picked[i].id
          /\ blind'[i].payload = picked[i].event
          /\ picked[i].cause = truth[picked[i].event.customer]
      BY <1>1, <1>2, <2>2 DEF SampleOk
    <3> QED BY <1>3, <1>4, <3>1 DEF Now
  <2> HIDE DEF ids, LastWith
  <2> QED BY <2>1, <2>2 DEF KeyOk
<1>7. SampleOk'
  <2>1. << >> \in Seq(Entry) /\ DOMAIN << >> = {} /\ NoArgs \in SampleArgs
    BY ArgsAssumption DEF NoArgs
  <2> HIDE DEF ids, LastWith
  <2> QED BY <1>1, <2>1 DEF SampleOk
<1>8. RowsOk' /\ LabelOk'
  <2> HIDE DEF ids, LastWith
  <2>1. RowsOk'
    BY <1>1, <1>2, <1>3 DEF RowsOk
  <2>2. LabelOk'
    BY <1>1 DEF LabelOk, Steps, HarnessInv
  <2> QED BY <2>1, <2>2
<1> QED BY <1>3, <1>6, <1>7, <1>8 DEF HarnessInv, BlindOk

LEMMA OpenKeeps ==
    ASSUME HarnessInv, OpenBlind \/ OpenManifest
    PROVE  HarnessInv'
<1>1. CASE OpenBlind
  <2>1. /\ pc = "blind" /\ pc' = "blind_open" /\ blind' = Torn /\ whole' = FALSE
        /\ UNCHANGED <<events, truth, manifest, args, picked, rows, cursor, said, givenUp, source>>
    BY <1>1 DEF OpenBlind, data
  <2>2. DataOk' /\ SampleOk'
    BY <2>1 DEF HarnessInv, DataOk, Now, SampleOk
  <2>3. BlindOk' /\ KeyOk' /\ LabelOk'
    BY <2>1 DEF HarnessInv, BlindOk, Written, HasRows, KeyOk, LabelOk, Steps
  <2> QED BY <2>2, <2>3 DEF HarnessInv
<1>2. CASE OpenManifest
  <2>1. /\ pc = "manifest" /\ pc' = "manifest_open" /\ manifest' = Torn
        /\ UNCHANGED <<events, truth, blind, args, picked, rows, cursor, said, givenUp, source, whole>>
    BY <1>2 DEF OpenManifest, data, history
  <2>2. DataOk' /\ SampleOk'
    BY <2>1 DEF HarnessInv, DataOk, Now, SampleOk
  <2>3. RowsOk /\ RowsOk'
    BY <2>1 DEF HarnessInv, BlindOk, Written, RowsOk
  <2>4. KeyOk' /\ LabelOk'
    BY <2>1 DEF HarnessInv, HasRows, KeyOk, LabelOk, Steps
  <2> QED BY <2>2, <2>3, <2>4 DEF HarnessInv, BlindOk
<1> QED BY <1>1, <1>2

\* The rows with another label for one of them.
Labelled(file, i, label) == [file EXCEPT ![i].label = label]

LEMMA LabelledRows ==
    ASSUME NEW file \in Seq(Row), NEW i \in DOMAIN file, NEW label \in Labels \cup {NoLabel}
    PROVE  /\ Labelled(file, i, label) \in Seq(Row)
           /\ Len(Labelled(file, i, label)) = Len(file)
           /\ DOMAIN Labelled(file, i, label) = DOMAIN file
           /\ \A j \in DOMAIN file : /\ Labelled(file, i, label)[j].id = file[j].id
                                   /\ Labelled(file, i, label)[j].payload = file[j].payload
           /\ Labelled(file, i, label)[i].label = label
           /\ \A j \in DOMAIN file : j # i => Labelled(file, i, label)[j] = file[j]
<1>1. PICK r : r = file[i] /\ r \in Row
  OBVIOUS
<1>2. PICK s : s = [r EXCEPT !.label = label] /\ s \in Row /\ s.id = r.id /\ s.payload = r.payload /\ s.label = label
  <2> DEFINE n == [r EXCEPT !.label = label]
  <2>1. n \in Row /\ n.id = r.id /\ n.payload = r.payload /\ n.label = label
    BY <1>1 DEF Row
  <2> QED BY <2>1
<1>3. PICK marked : marked = [file EXCEPT ![i] = s]
  OBVIOUS
<1>4. Labelled(file, i, label) = marked
  BY <1>1, <1>2, <1>3 DEF Labelled
<1>5. /\ marked \in Seq(Row) /\ Len(marked) = Len(file) /\ DOMAIN marked = DOMAIN file
      /\ marked[i] = s /\ \A j \in DOMAIN file : j # i => marked[j] = file[j]
  BY <1>2, <1>3
<1>6. \A j \in DOMAIN file : marked[j].id = file[j].id /\ marked[j].payload = file[j].payload
  BY <1>1, <1>2, <1>5
<1> QED BY <1>2, <1>4, <1>5, <1>6

\* Another label for a row changes nothing of the sample and the key.
LEMMA RelabelKeeps ==
    ASSUME HarnessInv, pc \in {"key", "note"}, pc' \in {"key", "done", "idle"},
           UNCHANGED <<events, truth, manifest, args, picked, source, whole>>,
           DOMAIN blind' = DOMAIN blind,
           \A i \in DOMAIN blind : blind'[i].id = blind[i].id /\ blind'[i].payload = blind[i].payload,
           blind' \in Seq(Row), said' \in [DOMAIN blind -> Labels \cup {NoLabel}],
           \A i \in DOMAIN blind :
              blind'[i].label = IF i \in givenUp' THEN NoLabel ELSE said'[i]
    PROVE  DataOk' /\ BlindOk' /\ KeyOk' /\ SampleOk'
<1>1. RowsOk /\ Written /\ DataOk /\ KeyOk /\ SampleOk
  BY DEF HarnessInv, BlindOk, Written
<1>2. DataOk'
  BY <1>1 DEF DataOk, Now
<1>3. RowsOk'
  BY <1>1 DEF RowsOk
<1>4. KeyOk'
  BY <1>1 DEF KeyOk, HasRows
<1>5. SampleOk'
  BY <1>1 DEF SampleOk
<1> QED BY <1>2, <1>3, <1>4, <1>5 DEF BlindOk

\* A keystroke that labels the row shown: the file has it, and the cursor goes
\* on to the next row without a label.
LEMMA MarkKeeps ==
    ASSUME HarnessInv, pc \in {"key", "note"}, NEW label \in Labels, Mark(label)
    PROVE  HarnessInv'
<1> DEFINE marked == Labelled(rows, cursor, label)
           next == Seek(marked, cursor + 1)
<1>0. HarnessInv
  OBVIOUS
<1>1. /\ rows \in Seq(Row) /\ blind = rows /\ cursor \in DOMAIN rows
      /\ \A i \in 1..cursor - 1 : ~Unlabelled(rows[i])
      /\ said \in [DOMAIN rows -> Labels \cup {NoLabel}] /\ RowsOk
  BY DEF HarnessInv, BlindOk, Written, LabelOk, RowsOk
<1>2. /\ marked \in Seq(Row) /\ Len(marked) = Len(rows) /\ DOMAIN marked = DOMAIN rows
      /\ \A i \in DOMAIN marked : marked[i].id = rows[i].id /\ marked[i].payload = rows[i].payload
      /\ marked[cursor].label = label
      /\ \A i \in DOMAIN rows : i # cursor => marked[i] = rows[i]
  <2> label \in Labels \cup {NoLabel}
    OBVIOUS
  <2> QED BY <1>1, LabelledRows
<1>3. /\ blind' = marked /\ said' = [said EXCEPT ![cursor] = label]
      /\ givenUp' = givenUp \ {cursor}
      /\ UNCHANGED <<events, truth, manifest, args, picked, source, whole>>
      /\ \/ next > Len(rows) /\ pc' = "done"
         \/ next <= Len(rows) /\ pc' = "key" /\ rows' = marked /\ cursor' = next
  <2> DEFINE n == next
  <2>1. Len(rows) \in Nat /\ n \in Nat
    <3>1. Len(marked) \in Nat /\ cursor + 1 \in 1..Len(marked) + 1
      BY <1>1, <1>2
    <3> HIDE DEF marked
    <3> QED BY <1>2, <3>1, SeekStops
  <2> HIDE DEF n
  <2>2. /\ blind' = marked /\ said' = [said EXCEPT ![cursor] = label]
        /\ givenUp' = givenUp \ {cursor}
        /\ UNCHANGED <<events, truth, manifest, args, picked, source, whole>>
        /\ IF n > Len(rows) THEN pc' = "done" /\ Leave
           ELSE pc' = "key" /\ rows' = marked /\ cursor' = n
    BY DEF Mark, Labelled, n, data, sampling
  <2> QED BY <2>1, <2>2 DEF n
<1>4. /\ next \in cursor + 1..Len(rows) + 1
      /\ \A i \in 1..next - 1 : ~Unlabelled(marked[i])
  <2>1. ~Unlabelled(marked[cursor]) /\ \A i \in 1..cursor - 1 : ~Unlabelled(marked[i])
    BY <1>1, <1>2, LabelAssumption DEF Unlabelled, Labels
  <2>2. /\ next \in cursor + 1..Len(rows) + 1
        /\ \A i \in cursor + 1..next - 1 : ~Unlabelled(marked[i])
    <3>1. Len(marked) \in Nat /\ cursor + 1 \in 1..Len(marked) + 1
      BY <1>1, <1>2
    <3> HIDE DEF marked
    <3> QED BY <1>2, <3>1, SeekStops
  <2> HIDE DEF next, marked
  <2> QED BY <1>1, <2>1, <2>2
<1> HIDE DEF marked, next
<1>5. ASSUME NEW i \in DOMAIN blind
      PROVE  blind'[i].label = IF i \in givenUp' THEN NoLabel ELSE said'[i]
  <2>1. CASE i = cursor
    BY <1>1, <1>2, <1>3, <2>1
  <2>2. CASE i # cursor
    BY <1>1, <1>2, <1>3, <2>2 DEF RowsOk
  <2> QED BY <2>1, <2>2
<1>6. said' \in [DOMAIN blind -> Labels \cup {NoLabel}]
  BY <1>1, <1>3
<1>7. DataOk' /\ BlindOk' /\ KeyOk' /\ SampleOk'
  BY <1>1, <1>2, <1>3, <1>5, <1>6, RelabelKeeps
<1>8. LabelOk'
  <2>1. CASE next > Len(rows) /\ pc' = "done"
    BY <1>1, <1>2, <1>3, <1>4, <2>1 DEF LabelOk, Steps
  <2>2. CASE next <= Len(rows) /\ pc' = "key" /\ rows' = marked /\ cursor' = next
    BY <1>1, <1>2, <1>3, <1>4, <2>2 DEF LabelOk, Steps
  <2> QED BY <1>3, <2>1, <2>2
<1> QED BY <1>7, <1>8 DEF HarnessInv

\* Giving up a note takes the row's label away and stays there.
LEMMA EndOfNoteKeeps ==
    ASSUME HarnessInv, EndOfNote
    PROVE  HarnessInv'
<1> DEFINE bare == Labelled(rows, cursor, NoLabel)
<1>1. /\ rows \in Seq(Row) /\ blind = rows /\ cursor \in DOMAIN rows
      /\ \A i \in 1..cursor - 1 : ~Unlabelled(rows[i])
      /\ said \in [DOMAIN rows -> Labels \cup {NoLabel}] /\ RowsOk
      /\ pc \in {"key", "note"}
  BY DEF EndOfNote, HarnessInv, BlindOk, Written, LabelOk, RowsOk
<1>2. /\ bare \in Seq(Row) /\ Len(bare) = Len(rows) /\ DOMAIN bare = DOMAIN rows
      /\ \A i \in DOMAIN bare : bare[i].id = rows[i].id /\ bare[i].payload = rows[i].payload
      /\ bare[cursor].label = NoLabel
      /\ \A i \in DOMAIN rows : i # cursor => bare[i] = rows[i]
  BY <1>1, LabelledRows
<1>3. /\ pc' = "key" /\ rows' = bare /\ blind' = bare
      /\ givenUp' = givenUp \cup {cursor}
      /\ UNCHANGED <<events, truth, manifest, args, picked, source, whole, cursor, said>>
  BY DEF EndOfNote, Labelled, data, sampling
<1> HIDE DEF bare
<1>4. \A i \in 1..cursor - 1 : ~Unlabelled(bare[i])
  BY <1>1, <1>2 DEF Unlabelled
<1>5. ASSUME NEW i \in DOMAIN blind
      PROVE  blind'[i].label = IF i \in givenUp' THEN NoLabel ELSE said'[i]
  <2>1. CASE i = cursor
    BY <1>1, <1>2, <1>3, <2>1
  <2>2. CASE i # cursor
    BY <1>1, <1>2, <1>3, <2>2 DEF RowsOk
  <2> QED BY <2>1, <2>2
<1>6. DataOk' /\ BlindOk' /\ KeyOk' /\ SampleOk'
  BY <1>1, <1>2, <1>3, <1>5, RelabelKeeps
<1>7. LabelOk'
  BY <1>1, <1>2, <1>3, <1>4 DEF LabelOk, Steps
<1> QED BY <1>6, <1>7 DEF HarnessInv

\* Opening, leaving and going back change no file, and nothing that was said.
LEMMA CursorKeeps ==
    ASSUME HarnessInv, StartLabel \/ PressUnknown \/ Back \/ Quit \/ Finish \/ Kill
    PROVE  HarnessInv'
<1>1. /\ UNCHANGED <<events, truth, blind, manifest, said, givenUp, source, whole>>
      /\ UNCHANGED <<args, picked>> \/ (args' = NoArgs /\ picked' = << >>)
      /\ pc' \in {"key", "note", "idle"}
      /\ picked = << >> \/ picked' = << >>
      /\ pc' \in {"key", "note"} => HasRows(blind) \/ pc \in {"key", "note"}
  BY DEF HarnessInv, LabelOk, SampleOk, StartLabel, PressUnknown, Back, Quit, Finish, Kill,
         data, files, sampling, history
<1>2. DataOk'
  BY <1>1 DEF HarnessInv, DataOk, Now
<1>3. BlindOk' /\ KeyOk'
  BY <1>1 DEF HarnessInv, BlindOk, Written, HasRows, RowsOk, KeyOk
<1>4. SampleOk'
  <2>1. << >> \in Seq(Entry) /\ DOMAIN << >> = {} /\ NoArgs \in SampleArgs
    BY ArgsAssumption DEF NoArgs
  <2>2. picked' = << >> /\ args' \in SampleArgs
    BY <1>1, <2>1 DEF HarnessInv, SampleOk
  <2> QED BY <1>1, <2>1, <2>2 DEF SampleOk
<1>5. LabelOk'
  <2>1. CASE StartLabel
    <3>1. /\ HasRows(blind) /\ RowsOk /\ pc' = "key" /\ rows' = blind
          /\ cursor' = Seek(blind, 1) /\ blind' = blind
      BY <2>1 DEF StartLabel, HarnessInv, BlindOk, Written
    <3>2. PICK i \in DOMAIN blind : Unlabelled(blind[i])
      BY <2>1 DEF StartLabel
    <3>3. Len(blind) \in Nat /\ DOMAIN blind = 1..Len(blind)
      BY <3>1 DEF RowsOk
    <3>4. /\ cursor' \in 1..Len(blind) + 1
          /\ \A j \in 1..cursor' - 1 : ~Unlabelled(blind[j])
      <4>1. 1 \in 1..Len(blind) + 1
        BY <3>3
      <4> QED BY <3>1, <3>3, <4>1, SeekStops
    <3>5. cursor' \in DOMAIN blind
      <4>1. CASE cursor' = Len(blind) + 1
        BY <3>2, <3>3, <3>4, <4>1
      <4>2. CASE cursor' # Len(blind) + 1
        BY <3>3, <3>4, <4>2
      <4> QED BY <4>1, <4>2
    <3> QED BY <3>1, <3>4, <3>5 DEF LabelOk, Steps
  <2>2. CASE PressUnknown
    BY <2>2 DEF PressUnknown, files, HarnessInv, LabelOk, Steps
  <2>3. CASE Back
    <3>1. /\ RowsOk /\ blind = rows /\ cursor \in DOMAIN rows /\ cursor > 1
          /\ blind' = rows /\ cursor' = cursor - 1 /\ UNCHANGED <<pc, rows>>
          /\ pc = "key" /\ \A i \in 1..cursor - 1 : ~Unlabelled(rows[i])
      BY <2>3 DEF Back, HarnessInv, BlindOk, Written, LabelOk
    <3>2. rows \in Seq(Row)
      BY <3>1 DEF RowsOk
    <3>3. cursor' \in DOMAIN rows /\ \A i \in 1..cursor' - 1 : ~Unlabelled(rows[i])
      BY <3>1, <3>2
    <3> QED BY <3>1, <3>3 DEF LabelOk, Steps
  <2>4. CASE Quit \/ Finish \/ Kill
    BY <2>4 DEF Quit, Finish, Kill, LabelOk, Steps
  <2> QED BY <2>1, <2>2, <2>3, <2>4
<1> QED BY <1>2, <1>3, <1>4, <1>5 DEF HarnessInv

THEOREM HarnessHolds == Spec => []HarnessInv
<1>1. HarnessInv /\ [Next]_vars => HarnessInv'
  <2> SUFFICES ASSUME HarnessInv, [Next]_vars PROVE HarnessInv'
    OBVIOUS
  <2>1. CASE \E cause \in Causes : Press(cause)
    <3>1. PICK cause \in Causes : pc = "key" /\ Mark(cause)
      BY <2>1 DEF Press
    <3>2. cause \in Labels
      BY DEF Labels
    <3> QED BY <3>1, <3>2, MarkKeeps
  <2>2. CASE GiveNote
    <3>1. pc = "note" /\ Mark("unknown") /\ "unknown" \in Labels
      BY <2>2 DEF GiveNote, Labels
    <3> QED BY <3>1, MarkKeeps
  <2>3. CASE UNCHANGED vars
    <3>1. UNCHANGED <<events, truth, blind, manifest, pc, args, picked, rows, cursor,
                      said, givenUp, source, whole>>
      BY <2>3 DEF vars, data, files, history
    <3>2. DataOk' /\ BlindOk' /\ KeyOk' /\ LabelOk'
      BY <3>1 DEF HarnessInv, DataOk, Now, BlindOk, Written, RowsOk, KeyOk, LabelOk, HasRows
    <3>3. SampleOk'
      <4>1. Draws(args)' = Draws(args) /\ \A e : Drawn(e, args)' = Drawn(e, args)
        BY <3>1, DrawsStay
      <4>2. (\E d \in Draws(args) : picked \in SetToSeqs({Drawn(e, args) : e \in d}))
              => (\E d \in Draws(args) : picked \in SetToSeqs({Drawn(e, args) : e \in d}))'
        BY <3>1, <4>1
      <4>3. SampleOk
        BY DEF HarnessInv
      <4> QED BY <3>1, <4>2, <4>3 DEF SampleOk, Now
    <3> QED BY <3>2, <3>3 DEF HarnessInv
  <2> QED BY <2>1, <2>2, <2>3, RegenerateKeeps, DrawKeeps, OpenKeeps, WriteBlindKeeps,
             WriteManifestKeeps, EndOfNoteKeeps, CursorKeeps DEF Next, Keystroke
<1> QED BY <1>1, HarnessInit, PTL DEF Spec

----------------------------------------------------------------------------
(* What a person may count on.                                             *)

\* Whatever the keys, interrupts and deaths, a sample on disk holds what was
\* last said of each of its rows, and no label where the row was given up at the
\* note prompt since.
THEOREM LabelsSurvive == Spec => []LabelsAreKept
<1>1. HarnessInv => LabelsAreKept
  BY DEF HarnessInv, BlindOk, Written, RowsOk, LabelsAreKept
<1> QED BY <1>1, HarnessHolds, PTL

\* Every row above the one shown has its label on disk, and so have all when
\* the tool says so.
THEOREM RowsAreShown == Spec => []NoRowIsPassedOver
<1>1. HarnessInv => NoRowIsPassedOver
  BY DEF HarnessInv, LabelOk, NoRowIsPassedOver
<1> QED BY <1>1, HarnessHolds, PTL

\* Of two events with one real id, both drawn from the same data, there is one.
LEMMA RealIdIsOwn ==
    ASSUME NEW all, NEW e, NEW f, NEW id, id.kind = "own",
           HasItsId(all, e, id), HasItsId(all, f, id)
    PROVE  e = f
<1>1. PICK S \in {all, {x \in all : x.fails}} : e \in S /\ HasIds(S)
  BY DEF HasItsId
<1>2. PICK T \in {all, {x \in all : x.fails}} : f \in T /\ HasIds(T)
  BY DEF HasItsId
<1>3. S \subseteq T \/ T \subseteq S
  OBVIOUS
<1>4. e.id = f.id
  BY DEF HasItsId
<1> QED BY <1>1, <1>2, <1>3, <1>4 DEF HasIds

\* A finished sample's labels are judged by the causes of their own records,
\* whatever the corpora and however its ids came about; and a key left over
\* from another sample of the same data judges no row with a real id wrongly.
THEOREM ScoresAreHonest == Spec => []ScoreIsHonest
<1>1. HarnessInv => ScoreIsHonest
  <2> SUFFICES ASSUME HarnessInv, HasRows(blind), HasRows(manifest), NEW i \in DOMAIN MatrixA
               PROVE  LET own == source.sample.truth[blind[i].payload.customer]
                      IN  /\ whole => MatrixA[i][1] = own
                          /\ (source.key = source.sample /\ blind[i].id.kind = "own") =>
                               MatrixA[i][1] \in {own, NoTruth}
    BY DEF ScoreIsHonest
  <2> DEFINE id == blind[i].id
             own == source.sample.truth[blind[i].payload.customer]
  <2>1. i \in DOMAIN blind /\ MatrixA[i][1] = Reference(i)
    BY DEF MatrixA
  <2>2. KeyOk /\ RowsOk /\ Written
    BY DEF HarnessInv, BlindOk, Written
  <2>3. whole => Reference(i) = own
    BY <2>1, <2>2 DEF KeyOk, Reference
  <2>4. ASSUME source.key = source.sample, id.kind = "own" PROVE Reference(i) \in {own, NoTruth}
    <3>1. CASE id \in DOMAIN manifest
      <4>1. PICK e \in source.key.events :
               HasItsId(source.key.events, e, id) /\ manifest[id] = source.key.truth[e.customer]
        BY <2>2, <3>1 DEF KeyOk
      <4>2. HasItsId(source.key.events, blind[i].payload, id)
        BY <2>1, <2>2, <2>4 DEF RowsOk
      <4>3. e = blind[i].payload
        BY <2>4, <4>1, <4>2, RealIdIsOwn
      <4> QED BY <2>4, <3>1, <4>1, <4>3 DEF Reference
    <3>2. CASE id \notin DOMAIN manifest
      BY <3>2 DEF Reference
    <3> QED BY <3>1, <3>2
  <2> QED BY <2>1, <2>3, <2>4
<1> QED BY <1>1, HarnessHolds, PTL

----------------------------------------------------------------------------
(* A draw is fair.                                                         *)

\* What the command line lets into the sample, before retries collapse.
Known(opts) == {e \in events : (opts.include \/ e.fails) /\ truth[e.customer] # NoTruth}

\* Collapsing the retries leaves of every group its first event, and, unless
\* the groups are not customers, of every customer one.
LEMMA PoolHasEveryCustomer ==
    ASSUME DataOk, NEW opts \in Args
    PROVE  /\ Pool(opts) \subseteq Known(opts)
           /\ \A e \in Pool(opts), f \in Failures(events, opts) :
                f \in Group(e, Failures(events, opts), opts) =>
                   /\ e.created_at <= f.created_at
                   /\ f \in Pool(opts) => e = f
           /\ opts.dedupe_by # "field" =>
                \A e \in Known(opts) : \E f \in Pool(opts) : f.customer = e.customer
<1> DEFINE list == Failures(events, opts)
<1>1. /\ list = {e \in events : opts.include \/ e.fails}
      /\ list \in SUBSET events
      /\ \A e : e \in Pool(opts) <=>
           /\ e \in list /\ truth[e.customer] # NoTruth
           /\ \A f \in Group(e, list, opts) : ~Earlier(f, e, list)
  BY DEF Pool, Joined, Deduped, Failures
<1> HIDE DEF list
<1>2. Pool(opts) \subseteq Known(opts)
  BY <1>1 DEF Known
<1>3. ASSUME NEW e \in Pool(opts), NEW f \in list, f \in Group(e, list, opts)
      PROVE  e.created_at <= f.created_at /\ (f \in Pool(opts) => e = f)
  <2>1. e \in list /\ ~Earlier(f, e, list)
    BY <1>1, <1>3
  <2>2. e.created_at \in Nat /\ f.created_at \in Nat
    BY <1>1, <2>1, DataIs DEF Event
  <2>3. e.created_at <= f.created_at
    BY <2>1, <2>2 DEF Earlier
  <2>4. ASSUME f \in Pool(opts) PROVE e = f
    <3>1. e \in Group(f, list, opts)
      BY <1>3, <2>1 DEF Group
    <3>2. ~Earlier(e, f, list)
      BY <1>1, <2>4, <3>1
    <3> QED BY <1>1, <2>1, <3>2, EarlierIsTotal
  <2> QED BY <2>3, <2>4
<1>4. ASSUME opts.dedupe_by # "field", NEW e \in Known(opts)
      PROVE  \E f \in Pool(opts) : f.customer = e.customer
  <2>1. e \in list /\ truth[e.customer] # NoTruth
    BY <1>1 DEF Known
  <2>2. Group(e, list, opts) \in SUBSET list /\ e \in Group(e, list, opts)
    BY <2>1 DEF Group
  <2>3. PICK f \in Group(e, list, opts) : \A g \in Group(e, list, opts) : ~Earlier(g, f, list)
    BY <1>1, <2>2, FirstOfSome
  <2>4. f.customer = e.customer
    <3>1. CASE opts.dedupe_by = "customer"
      BY <2>3, <3>1 DEF Group, Key
    <3>2. CASE opts.dedupe_by = "none"
      BY <2>3, <3>2 DEF Group, Key
    <3> QED BY <1>4, <3>1, <3>2 DEF Args
  <2>5. Group(f, list, opts) = Group(e, list, opts)
    BY <2>1, GroupIsShared
  <2> QED BY <1>1, <2>1, <2>2, <2>3, <2>4, <2>5
<1> QED BY <1>2, <1>3, <1>4 DEF list

\* The first k events of a class by id are k events, or the class.
LEMMA FloorIsFull ==
    ASSUME DataOk, NEW opts, NEW C \in SUBSET Pool(opts), NEW k \in Nat
    PROVE  LET F == {e \in C : Cardinality({f \in C : RowId(f, opts).n < RowId(e, opts).n}) < k}
           IN  F = C \/ Cardinality(F) >= k
<1> DEFINE Below(e) == {f \in C : RowId(f, opts).n < RowId(e, opts).n}
           F == {e \in C : Cardinality(Below(e)) < k}
<1>1. SUFFICES ASSUME F # C PROVE Cardinality(F) >= k
  OBVIOUS
<1> DEFINE ids == {RowId(e, opts).n : e \in C \ F}
<1>2. \A e \in C : RowId(e, opts).n \in Nat
  BY RowIdsDiffer DEF RowIds
<1>3. PICK m \in ids : \A j \in ids : m <= j
  <2>1. ids \subseteq Nat /\ ids # {}
    BY <1>1, <1>2
  <2> HIDE DEF ids
  <2> QED BY <2>1, LeastNumber
<1>4. PICK e \in C \ F : RowId(e, opts).n = m
  OBVIOUS
<1>5. Below(e) \subseteq F
  <2> SUFFICES ASSUME NEW f \in Below(e), f \notin F PROVE FALSE
    OBVIOUS
  <2>1. RowId(f, opts).n \in ids /\ RowId(f, opts).n < m /\ RowId(f, opts).n \in Nat /\ m \in Nat
    BY <1>2, <1>4
  <2> HIDE DEF ids
  <2> QED BY <1>3, <2>1
<1>6. IsFiniteSet(C) /\ IsFiniteSet(F) /\ IsFiniteSet(Below(e))
  <2>1. C \in SUBSET events
    BY PoolIsListed
  <2>2. IsFiniteSet(C)
    BY <2>1, DataIs, FS_Subset
  <2> QED BY <2>2, FS_Subset
<1>7. /\ Cardinality(Below(e)) \in Nat /\ Cardinality(F) \in Nat
      /\ Cardinality(Below(e)) <= Cardinality(F)
  <2> Below(e) \in SUBSET F
    BY <1>5
  <2> HIDE DEF F, Below
  <2> QED BY <1>6, FS_Subset, FS_CardinalityType
<1>8. Cardinality(Below(e)) >= k
  <2>1. ~ (Cardinality(Below(e)) < k)
    BY <1>4
  <2> HIDE DEF Below
  <2> QED BY <1>7, <2>1
<1> HIDE DEF F, Below
<1> QED BY <1>7, <1>8

\* The draw tops the floor up to n records, or to all there are.
LEMMA DrawIsLargeEnough ==
    ASSUME DataOk, NEW opts \in Args, NEW drawn \in Draws(opts)
    PROVE  /\ Floor(Pool(opts), opts) \subseteq drawn
           /\ Cardinality(drawn) >= opts.n \/ Cardinality(drawn) = Cardinality(Pool(opts))
<1> DEFINE pool == Pool(opts)
           floor == Floor(pool, opts)
           rest == pool \ floor
           need == Max({0, Min({opts.n - Cardinality(floor), Cardinality(rest)})})
<1>1. PICK more \in kSubset(need, rest) : drawn = floor \cup more
  BY DEF Draws
<1>2. more \in SUBSET rest /\ Cardinality(more) = need
  BY DEF kSubset
<1>3. floor \in SUBSET pool /\ rest \in SUBSET pool /\ floor \cap more = {} /\ floor \cup rest = pool
      /\ floor \cap rest = {}
  BY <1>2 DEF Floor
<1>4. IsFiniteSet(pool)
  BY DrawIsInPool
<1> DEFINE nf == Cardinality(floor)
           nr == Cardinality(rest)
<1>5. /\ nf \in Nat /\ nr \in Nat
      /\ Cardinality(drawn) = nf + need /\ Cardinality(pool) = nf + nr
      /\ opts.n \in Int
  <2>1. opts.n \in Int
    BY DEF Args
  <2> HIDE DEF pool, floor, rest, need
  <2>2. IsFiniteSet(floor) /\ IsFiniteSet(rest) /\ IsFiniteSet(more)
    BY <1>2, <1>3, <1>4, FS_Subset
  <2>3. Cardinality(floor) \in Nat /\ Cardinality(rest) \in Nat /\ Cardinality(more) \in Nat
    BY <2>2, FS_CardinalityType
  <2>4. Cardinality(floor \cap more) = 0 /\ Cardinality(floor \cap rest) = 0
    BY <1>3, FS_EmptySet
  <2>5. Cardinality(floor \cup more) = Cardinality(floor) + Cardinality(more) - Cardinality(floor \cap more)
    BY <2>2, FS_Union
  <2>6. Cardinality(floor \cup rest) = Cardinality(floor) + Cardinality(rest) - Cardinality(floor \cap rest)
    BY <2>2, FS_Union
  <2>7. Cardinality(drawn) = Cardinality(floor) + need
    BY <1>1, <1>2, <2>3, <2>4, <2>5
  <2>8. Cardinality(pool) = Cardinality(floor) + Cardinality(rest)
    <3>1. Cardinality(floor \cup rest) = Cardinality(floor) + Cardinality(rest)
      BY <2>3, <2>4, <2>6
    <3>2. floor \cup rest = pool
      BY <1>3
    <3> QED BY <3>1, <3>2
  <2> QED BY <2>1, <2>3, <2>7, <2>8
<1>6. floor \subseteq drawn
  BY <1>1
<1>7. need = Max({0, Min({opts.n - nf, nr})})
  OBVIOUS
<1> HIDE DEF pool, floor, rest, need, nf, nr
<1>8. need = LET m == IF opts.n - nf <= nr THEN opts.n - nf ELSE nr
             IN  IF 0 <= m THEN m ELSE 0
  <2>1. Min({opts.n - nf, nr}) = IF opts.n - nf <= nr THEN opts.n - nf ELSE nr
    BY <1>5, MinOfTwo
  <2>2. Min({opts.n - nf, nr}) \in Int
    BY <1>5, <2>1
  <2>3. need = IF 0 <= Min({opts.n - nf, nr}) THEN Min({opts.n - nf, nr}) ELSE 0
    BY <1>7, <2>2, MaxOfTwo
  <2> QED BY <2>1, <2>3
<1>9. Cardinality(drawn) >= opts.n \/ Cardinality(drawn) = Cardinality(pool)
  BY <1>5, <1>8
<1> QED BY <1>6, <1>9 DEF pool, floor

\* Every draw holds what the command line asks for, of every cause and in all,
\* as far as the corpus has it, and of each group the first failure only; a
\* negative number asks for nothing.
THEOREM SamplesAreFair == Spec => []SampleIsFair
<1>1. HarnessInv => SampleIsFair
  <2> SUFFICES ASSUME HarnessInv, pc = "blind" PROVE SampleIsFair
    BY DEF SampleIsFair
  <2> DEFINE drawn == {picked[i].event : i \in DOMAIN picked}
             failing == {e \in events : args.include \/ e.fails}
             known == {e \in failing : truth[e.customer] # NoTruth}
             pool == Pool(args)
  <2>1. /\ args \in Args /\ args.n \in Int /\ args.min_per_class \in Int /\ DataOk
        /\ args.dedupe_by \in {"none", "customer", "field"} /\ args.include \in BOOLEAN
    BY ArgsAssumption DEF HarnessInv, SampleOk, Args
  <2>2. drawn \in Draws(args) /\ drawn \subseteq pool
    <3>1. PICK draw \in Draws(args) : picked \in SetToSeqs({Drawn(e, args) : e \in draw})
      BY DEF HarnessInv, SampleOk
    <3>2. ToSet(picked) = {Drawn(e, args) : e \in draw}
      BY <2>1, <3>1, DrawIsInPool, ShuffleIsWhole
    <3>3. \A e \in draw : Drawn(e, args).event = e
      BY DEF Drawn
    <3>4. drawn = draw
      <4>1. ASSUME NEW i \in DOMAIN picked PROVE picked[i].event \in draw
        <5>1. picked[i] \in {Drawn(e, args) : e \in draw}
          BY <3>2 DEF ToSet
        <5> QED BY <3>3, <5>1
      <4>2. ASSUME NEW e \in draw PROVE e \in drawn
        <5>1. PICK i \in DOMAIN picked : picked[i] = Drawn(e, args)
          BY <3>2 DEF ToSet
        <5> QED BY <3>3, <5>1
      <4> QED BY <4>1, <4>2
    <3> QED BY <2>1, <3>1, <3>4, DrawIsInPool
  <2>3. known = Known(args) /\ failing = Failures(events, args)
    BY DEF Known, Failures
  <2>4. IsFiniteSet(pool) /\ IsFiniteSet(drawn)
    BY <2>1, <2>2, DrawIsInPool
  <2>5. ASSUME args.dedupe_by # "field", NEW cause \in Causes
        PROVE  LET members == {e.customer : e \in Class(known, cause)}
               IN  Cardinality(Class(drawn, cause))
                      >= Min({args.min_per_class, Cardinality(members)})
    <3> DEFINE members == {e.customer : e \in Class(known, cause)}
               C == Class(pool, cause)
               F == {e \in C : Cardinality({f \in C : RowId(f, args).n < RowId(e, args).n})
                                 < args.min_per_class}
               custOf == [e \in C |-> e.customer]
    <3>1. IsFiniteSet(C) /\ C \in SUBSET pool /\ Class(drawn, cause) \in SUBSET C
      BY <2>2, <2>4, FS_Subset DEF Class
    <3>2. IsFiniteSet(members) /\ Cardinality(members) <= Cardinality(C)
      <4>1. members \subseteq {custOf[e] : e \in C}
        BY <2>1, <2>3, <2>5, PoolHasEveryCustomer DEF Class
      <4> HIDE DEF members, C, custOf
      <4> QED BY <3>1, <4>1, ValuesAreFewer
    <3>3. CASE args.min_per_class < 0
      <4>1. IsFiniteSet(Class(drawn, cause))
        BY <3>1, FS_Subset
      <4> HIDE DEF members, C
      <4>2. Cardinality(Class(drawn, cause)) \in Nat /\ Cardinality(members) \in Nat
        BY <3>2, <4>1, FS_CardinalityType
      <4>3. Min({args.min_per_class, Cardinality(members)}) = args.min_per_class
        BY <2>1, <3>3, <4>2, MinOfTwo
      <4> QED BY <2>1, <3>3, <4>2, <4>3 DEF members
    <3>4. CASE args.min_per_class \in Nat
      <4>1. F \subseteq Class(drawn, cause)
        <5>1. F \subseteq Floor(pool, args)
          <6> SUFFICES ASSUME NEW e \in F PROVE e \in Floor(pool, args)
            OBVIOUS
          <6>1. e \in pool /\ Class(pool, truth[e.customer]) = C /\ ~(args.min_per_class < 0)
            BY <3>4 DEF Class
          <6>2. Cardinality({f \in C : RowId(f, args).n < RowId(e, args).n}) < args.min_per_class + 0
            BY <3>4
          <6> HIDE DEF C, F, pool
          <6> QED BY <6>1, <6>2 DEF Floor
        <5>2. Floor(pool, args) \subseteq drawn
          BY <2>1, <2>2, DrawIsLargeEnough
        <5> QED BY <5>1, <5>2 DEF Class
      <4>2. F = C \/ Cardinality(F) >= args.min_per_class
        <5> HIDE DEF C
        <5> QED BY <2>1, <3>1, <3>4, FloorIsFull
      <4> HIDE DEF members, C, F
      <4>3. IsFiniteSet(Class(drawn, cause)) /\ F \in SUBSET Class(drawn, cause)
        BY <3>1, <4>1, FS_Subset
      <4>4. /\ Cardinality(F) <= Cardinality(Class(drawn, cause))
            /\ Cardinality(F) \in Nat /\ Cardinality(Class(drawn, cause)) \in Nat
            /\ Cardinality(C) \in Nat /\ Cardinality(members) \in Nat
        BY <3>1, <3>2, <4>3, FS_Subset, FS_CardinalityType
      <4>5. Min({args.min_per_class, Cardinality(members)})
              = IF args.min_per_class <= Cardinality(members)
                THEN args.min_per_class ELSE Cardinality(members)
        BY <2>1, <4>4, MinOfTwo
      <4>6. Cardinality(Class(drawn, cause)) >= Min({args.min_per_class, Cardinality(members)})
        BY <2>1, <3>2, <4>2, <4>4, <4>5
      <4> QED BY <4>6 DEF members
    <3> QED BY <2>1, <3>3, <3>4
  <2>6. ASSUME args.dedupe_by # "field"
        PROVE  Cardinality(drawn) >= Min({args.n, Cardinality({e.customer : e \in known})})
    <3> DEFINE members == {e.customer : e \in known}
               custOf == [e \in pool |-> e.customer]
    <3>1. IsFiniteSet(members) /\ Cardinality(members) <= Cardinality(pool)
      <4>1. members \subseteq {custOf[e] : e \in pool}
        BY <2>1, <2>3, <2>6, PoolHasEveryCustomer
      <4> HIDE DEF members, pool, custOf
      <4> QED BY <2>4, <4>1, ValuesAreFewer
    <3>2. Cardinality(drawn) >= args.n \/ Cardinality(drawn) = Cardinality(pool)
      BY <2>1, <2>2, DrawIsLargeEnough
    <3> HIDE DEF members, drawn, pool
    <3>3. Cardinality(drawn) \in Nat /\ Cardinality(pool) \in Nat /\ Cardinality(members) \in Nat
      BY <2>4, <3>1, FS_CardinalityType
    <3>4. Min({args.n, Cardinality(members)})
            = IF args.n <= Cardinality(members) THEN args.n ELSE Cardinality(members)
      BY <2>1, <3>3, MinOfTwo
    <3>5. Cardinality(drawn) >= Min({args.n, Cardinality(members)})
      BY <2>1, <3>1, <3>2, <3>3, <3>4
    <3> QED BY <3>5 DEF members
  <2>7. drawn \subseteq known
    BY <2>1, <2>2, <2>3, PoolHasEveryCustomer
  <2>8. ASSUME NEW e \in drawn, NEW f \in failing,
               Key(e, args) # Absent, Key(e, args) = Key(f, args)
        PROVE  e.created_at <= f.created_at /\ (f \in drawn => e = f)
    <3>1. f \in Group(e, failing, args)
      BY <2>8 DEF Group
    <3> HIDE DEF drawn, failing, known, pool
    <3>2. e \in pool /\ f \in Failures(events, args) /\ f \in Group(e, Failures(events, args), args)
      BY <2>2, <2>3, <2>8, <3>1
    <3>3. e.created_at <= f.created_at /\ (f \in Pool(args) => e = f)
      BY <2>1, <3>2, PoolHasEveryCustomer DEF pool
    <3> QED BY <2>2, <3>3 DEF pool
  <2> HIDE DEF pool
  <2> QED BY <2>5, <2>6, <2>7, <2>8 DEF SampleIsFair
<1> QED BY <1>1, HarnessHolds, PTL
=============================================================================
