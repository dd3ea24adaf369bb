---------------------------- MODULE LabelHarness ----------------------------
(***************************************************************************)
(* tools/label_harness.py: sample draws a blind sample of the corpus and   *)
(* its answer key, label lets a person label it one keystroke a row, score *)
(* compares the labels with the key.                                       *)
(*                                                                         *)
(* One person runs one command at a time and may end any of them at any    *)
(* moment.  label replaces the file in one step (os.replace); sample opens *)
(* a file for writing, which empties it, and fills it then, the sample     *)
(* first and the key after it.  A row's note is left out: it is there      *)
(* exactly when the label is unknown.  Between two commands datagen.py may *)
(* write another corpus and truth.                                         *)
(***************************************************************************)
EXTENDS Integers, SequencesExt, FiniteSetsExt

CONSTANTS
    Datasets,    \* what data/events.json and data/ground_truth.json may hold
    Customers,
    Fields,      \* what another field of an event may hold
    Causes,      \* the root causes, a key each
    NoTruth,     \* the customer has no truth row
    Absent,      \* the event does not have the field
    SampleArgs,  \* command lines of sample, see Args
    NoLabel,     \* None, or the empty string
    NoFile,      \* the file does not exist
    Torn         \* the file holds no JSON: opened for writing, then killed

\* place: where the event stands in events.json.
Event == [place : Nat, id : Nat \cup {Absent}, customer : Customers,
          field : Fields \cup {Absent}, created_at : Nat, fails : BOOLEAN]
\* include: --include-successes; any integer will do for the other two.
Args == [n : Int, min_per_class : Int, include : BOOLEAN,
         dedupe_by : {"none", "customer", "field"}]

ASSUME DataAssumption ==
    /\ Datasets # {} /\ NoTruth \notin Causes
    /\ \A d \in Datasets :
         /\ d.events \subseteq Event /\ IsFiniteSet(d.events)
         /\ \A e, f \in d.events : e.place = f.place => e = f
         /\ d.truth \in [Customers -> Causes \cup {NoTruth}]
ASSUME ArgsAssumption == SampleArgs \subseteq Args /\ SampleArgs # {}
ASSUME LabelAssumption == "unknown" \notin Causes /\ NoLabel \notin Causes \cup {"unknown"}

VARIABLES
    events,    \* data/events.json
    truth,     \* data/ground_truth.json: the cause per customer
    blind,     \* labels/blind_sample.json: rows in file order
    manifest,  \* labels/_truth_manifest.json: id_to_true_cause
    pc,        \* where the running command is
    args,      \* sample's locals: its command line ...
    picked,    \* ... and the rows drawn, shuffled
    rows,      \* label's locals: the rows in memory ...
    cursor,    \* ... and the row shown
    said,      \* history: what the person last said of each row, ...
    givenUp,   \* ... the rows whose label was given up at the note since, ...
    source,    \* ... the data the sample and the key were drawn from, ...
    whole      \* ... and whether the last sample got both files written

data == <<events, truth>>
files == <<blind, manifest>>
history == <<said, givenUp, source, whole>>
vars == <<data, files, pc, args, picked, rows, cursor, history>>

Labels == Causes \cup {"unknown"}
RowIds == [kind : {"own", "row"}, n : Nat]   \* the event's own, or row-NNNNN
Row == [id : RowIds, label : Labels \cup {NoLabel}, payload : Event]
NoArgs == CHOOSE a \in SampleArgs : TRUE   \* what an idle sample holds
Steps == {"idle", "blind", "blind_open", "manifest", "manifest_open",
          "key", "note", "done"}
Unlabelled(row) == row.label = NoLabel
HasRows(file) == file \notin {NoFile, Torn}
Now == [events |-> events, truth |-> truth]

Init ==
    /\ \E d \in Datasets : events = d.events /\ truth = d.truth
    /\ blind = NoFile /\ manifest = NoFile
    /\ pc = "idle"
    /\ args = NoArgs /\ picked = << >>
    /\ rows = << >> /\ cursor = 1
    /\ said = << >> /\ givenUp = {}
    /\ source = [sample |-> Now, key |-> Now]
    /\ whole = FALSE

\* datagen.py writes both data files anew and numbers its events from 1 again,
\* whatever its seed.  Its own death between the two is left out.
Regenerate ==
    /\ pc = "idle"
    /\ \E d \in Datasets : events' = d.events /\ truth' = d.truth
    /\ UNCHANGED <<files, pc, args, picked, rows, cursor, history>>

----------------------------------------------------------------------------
(* sample: what may be drawn.                                              *)

\* The failure filter.
Failures(all, opts) == IF opts.include THEN all ELSE {e \in all : e.fails}

\* Mutant: an id field is one that every event has.
HasIds_Present(list) == \A e \in list : e.id # Absent

\* _detect_record_id: every event has the field, and no two the same.
HasIds(list) == \A e \in list : e.id # Absent /\ \A f \in list : f.id = e.id => f = e

\* _earliest_key: ties go to the lower id, without ids to the event read first.
Earlier(e, f, list) ==
    \/ e.created_at < f.created_at
    \/ e.created_at = f.created_at /\ IF HasIds(list) THEN e.id < f.id ELSE e.place < f.place

\* What --dedupe-by asks an event for.
Key(e, opts) ==
    CASE opts.dedupe_by = "customer" -> e.customer
      [] opts.dedupe_by = "field"    -> e.field
      [] OTHER                       -> Absent

\* An event without the key is a group of its own.
Group(e, list, opts) ==
    {f \in list : f = e \/ (Key(e, opts) # Absent /\ Key(f, opts) = Key(e, opts))}

\* dedupe_earliest: of every group the earliest event is kept.
Deduped(list, opts) ==
    {e \in list : ~\E f \in Group(e, list, opts) : Earlier(f, e, list)}

\* The list it returns: first the events without the key, then the groups in
\* the order in which they were met.
Met(e, list, opts) == Min({f.place : f \in Group(e, list, opts)})
Ahead(e, f, list, opts) ==
    LET passes(x) == Key(x, opts) = Absent
    IN  \/ passes(e) /\ ~passes(f)
        \/ passes(e) = passes(f) /\ Met(e, list, opts) < Met(f, list, opts)
Index(e, list, opts) == Cardinality({f \in Deduped(list, opts) : Ahead(f, e, list, opts)})

\* A row is known by its event's id, or as row-NNNNN after its place in the
\* list.
RowId(e, opts) ==
    LET list == Failures(events, opts)
    IN  IF HasIds(list) THEN [kind |-> "own", n |-> e.id]
        ELSE [kind |-> "row", n |-> Index(e, list, opts)]

Joined(list) == {e \in list : truth[e.customer] # NoTruth}

\* Mutant: retries are collapsed before successes are dropped.
Pool_DedupeFirst(opts) == Joined(Failures(Deduped(events, opts), opts))

Pool(opts) == Joined(Deduped(Failures(events, opts), opts))

Class(pool, cause) == {e \in pool : truth[e.customer] = cause}

\* pool[:min_per_class] of every class, by id: the first so many, and for -k
\* all but the last k.
Floor(pool, opts) ==
    {e \in pool :
        LET class == Class(pool, truth[e.customer])
            before == {f \in class : RowId(f, opts).n < RowId(e, opts).n}
        IN  Cardinality(before) < opts.min_per_class
                + (IF opts.min_per_class < 0 THEN Cardinality(class) ELSE 0)}

\* The floor, topped up at random to n rows while there are any.
Draws(opts) ==
    LET pool == Pool(opts)
        floor == Floor(pool, opts)
        rest == pool \ floor
        need == Max({0, Min({opts.n - Cardinality(floor), Cardinality(rest)})})
    IN  {floor \cup more : more \in kSubset(need, rest)}

----------------------------------------------------------------------------
(* sample: the command.                                                    *)

Drawn(e, opts) == [id |-> RowId(e, opts), cause |-> truth[e.customer], event |-> e]

\* With nothing to draw from the command stops here, the files untouched.
Draw ==
    /\ pc = "idle"
    /\ args' \in {opts \in SampleArgs : Pool(opts) # {}}
    /\ \E draw \in Draws(args') : picked' \in SetToSeqs({Drawn(e, args') : e \in draw})
    /\ pc' = "blind"
    /\ UNCHANGED <<data, files, rows, cursor, history>>

\* The old sample is gone, and the labels in it.
OpenBlind ==
    /\ pc = "blind"
    /\ pc' = "blind_open"
    /\ blind' = Torn
    /\ whole' = FALSE
    /\ UNCHANGED <<data, manifest, args, picked, rows, cursor, said, givenUp, source>>

WriteBlind ==
    /\ pc = "blind_open"
    /\ pc' = "manifest"
    /\ blind' = [i \in DOMAIN picked |->
                    [id |-> picked[i].id, label |-> NoLabel, payload |-> picked[i].event]]
    /\ said' = [i \in DOMAIN picked |-> NoLabel] /\ givenUp' = {}
    /\ source' = [source EXCEPT !.sample = Now]
    /\ UNCHANGED <<data, manifest, args, picked, rows, cursor, whole>>

OpenManifest ==
    /\ pc = "manifest"
    /\ pc' = "manifest_open"
    /\ manifest' = Torn
    /\ UNCHANGED <<data, blind, args, picked, rows, cursor, history>>

\* The cause per id; of two rows with one id the last would win.
WriteManifest ==
    /\ pc = "manifest_open"
    /\ pc' = "idle"
    /\ manifest' = [id \in {picked[i].id : i \in DOMAIN picked} |->
                       picked[Max({i \in DOMAIN picked : picked[i].id = id})].cause]
    /\ source' = [source EXCEPT !.key = Now] /\ whole' = TRUE
    /\ args' = NoArgs /\ picked' = << >>
    /\ UNCHANGED <<data, blind, rows, cursor, said, givenUp>>

----------------------------------------------------------------------------
(* label: one action per keystroke, each of which rewrites the file.       *)

sampling == <<manifest, args, picked, source, whole>>   \* nothing of label's

\* label leaves: its locals are gone.
Leave == /\ rows' = << >> /\ cursor' = 1

\* The first unlabelled row from position i on, or the end of the file.
Seek(file, i) ==
    Min({Len(file) + 1} \cup {j \in i..Len(file) : Unlabelled(file[j])})

\* A file without an unlabelled row leaves nothing to do; a torn one raises.
StartLabel ==
    /\ pc = "idle" /\ HasRows(blind)
    /\ \E i \in DOMAIN blind : Unlabelled(blind[i])
    /\ pc' = "key"
    /\ rows' = blind
    /\ cursor' = Seek(blind, 1)
    /\ UNCHANGED <<data, sampling, blind, said, givenUp>>

\* Mutant: the file is written when the person quits.
Mark_InMemory(label) ==
    LET marked == [rows EXCEPT ![cursor].label = label]
        next == Seek(marked, cursor + 1)
    IN  /\ said' = [said EXCEPT ![cursor] = label]
        /\ givenUp' = givenUp \ {cursor}
        /\ IF next > Len(rows) THEN pc' = "done" /\ blind' = marked /\ Leave
           ELSE pc' = "key" /\ rows' = marked /\ cursor' = next /\ UNCHANGED blind
        /\ UNCHANGED <<data, sampling>>

\* The row shown is labelled, the file rewritten, the next unlabelled row
\* shown; after the last one the command reports that all are labelled.
Mark(label) ==
    LET marked == [rows EXCEPT ![cursor].label = label]
        next == Seek(marked, cursor + 1)
    IN  /\ blind' = marked
        /\ said' = [said EXCEPT ![cursor] = label]
        /\ givenUp' = givenUp \ {cursor}
        /\ IF next > Len(rows) THEN pc' = "done" /\ Leave
           ELSE pc' = "key" /\ rows' = marked /\ cursor' = next
        /\ UNCHANGED <<data, sampling>>

Press(cause) == pc = "key" /\ Mark(cause)

PressUnknown ==
    /\ pc = "key"
    /\ pc' = "note"
    /\ UNCHANGED <<data, files, args, picked, rows, cursor, history>>

GiveNote == pc = "note" /\ Mark("unknown")

\* Mutant: the next row is shown although this one has no label.
EndOfNote_MovesOn ==
    /\ pc = "note"
    /\ LET marked == [rows EXCEPT ![cursor].label = NoLabel]
           next == Seek(marked, cursor + 1)
       IN  /\ blind' = marked
           /\ IF next > Len(rows) THEN pc' = "done" /\ Leave
              ELSE pc' = "key" /\ rows' = marked /\ cursor' = next
    /\ givenUp' = givenUp \cup {cursor}
    /\ UNCHANGED <<data, sampling, said>>

\* End of file where the note should be: the row is left unlabelled, whatever
\* the person had said of it before, and shown again.
EndOfNote ==
    /\ pc = "note"
    /\ pc' = "key"
    /\ rows' = [rows EXCEPT ![cursor].label = NoLabel]
    /\ blind' = rows'
    /\ givenUp' = givenUp \cup {cursor}
    /\ UNCHANGED <<data, sampling, cursor, said>>

Back ==
    /\ pc = "key" /\ cursor > 1
    /\ cursor' = cursor - 1
    /\ blind' = rows
    /\ UNCHANGED <<data, sampling, pc, rows, said, givenUp>>

Quit ==
    /\ pc = "key"
    /\ pc' = "idle"
    /\ blind' = rows
    /\ Leave
    /\ UNCHANGED <<data, sampling, said, givenUp>>

\* _getkey: the key of a cause, u, b or q, as which Ctrl-C, Ctrl-D and the end
\* of the input are read too; any other key changes nothing.
Keystroke == (\E cause \in Causes : Press(cause)) \/ PressUnknown \/ Back \/ Quit

Finish ==
    /\ pc = "done"
    /\ pc' = "idle"
    /\ UNCHANGED <<data, files, args, picked, rows, cursor, history>>

\* The command is killed, or an interrupt at the note prompt ends it.
Kill ==
    /\ pc # "idle"
    /\ pc' = "idle"
    /\ args' = NoArgs /\ picked' = << >>
    /\ Leave
    /\ UNCHANGED <<data, files, history>>

Next ==
    \/ Regenerate
    \/ Draw \/ OpenBlind \/ WriteBlind \/ OpenManifest \/ WriteManifest
    \/ StartLabel \/ Keystroke \/ GiveNote \/ EndOfNote \/ Finish
    \/ Kill

Spec == Init /\ [][Next]_vars

----------------------------------------------------------------------------
(* score: changes no file.                                                 *)

\* What row i of the sample is judged against: the key is asked by id, and
\* nothing asks whether it is the key of this sample.
Reference(i) ==
    LET id == blind[i].id
    IN  IF id \in DOMAIN manifest THEN manifest[id] ELSE NoTruth

\* Matrix A: a reference and a label for every labelled row.
MatrixA ==
    [i \in {j \in DOMAIN blind : ~Unlabelled(blind[j])} |->
        <<Reference(i), blind[i].label>>]

----------------------------------------------------------------------------
(* What the tool promises.                                                 *)

\* Every finished draw is fair: it holds failures only (unless successes were
\* asked for), of every group at most one event and none later than another of
\* its group, and, unless the groups are not customers, of every cause as many
\* customers as the floor asks for and the corpus has.  The tool filters,
\* collapses, joins and tops up in turn; the order is what this is about.
SampleIsFair ==
    pc = "blind" =>
        LET drawn == {picked[i].event : i \in DOMAIN picked}
            failing == {e \in events : args.include \/ e.fails}
            known == {e \in failing : truth[e.customer] # NoTruth}
            Grouped(e, f) == Key(e, args) # Absent /\ Key(e, args) = Key(f, args)
        IN  /\ drawn \subseteq known
            /\ \A e \in drawn, f \in failing : Grouped(e, f) =>
                 e.created_at <= f.created_at /\ (f \in drawn => e = f)
            /\ args.dedupe_by # "field" =>
                 /\ \A cause \in Causes :
                      LET members == {e.customer : e \in Class(known, cause)}
                      IN  Cardinality(Class(drawn, cause))
                            >= Min({args.min_per_class, Cardinality(members)})
                 /\ Cardinality(drawn)
                      >= Min({args.n, Cardinality({e.customer : e \in known})})

\* "An interrupted run ... loses nothing" (label_harness.py:29-30): whenever a
\* sample is there, it holds what the person last said of each of its rows.
\* It does not: the end of file at the note prompt takes back the label that
\* the row had before u was pressed (label_harness.py:762-772).
NothingSaidIsLost ==
    HasRows(blind) => \A i \in DOMAIN blind : blind[i].label = said[i]

\* What the tool does keep, through any keys, interrupts, deaths and restarts:
\* every row on disk has what was last said of it, except for the rows that
\* were given up at the note prompt since, which have no label.
LabelsAreKept ==
    HasRows(blind) =>
        \A i \in DOMAIN blind :
            blind[i].label = IF i \in givenUp THEN NoLabel ELSE said[i]

\* No row is passed over: everything above the row shown has its label on
\* disk, after any going back, relabelling and giving up, and the report that
\* all rows are labelled is true.
NoRowIsPassedOver ==
    /\ pc \in {"key", "note"} => \A i \in 1..cursor - 1 : ~Unlabelled(blind[i])
    /\ pc = "done" => \A i \in DOMAIN blind : ~Unlabelled(blind[i])

\* Once sample has written both its files, every label is judged by the cause
\* its own record had in the draw, though the rows are shuffled, the ids may be
\* made up and the data may have been generated anew since.  A key of an
\* earlier sample, left by a death between the two files, still judges no
\* label by another record's cause if both samples were drawn from the same
\* data and the row has an id of its own; otherwise it may, as score
\* does not compare the digests.
ScoreIsHonest ==
    (HasRows(blind) /\ HasRows(manifest)) =>
        \A i \in DOMAIN MatrixA :
            LET own == source.sample.truth[blind[i].payload.customer]
            IN  /\ whole => MatrixA[i][1] = own
                /\ (source.key = source.sample /\ blind[i].id.kind = "own") =>
                     MatrixA[i][1] \in {own, NoTruth}
=============================================================================
