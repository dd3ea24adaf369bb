--------------------------- MODULE MCLabelHarness ---------------------------
\* LabelHarness over two runs of datagen.  In the first, a succeeds before it
\* fails twice, b and c fail once with another cause, d has no truth row; a
\* field is shared by failures of a and b, and with the success c's id is there
\* twice.  In the second, b fails twice in the same moment, its cause is another
\* and an id that was c's is its own, and the success has none.
EXTENDS LabelHarness

CONSTANTS a, b, c, d, o

Record(place, id, customer, field, at, fails) ==
    [place |-> place, id |-> id, customer |-> customer, field |-> field,
     created_at |-> at, fails |-> fails]
First ==
    [events |-> {Record(1, 5, a, Absent, 10, FALSE), Record(2, 2, a, o, 30, TRUE),
                 Record(3, 7, b, o, 15, TRUE), Record(4, 4, a, Absent, 20, TRUE),
                 Record(5, 5, c, Absent, 15, TRUE), Record(6, 6, d, Absent, 5, TRUE)},
     truth |-> [u \in Customers |->
                  CASE u = d -> NoTruth [] u = a -> "invalid_card"
                    [] OTHER -> "bank_downtime"]]
Second ==
    [events |-> {Record(1, 5, b, Absent, 8, TRUE), Record(2, 2, b, Absent, 8, TRUE),
                 Record(3, 7, c, Absent, 9, TRUE), Record(4, Absent, a, Absent, 7, FALSE)},
     truth |-> [u \in Customers |->
                  CASE u = d -> NoTruth [] u = b -> "invalid_card"
                    [] OTHER -> "bank_downtime"]]
MCDatasets == {First, Second}

Command(n, floor, include, by) ==
    [n |-> n, min_per_class |-> floor, include |-> include, dedupe_by |-> by]
MCSampleArgs ==
    {Command(-1, 1, FALSE, "customer"), Command(2, -1, TRUE, "customer"),
     Command(1, 0, TRUE, "none"), Command(3, 1, FALSE, "field")}
============================================================================
