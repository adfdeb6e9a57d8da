----------------------------- MODULE MCDataImport -----------------------------
EXTENDS DataImport

\* A file with a line of no type and one of an unknown account, and a file that
\* corrects its first line, twice, and adds a line without a number.
MCFiles ==
    {<<[no |-> "1", data |-> "a", date |-> "good", kind |-> "typed", tagged |-> TRUE],
       [no |-> "2", data |-> "a", date |-> "good", kind |-> "untyped", tagged |-> TRUE],
       [no |-> "3", data |-> "a", date |-> "good", kind |-> "unlisted", tagged |-> TRUE]>>,
     <<[no |-> "1", data |-> "b", date |-> "good", kind |-> "typed", tagged |-> TRUE],
       [no |-> "1", data |-> "c", date |-> "good", kind |-> "typed", tagged |-> TRUE],
       [no |-> NoNumber, data |-> "a", date |-> "good", kind |-> "typed", tagged |-> TRUE]>>}

\* A line whose date does not parse, and one without a category.
MCBadDates ==
    {<<[no |-> "1", data |-> "a", date |-> "bad", kind |-> "typed", tagged |-> TRUE],
       [no |-> "2", data |-> "a", date |-> "good", kind |-> "typed", tagged |-> FALSE]>>}
=============================================================================
