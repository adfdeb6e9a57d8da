------------------------------ MODULE DataImport ------------------------------
(***************************************************************************)
(* The import of bookkeeping CSV files in the admin application: the       *)
(* upload page of each administrator (CsvUploadClient.tsx, CsvPreview.tsx),*)
(* the preview that classifies the lines of a file against the stored      *)
(* transactions, and the save that writes what was previewed               *)
(* (admin/src/server/contexts/data-import).                                *)
(*                                                                         *)
(* Nothing ties a save to the preview it comes from: the page sends the    *)
(* classified lines back and the server writes them as they are.  A save   *)
(* is one bulk INSERT, which fails as a whole, and then one find and one   *)
(* update per changed line, all started together; the first of these to    *)
(* fail answers the save while the others go on.                           *)
(*                                                                         *)
(* A page calls its server actions one at a time, in order, which is what  *)
(* the framework's client does.                                            *)
(***************************************************************************)
EXTENDS Integers, Sequences, SequencesExt, FiniteSets

CONSTANTS
    Clients,     \* administrators with the upload page open
    Orgs,        \* political organizations
    FirstOrg,    \* the one a page lists first
    Files,       \* files they may choose: sequences of lines
    MaxChoices,  \* bound on selections made in all pages
    MaxSaves,    \* bound on presses of the save button
    MaxDeletes,  \* bound on uses of the delete-all button
    MaxFaults    \* bound on failed calls and restarts of the server

VARIABLES
    db,     \* rows of transactions
    page,   \* the state of each upload page and of its calls
    jobs,   \* the updates under way, those of answered saves included
    drawn   \* row ids given and bounded events so far

vars == <<db, page, jobs, drawn>>

\* What a line of the file is to the converter and the validator: both
\* accounts known and of a type, known but of none, or not known.
Kinds == {"typed", "untyped", "unlisted"}
Line == [no : STRING, data : STRING, date : {"good", "bad"}, kind : Kinds,
         tagged : BOOLEAN]

ASSUME DataImportAssumption ==
    /\ FirstOrg \in Orgs
    /\ Files \subseteq Seq(Line)
    /\ MaxChoices \in Nat /\ MaxSaves \in Nat /\ MaxDeletes \in Nat /\ MaxFaults \in Nat

NoFile == <<>>
NoPreview == [org |-> "none", file |-> NoFile, status |-> <<>>]

-----------------------------------------------------------------------------
(* Preview                                                                 *)

\* PreviewTransaction.generateHash: number, date, accounts, amounts and
\* description.  A date that does not parse was replaced by 1970-01-01.
Hash(line) == [no |-> line.no, data |-> line.data, date |-> line.date,
               kind |-> line.kind]

\* @@unique([politicalOrganizationId, transactionNo])
RowsAt(rows, org, no) == {r \in rows : r.org = org /\ r.no = no}

\* A line without a number: the column is empty, short or missing in the file.
NoNumber == ""

\* findByTransactionNos, which is asked for the numbers of the file that are not
\* blank: a stored row without a number is never among the existing ones.
Existing(rows, org, no) == IF no = NoNumber THEN {} ELSE RowsAt(rows, org, no)

\* validateSingleTransaction: unknown accounts and a missing category make a
\* line invalid.  The status the converter gave it, invalid for a date that does
\* not parse or a line of no type, is not looked at.
Classify(rows, org, line) ==
    LET existing == Existing(rows, org, line.no)
    IN IF line.kind = "unlisted" \/ ~line.tagged THEN "invalid"
       ELSE IF existing = {} THEN "insert"
       ELSE IF \E r \in existing : r.hash = Hash(line) THEN "skip"
       ELSE "update"

Preview(rows, org, file) ==
    [org |-> org, file |-> file,
     status |-> [i \in DOMAIN file |-> Classify(rows, org, file[i])]]

\* The lines a save writes.
Saveable(preview, status) ==
    {i \in DOMAIN preview.status :
        preview.status[i] = status /\ preview.file[i].kind # "untyped"}

-----------------------------------------------------------------------------
(* Rows                                                                    *)

\* toCreateInput, under the organization selected when the save was sent.
Row(id, org, line) ==
    [id |-> id, org |-> org, no |-> line.no, date |-> line.date,
     kind |-> line.kind, hash |-> Hash(line)]

\* Mutant: toUpdateInput without the hash.
Overwrite_KeepsHash(r, line) ==
    [r EXCEPT !.no = line.no, !.date = line.date, !.kind = line.kind]

\* toUpdateInput
Overwrite(r, line) ==
    [r EXCEPT !.no = line.no, !.date = line.date, !.kind = line.kind,
              !.hash = Hash(line)]

\* Ids are given in the order of the file.
InsertedRows(org, file, lines, last) ==
    {Row(last + Cardinality({j \in lines : j <= i}), org, file[i]) : i \in lines}

\* The bulk INSERT violates the UNIQUE constraint, through stored rows or
\* within itself.
Conflict(org, file, lines) ==
    \/ \E i \in lines : RowsAt(db, org, file[i].no) # {}
    \/ \E i, j \in lines : i # j /\ file[i].no = file[j].no

-----------------------------------------------------------------------------
(* The upload page                                                         *)

SetPage(c, f) == page' = [page EXCEPT ![c] = f]

Calling(c) == page[c].queue # <<>>
Current(c) == Head(page[c].queue)
Uploading(c) == \E i \in DOMAIN page[c].queue : page[c].queue[i].call = "save"

Answered(f) == [f EXCEPT !.queue = Tail(@)]

\* Mutant: the effect that asks for a preview does not depend on the organization.
Choose_FileOnly(c, org, file) ==
    /\ drawn.choice < MaxChoices
    /\ drawn' = [drawn EXCEPT !.choice = @ + 1]
    /\ <<org, file>> # <<page[c].org, page[c].file>>
    /\ SetPage(c, [page[c] EXCEPT
           !.org = org, !.file = file, !.error = FALSE,
           !.queue = IF file = page[c].file THEN @
                     ELSE Append(@, [call |-> "preview", org |-> org, file |-> file])])
    /\ UNCHANGED <<db, jobs>>

\* Another organization or file is selected: CsvPreview asks for the preview of
\* the new selection.  The result shown before stays with the page until then.
Choose(c, org, file) ==
    /\ drawn.choice < MaxChoices
    /\ drawn' = [drawn EXCEPT !.choice = @ + 1]
    /\ <<org, file>> # <<page[c].org, page[c].file>>
    /\ SetPage(c, [page[c] EXCEPT
           !.org = org, !.file = file, !.error = FALSE,
           !.queue = IF file = NoFile THEN @
                     ELSE Append(@, [call |-> "preview", org |-> org, file |-> file])])
    /\ UNCHANGED <<db, jobs>>

\* The server answers a preview with what it read; an error while it reads
\* is answered with an empty preview.
PreviewAnswer(c) ==
    /\ Calling(c) /\ Current(c).call = "preview"
    /\ \/ /\ SetPage(c, [Answered(page[c]) EXCEPT
                 !.shown = Preview(db, Current(c).org, Current(c).file)])
          /\ UNCHANGED drawn
       \/ /\ drawn.fault < MaxFaults
          /\ drawn' = [drawn EXCEPT !.fault = @ + 1]
          /\ SetPage(c, [Answered(page[c]) EXCEPT
                 !.shown = [org |-> Current(c).org, file |-> Current(c).file, status |-> <<>>]])
    /\ UNCHANGED <<db, jobs>>

\* The button is enabled while a file is selected, a preview has come with
\* something to save, and no save is under way.
Submit(c) ==
    /\ drawn.save < MaxSaves
    /\ drawn' = [drawn EXCEPT !.save = @ + 1]
    /\ page[c].file # NoFile
    /\ \E i \in DOMAIN page[c].shown.status : page[c].shown.status[i] \in {"insert", "update"}
    /\ ~Uploading(c)
    /\ SetPage(c, [page[c] EXCEPT
           !.queue = Append(@, [call |-> "save", org |-> page[c].org,
                                preview |-> page[c].shown, save |-> drawn'.save])])
    /\ UNCHANGED <<db, jobs>>

-----------------------------------------------------------------------------
(* SavePreviewTransactionsUsecase                                          *)

Saving(c, pc) == Calling(c) /\ Current(c).call = "save" /\ page[c].pc = pc

\* An error is answered: the page keeps its selection and its preview.
SaveFailed(f) == [Answered(f) EXCEPT !.pc = "start"]

\* Success: the page clears file and preview, and with them CsvPreview.
SaveDone(c) ==
    SetPage(c, [Answered(page[c]) EXCEPT !.pc = "start", !.file = NoFile,
                                         !.shown = NoPreview, !.error = FALSE])

\* createMany, if there is something to insert, and the start of every update.
SaveInsert(c) ==
    /\ Saving(c, "start")
    /\ LET call == Current(c)
           inserts == Saveable(call.preview, "insert")
           updates == Saveable(call.preview, "update")
       IN \/ /\ ~Conflict(call.org, call.preview.file, inserts)
             /\ db' = db \cup InsertedRows(call.org, call.preview.file, inserts, drawn.row)
             /\ drawn' = [drawn EXCEPT !.row = @ + Cardinality(inserts)]
             /\ jobs' = jobs \cup
                  {[save |-> call.save, org |-> call.org, index |-> i, pc |-> "find",
                    line |-> call.preview.file[i], id |-> 0] : i \in updates}
             /\ SetPage(c, [page[c] EXCEPT !.pc = "update"])
          \/ /\ Conflict(call.org, call.preview.file, inserts)
             /\ SetPage(c, SaveFailed(page[c]))
             /\ UNCHANGED <<db, jobs, drawn>>

\* Job j rejects: Promise.all rejects with the first one and the save is
\* answered with an error, if it was not yet; nothing stops the other jobs.
Reject(j) ==
    /\ jobs' = jobs \ {j}
    /\ page' = [c \in Clients |->
           IF Saving(c, "update") /\ Current(c).save = j.save
           THEN SaveFailed(page[c]) ELSE page[c]]

\* Mutant: an update waits for its row instead of failing.
JobFind_Waits(j) ==
    /\ j \in jobs /\ j.pc = "find"
    /\ \E r \in RowsAt(db, j.org, j.line.no) :
          jobs' = (jobs \ {j}) \cup {[j EXCEPT !.pc = "write", !.id = r.id]}
    /\ UNCHANGED <<db, page, drawn>>

\* findUnique by organization and number.
JobFind(j) ==
    /\ j \in jobs /\ j.pc = "find"
    /\ \/ \E r \in RowsAt(db, j.org, j.line.no) :
             /\ jobs' = (jobs \ {j}) \cup {[j EXCEPT !.pc = "write", !.id = r.id]}
             /\ UNCHANGED page
       \/ RowsAt(db, j.org, j.line.no) = {} /\ Reject(j)
    /\ UNCHANGED <<db, drawn>>

\* Mutant: the update creates a row that is gone.
JobWrite_Upsert(j) ==
    /\ j \in jobs /\ j.pc = "write"
    /\ db' = {r \in db : r.id # j.id} \cup {Row(j.id, j.org, j.line)}
    /\ jobs' = jobs \ {j}
    /\ UNCHANGED <<page, drawn>>

\* update by the id found; a row that is gone rejects.
JobWrite(j) ==
    /\ j \in jobs /\ j.pc = "write"
    /\ \/ /\ \E r \in db : r.id = j.id
          /\ db' = {IF r.id = j.id THEN Overwrite(r, j.line) ELSE r : r \in db}
          /\ jobs' = jobs \ {j}
          /\ UNCHANGED page
       \/ /\ ~ \E r \in db : r.id = j.id
          /\ Reject(j)
          /\ UNCHANGED db
    /\ UNCHANGED drawn

\* A statement of an update fails: previewCsv, for one, disconnects the shared
\* database client when it ends, whoever else uses it.
JobFails(j) ==
    /\ j \in jobs
    /\ drawn.fault < MaxFaults
    /\ drawn' = [drawn EXCEPT !.fault = @ + 1]
    /\ Reject(j)
    /\ UNCHANGED db

\* Mutant: the updates are not awaited.
SaveUpdated_Unawaited(c) ==
    /\ Saving(c, "update")
    /\ SetPage(c, [page[c] EXCEPT !.pc = "refresh"])
    /\ UNCHANGED <<db, jobs, drawn>>

\* Every update is through: the refresh of the public site is next.
SaveUpdated(c) ==
    /\ Saving(c, "update")
    /\ \A j \in jobs : j.save # Current(c).save
    /\ SetPage(c, [page[c] EXCEPT !.pc = "refresh"])
    /\ UNCHANGED <<db, jobs, drawn>>

\* The call to the public site may fail without failing the save; it is left
\* out when nothing was saved.
SaveRefresh(c) ==
    /\ Saving(c, "refresh")
    /\ SaveDone(c)
    /\ UNCHANGED <<db, jobs, drawn>>

-----------------------------------------------------------------------------
(* Elsewhere                                                               *)

\* deleteAll, for one organization or for all.
DeleteAll(orgs) ==
    /\ drawn.delete < MaxDeletes
    /\ drawn' = [drawn EXCEPT !.delete = @ + 1]
    /\ db' = {r \in db : r.org \notin orgs}
    /\ UNCHANGED <<page, jobs>>

\* A call under way ends in an error at the client.
Broken(f) ==
    IF f.queue = <<>> THEN f
    ELSE IF f.queue[1].call = "save" THEN SaveFailed(f)
    ELSE [Answered(f) EXCEPT !.error = TRUE]

\* The connection of one page breaks.  A save that reached the server goes on
\* there: its rows stay and its updates run; one that did not never will.
CallLost(c) ==
    /\ Calling(c)
    /\ drawn.fault < MaxFaults
    /\ drawn' = [drawn EXCEPT !.fault = @ + 1]
    /\ SetPage(c, Broken(page[c]))
    /\ UNCHANGED <<db, jobs>>

\* The server restarts: every call under way and every update is lost, and
\* what was written stays.
Restart ==
    /\ drawn.fault < MaxFaults
    /\ drawn' = [drawn EXCEPT !.fault = @ + 1]
    /\ jobs' = {}
    /\ page' = [c \in Clients |-> Broken(page[c])]
    /\ UNCHANGED db

-----------------------------------------------------------------------------
\* Every page opens with the first organization selected and no file.
Init ==
    /\ db = {} /\ jobs = {}
    /\ page = [c \in Clients |-> [org |-> FirstOrg, file |-> NoFile, shown |-> NoPreview,
                                 error |-> FALSE, queue |-> <<>>, pc |-> "start"]]
    /\ drawn = [row |-> 0, choice |-> 0, save |-> 0, delete |-> 0, fault |-> 0]

Serve(c) == PreviewAnswer(c) \/ SaveInsert(c) \/ SaveUpdated(c) \/ SaveRefresh(c)
RunJob(j) == JobFind(j) \/ JobWrite(j)

Next ==
    \/ \E c \in Clients :
          \/ \E org \in Orgs, file \in Files \cup {NoFile} : Choose(c, org, file)
          \/ Submit(c)
          \/ Serve(c)
          \/ CallLost(c)
    \/ \E j \in jobs : RunJob(j) \/ JobFails(j)
    \/ \E orgs \in {{o} : o \in Orgs} \cup {Orgs} : DeleteAll(orgs)
    \/ Restart

Spec == Init /\ [][Next]_vars

\* The server works on every call and every promise it started.
Fairness ==
    /\ \A c \in Clients : WF_vars(Serve(c))
    /\ WF_vars(\E j \in jobs : RunJob(j))
FairSpec == Spec /\ Fairness

-----------------------------------------------------------------------------
(* The inductive invariant                                                 *)

Stored == [id : Nat, org : Orgs, no : STRING, date : {"good", "bad"}, kind : Kinds,
           hash : [no : STRING, data : STRING, date : {"good", "bad"}, kind : Kinds]]
Previews == [org : Orgs \cup {"none"}, file : Files \cup {NoFile},
             status : Seq({"invalid", "insert", "skip", "update"})]
Calls == [call : {"preview"}, org : Orgs, file : Files \cup {NoFile}] \cup
         [call : {"save"}, org : Orgs, preview : Previews, save : Nat]
Pages == [org : Orgs, file : Files \cup {NoFile}, shown : Previews, error : BOOLEAN,
          queue : Seq(Calls), pc : {"start", "update", "refresh"}]
Updates == [save : Nat, org : Orgs, index : Nat, pc : {"find", "write"}, line : Line, id : Nat]

Shapes ==
    /\ db \in SUBSET Stored /\ page \in [Clients -> Pages] /\ jobs \in SUBSET Updates
    /\ drawn \in [row : Nat, choice : Nat, save : Nat, delete : Nat, fault : Nat]

\* The rows of a table: one per id, one per organization and number.
Keyed(rows, last) ==
    /\ \A r \in rows : 1 <= r.id /\ r.id <= last /\ r.kind = "typed"
    /\ \A r, s \in rows : r.id = s.id \/ (r.org = s.org /\ r.no = s.no) => r = s

\* An update changes a row of its own organization and number, if any.
Aimed(j) ==
    /\ j.line.kind = "typed" /\ 1 <= j.save /\ j.save <= drawn.save
    /\ j.pc = "write" => /\ j.id <= drawn.row
                         /\ \A r \in db : r.id = j.id => r.org = j.org /\ r.no = j.line.no

\* Lines a preview offers to save are of a type or of none, never unknown.
Sound(preview) ==
    \A i \in DOMAIN preview.status :
        /\ i \in DOMAIN preview.file
        /\ preview.status[i] \in {"insert", "update"} => preview.file[i].kind # "unlisted"

\* A page has asked for the preview of what it has selected, or shows it.
Settling(p) ==
    p.file # NoFile /\ ~p.error =>
        LET asked == {i \in DOMAIN p.queue : p.queue[i].call = "preview"}
        IN \/ asked = {} /\ p.shown.org = p.org /\ p.shown.file = p.file
           \/ \E i \in asked : /\ p.queue[i].org = p.org /\ p.queue[i].file = p.file
                               /\ \A k \in asked : k <= i

\* A page and its calls: only the first call is under way, one save at a time.
PageOK(p) ==
    /\ Sound(p.shown) /\ Settling(p)
    /\ p.pc # "start" => p.queue # <<>> /\ p.queue[1].call = "save"
    /\ \A i \in DOMAIN p.queue : p.queue[i].call = "save" =>
          /\ Sound(p.queue[i].preview)
          /\ 1 <= p.queue[i].save /\ p.queue[i].save <= drawn.save
          /\ \A k \in DOMAIN p.queue : p.queue[k].call = "save" => k = i

SavesApart ==
    \A c, d \in Clients : \A i \in DOMAIN page[c].queue, k \in DOMAIN page[d].queue :
        (/\ page[c].queue[i].call = "save" /\ page[d].queue[k].call = "save"
         /\ page[c].queue[i].save = page[d].queue[k].save) => c = d

\* A save's line is stored, or one of its updates will store it or fail.
InHand(call, i) ==
    \/ RowsAt(db, call.org, call.preview.file[i].no) # {}
    \/ \E j \in jobs : /\ j.save = call.save /\ j.org = call.org
                       /\ j.line.no = call.preview.file[i].no

\* The updates of a save run after its start and before its refresh.
Progress(c) ==
    /\ \A i \in DOMAIN page[c].queue :
          page[c].queue[i].call = "save" /\ (i # 1 \/ page[c].pc \in {"start", "refresh"}) =>
              \A j \in jobs : j.save # page[c].queue[i].save
    /\ page[c].pc # "start" /\ drawn.delete = 0 =>
          \A i \in Saveable(Current(c).preview, "insert")
                    \cup Saveable(Current(c).preview, "update") : InHand(Current(c), i)

ImportInv ==
    /\ Shapes /\ Keyed(db, drawn.row) /\ SavesApart
    /\ \A j \in jobs : Aimed(j)
    /\ \A c \in Clients : PageOK(page[c]) /\ Progress(c)

-----------------------------------------------------------------------------
(* Properties                                                              *)

\* Every stored row belongs to an organization, has a type, and its number is
\* unique there: the filter of SavePreviewTransactionsUsecase and the UNIQUE key
\* hold whatever the saves overlap with.
TypeOK ==
    /\ \A r \in db : r.id \in 1 .. drawn.row /\ r.org \in Orgs /\ r.kind = "typed"
    /\ \A r, s \in db : r # s => r.id # s.id /\ <<r.org, r.no>> # <<s.org, s.no>>
    /\ \A c \in Clients :
          /\ page[c].org \in Orgs
          /\ page[c].file \in Files \cup {NoFile}
          /\ page[c].pc \in {"start", "update", "refresh"}
          /\ page[c].pc # "start" => Calling(c) /\ Current(c).call = "save"
          /\ \A i \in DOMAIN page[c].queue : page[c].queue[i].call \in {"preview", "save"}
    /\ \A j \in jobs : j.save \in 1 .. drawn.save /\ j.pc \in {"find", "write"}

\* Once no preview is under way and none failed, what an upload page shows was
\* computed from the file and the organization it has selected, so that a
\* save writes what the administrator sees (CsvPreview.tsx, the effect on file
\* and organization), however selections, answers and saves overlapped.
SettledPreviewIsCurrent ==
    \A c \in Clients :
        (/\ \A i \in DOMAIN page[c].queue : page[c].queue[i].call # "preview"
         /\ ~page[c].error
         /\ page[c].file # NoFile)
        => page[c].shown.org = page[c].org /\ page[c].shown.file = page[c].file

\* The rows after a save of the preview of a file under an organization that
\* nothing disturbs and the UNIQUE key does not refuse.
AfterSave(org, file) ==
    LET preview == Preview(db, org, file)
        updates == Saveable(preview, "update")
        changed(r) == {i \in updates : r.org = org /\ r.no = file[i].no}
    IN {IF changed(r) = {} THEN r ELSE Overwrite(r, file[CHOOSE i \in changed(r) : TRUE])
           : r \in db}
       \cup InsertedRows(org, file, Saveable(preview, "insert"), drawn.row)

Lines == UNION {Range(file) : file \in Files}
Excerpts == {<<line>> : line \in Lines}
            \cup {<<line, last>> : line \in Lines, last \in {l \in Lines : l.no = NoNumber}}

\* Importing a file twice is idempotent but for lines without a number: from every
\* state of the database, the preview of a file (one of those given, or any line of
\* them, alone or before one without a number) whose numbers differ has, after it
\* was saved, nothing left to insert or update but lines without a type, which no
\* save stores, and lines without a number, which no preview finds again.  Its save
\* is refused only when such a line is stored already; then the whole file is.
ReimportHasNothingLeft ==
    \A org \in Orgs, file \in Files \cup Excerpts :
        (\A i, j \in DOMAIN file : i # j => file[i].no # file[j].no)
        => IF Conflict(org, file, Saveable(Preview(db, org, file), "insert"))
           THEN /\ RowsAt(db, org, NoNumber) # {}
                /\ \E i \in DOMAIN file : file[i].no = NoNumber
           ELSE LET rows == AfterSave(org, file)
                IN  \A i \in DOMAIN file :
                       Classify(rows, org, file[i]) \in {"insert", "update"}
                       => file[i].kind = "untyped" \/ file[i].no = NoNumber

\* A save that reports success wrote all it was given: its updates have ended and,
\* if nothing was deleted, every line it had to save is stored under the
\* organization of the call (SavePreviewTransactionsUsecase awaits both parts).
SuccessMeansSaved ==
    \A c \in Clients : Saving(c, "refresh") =>
        LET call == Current(c)
            lines == Saveable(call.preview, "insert") \cup Saveable(call.preview, "update")
        IN /\ \A j \in jobs : j.save # call.save
           /\ drawn.delete = 0 =>
                 \A i \in lines : RowsAt(db, call.org, call.preview.file[i].no) # {}

\* A transaction that delete-all removed does not come back through an update
\* that had found it before: only a new row can have its number again.
DeletedRowsStayDeleted ==
    [][\A s \in db' : s.id <= drawn.row => \E r \in db : r.id = s.id /\ r.org = s.org]_vars

\* Every press of the save button is answered: the call waits for no update that
\* cannot end, whether rows vanish under it or another save fails.
SaveEnds == \A c \in Clients : Uploading(c) ~> ~Uploading(c)

\* What the import design says of a line the converter marks invalid, as it does
\* one whose date does not parse: it is never stored.
InvalidNeverStored == \A r \in db : r.date = "good"
=============================================================================
