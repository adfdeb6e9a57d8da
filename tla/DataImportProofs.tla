--------------------------- MODULE DataImportProofs ---------------------------
(***************************************************************************)
(* The import of bookkeeping files (DataImport), for any administrators,   *)
(* organizations and files.                                                *)
(*                                                                         *)
(* A page changes in one of a few ways: a call is appended, its first call *)
(* is answered or broken off, or its first call goes on.  Each keeps what  *)
(* the page shows (Settling).  What a save has in hand (Progress) survives *)
(* the steps of others because saves are numbered apart, an update has its *)
(* own row in sight (Aimed), and only a delete-all takes rows away.        *)
(***************************************************************************)
EXTENDS DataImport, FiniteSetTheorems, TLAPS

-----------------------------------------------------------------------------
(* Queues                                                                  *)

\* The queue after its head was taken.
LEMMA QueueTail ==
    ASSUME NEW T, NEW q \in Seq(T), q # <<>>
    PROVE  /\ Tail(q) \in Seq(T) /\ Head(q) = q[1] /\ q[1] \in T /\ 1 \in DOMAIN q
           /\ \A i \in DOMAIN Tail(q) : /\ i \in Nat /\ i + 1 \in DOMAIN q /\ i + 1 # 1
                                        /\ Tail(q)[i] = q[i + 1]
           /\ \A i \in DOMAIN q : i # 1 => i - 1 \in DOMAIN Tail(q)
           /\ \A i \in DOMAIN q : i \in Nat /\ q[i] \in T /\ i >= 1
  <1>1. Len(q) \in Nat /\ Len(q) # 0 /\ DOMAIN q = 1..Len(q)
    OBVIOUS
  <1>2. Tail(q) \in Seq(T) /\ Len(Tail(q)) = Len(q) - 1 /\ DOMAIN Tail(q) = 1..Len(q) - 1
    BY <1>1
  <1>3. \A i \in 1..Len(q) - 1 : Tail(q)[i] = q[i + 1]
    BY <1>1
  <1>4. Head(q) = q[1]
    OBVIOUS
  <1>5. \A i \in 1..Len(q) : q[i] \in T
    OBVIOUS
  <1> QED BY <1>1, <1>2, <1>3, <1>4, <1>5

\* The queue after a call was appended.
LEMMA QueueAppend ==
    ASSUME NEW T, NEW q \in Seq(T), NEW x \in T
    PROVE  /\ Append(q, x) \in Seq(T) /\ Append(q, x) # <<>>
           /\ DOMAIN Append(q, x) = DOMAIN q \cup {Len(q) + 1}
           /\ Append(q, x)[Len(q) + 1] = x
           /\ \A i \in DOMAIN q : /\ i \in Nat /\ i <= Len(q) /\ i # Len(q) + 1
                                  /\ Append(q, x)[i] = q[i]
           /\ Len(q) \in Nat /\ (q # <<>> => 1 \in DOMAIN q)
  <1>1. Len(q) \in Nat /\ DOMAIN q = 1..Len(q)
    OBVIOUS
  <1>2. Append(q, x) \in Seq(T) /\ Len(Append(q, x)) = Len(q) + 1
        /\ DOMAIN Append(q, x) = 1..Len(q) + 1
    BY <1>1
  <1>3. Append(q, x)[Len(q) + 1] = x /\ \A i \in 1..Len(q) : Append(q, x)[i] = q[i]
    BY <1>1
  <1>4. q # <<>> => Len(q) # 0
    OBVIOUS
  <1> QED BY <1>1, <1>2, <1>3, <1>4

-----------------------------------------------------------------------------
(* One page                                                                *)

\* The fields of a page.
LEMMA PageTyped ==
    ASSUME NEW p \in Pages
    PROVE  /\ p.org \in Orgs /\ p.file \in Files \cup {NoFile} /\ p.shown \in Previews
           /\ p.error \in BOOLEAN /\ p.queue \in Seq(Calls)
           /\ p.pc \in {"start", "update", "refresh"}
  BY DEF Pages

\* The fields of a call.
LEMMA CallTyped ==
    ASSUME NEW x \in Calls
    PROVE  /\ x.call \in {"preview", "save"} /\ x.org \in Orgs
           /\ x.call = "preview" => x.file \in Files \cup {NoFile}
           /\ x.call = "save" => x.preview \in Previews /\ x.save \in Nat
  BY DEF Calls

\* A file is a sequence of lines.
LEMMA FileTyped ==
    ASSUME NEW f \in Files \cup {NoFile}
    PROVE  f \in Seq(Line) /\ DOMAIN f = 1..Len(f) /\ Len(f) \in Nat
           /\ \A i \in DOMAIN f : f[i] \in Line /\ i \in Nat
  <1>1. f \in Seq(Line)
    <2>1. CASE f \in Files
      BY <2>1, DataImportAssumption
    <2>2. CASE f = NoFile
      BY <2>2 DEF NoFile
    <2> QED BY <2>1, <2>2
  <1> QED BY <1>1

\* A page that does not change keeps its part of the invariant while saves are
\* drawn.
LEMMA PageStays ==
    ASSUME NEW p \in Pages, PageOK(p), drawn.save \in Nat, drawn'.save \in Nat,
           drawn.save <= drawn'.save
    PROVE  PageOK(p)'
  <1>1. \A i \in DOMAIN p.queue : p.queue[i].call = "save" => p.queue[i].save \in Nat
    <2>1. \A i \in DOMAIN p.queue : p.queue[i] \in Calls
      BY PageTyped
    <2> QED BY <2>1, CallTyped
  <1>2. \A i \in DOMAIN p.queue : p.queue[i].call = "save" =>
           1 <= p.queue[i].save /\ p.queue[i].save <= drawn'.save
    BY <1>1 DEF PageOK
  <1> QED BY <1>2 DEF PageOK, Sound, Settling

\* The first call is answered or broken off.
LEMMA PageAnswered ==
    ASSUME NEW p \in Pages, PageOK(p), p.queue # <<>>, drawn'.save = drawn.save,
           NEW f \in Pages, f.queue = Tail(p.queue), f.pc = "start",
           Sound(f.shown), Settling(f)
    PROVE  PageOK(f)'
  <1>1. p.queue \in Seq(Calls)
    BY PageTyped
  <1>2. \A i \in DOMAIN f.queue : i + 1 \in DOMAIN p.queue /\ f.queue[i] = p.queue[i + 1]
                                  /\ i \in Nat
    BY <1>1, QueueTail
  <1>3. \A i \in DOMAIN f.queue : f.queue[i].call = "save" =>
          /\ Sound(f.queue[i].preview)
          /\ 1 <= f.queue[i].save /\ f.queue[i].save <= drawn'.save
    BY <1>2 DEF PageOK
  <1>4. \A i, k \in DOMAIN f.queue :
           f.queue[i].call = "save" /\ f.queue[k].call = "save" => k = i
    <2> SUFFICES ASSUME NEW i \in DOMAIN f.queue, NEW k \in DOMAIN f.queue,
                        f.queue[i].call = "save", f.queue[k].call = "save"
                 PROVE  k = i
      OBVIOUS
    <2>1. k + 1 = i + 1
      BY <1>2 DEF PageOK
    <2> QED BY <1>2, <2>1
  <1>5. Sound(f.shown)' /\ Settling(f)' /\ \A q : Sound(q) => Sound(q)'
    BY DEF Sound, Settling
  <1> QED BY <1>3, <1>4, <1>5 DEF PageOK

\* A page settles as before when its first call, a preview, is answered.
LEMMA SettlesPreview ==
    ASSUME NEW p \in Pages, Settling(p), p.queue # <<>>, p.queue[1].call = "preview",
           NEW f \in Pages, f.queue = Tail(p.queue), f.org = p.org, f.file = p.file,
           f.error = p.error,
           f.shown.org = p.queue[1].org, f.shown.file = p.queue[1].file
    PROVE  Settling(f)
  <1> SUFFICES ASSUME f.file # NoFile, ~f.error
               PROVE  LET asked == {i \in DOMAIN f.queue : f.queue[i].call = "preview"}
                      IN \/ asked = {} /\ f.shown.org = f.org /\ f.shown.file = f.file
                         \/ \E i \in asked : /\ f.queue[i].org = f.org /\ f.queue[i].file = f.file
                                             /\ \A k \in asked : k <= i
    BY DEF Settling
  <1>1. p.queue \in Seq(Calls)
    BY PageTyped
  <1>2. PICK i \in DOMAIN p.queue :
           /\ p.queue[i].call = "preview" /\ p.queue[i].org = p.org /\ p.queue[i].file = p.file
           /\ \A k \in DOMAIN p.queue : p.queue[k].call = "preview" => k <= i
    <2>1. 1 \in DOMAIN p.queue
      BY <1>1, QueueTail
    <2> QED BY <2>1 DEF Settling
  <1>3. \A k \in DOMAIN f.queue : k \in Nat /\ k + 1 \in DOMAIN p.queue /\ f.queue[k] = p.queue[k + 1]
    BY <1>1, QueueTail
  <1>4. i \in Nat /\ i >= 1 /\ (i # 1 => i - 1 \in DOMAIN f.queue)
    BY <1>1, QueueTail
  <1>5. CASE i = 1
    <2>1. \A k \in DOMAIN f.queue : k \in Nat /\ k + 1 > 1 /\ k >= 1
      BY <1>3, <1>1, QueueTail
    <2>2. \A k \in DOMAIN f.queue : f.queue[k].call # "preview"
      BY <1>2, <1>3, <1>5, <2>1
    <2> QED BY <1>2, <1>5, <2>2
  <1>6. CASE i # 1
    <2>1. i - 1 \in DOMAIN f.queue /\ f.queue[i - 1] = p.queue[i]
      BY <1>3, <1>4, <1>6
    <2>2. \A k \in DOMAIN f.queue : f.queue[k].call = "preview" => k <= i - 1
      BY <1>2, <1>3, <1>4
    <2> QED BY <1>2, <2>1, <2>2
  <1> QED BY <1>5, <1>6

\* A page settles as before when its first call, a save, is answered.
LEMMA SettlesSave ==
    ASSUME NEW p \in Pages, Settling(p), p.queue # <<>>, p.queue[1].call = "save",
           NEW f \in Pages, f.queue = Tail(p.queue), f.org = p.org, f.file = p.file,
           f.error = p.error, f.shown = p.shown
    PROVE  Settling(f)
  <1> SUFFICES ASSUME f.file # NoFile, ~f.error
               PROVE  LET asked == {i \in DOMAIN f.queue : f.queue[i].call = "preview"}
                      IN \/ asked = {} /\ f.shown.org = f.org /\ f.shown.file = f.file
                         \/ \E i \in asked : /\ f.queue[i].org = f.org /\ f.queue[i].file = f.file
                                             /\ \A k \in asked : k <= i
    BY DEF Settling
  <1>1. p.queue \in Seq(Calls)
    BY PageTyped
  <1>2. \A k \in DOMAIN f.queue : k \in Nat /\ k + 1 \in DOMAIN p.queue /\ f.queue[k] = p.queue[k + 1]
    BY <1>1, QueueTail
  <1>3. CASE \A i \in DOMAIN p.queue : p.queue[i].call # "preview"
    <2>1. \A k \in DOMAIN f.queue : f.queue[k].call # "preview"
      BY <1>2, <1>3
    <2>2. p.shown.org = p.org /\ p.shown.file = p.file
      BY <1>3 DEF Settling
    <2> QED BY <2>1, <2>2
  <1>4. CASE \E i \in DOMAIN p.queue : p.queue[i].call = "preview"
    <2>1. PICK i \in DOMAIN p.queue :
             /\ p.queue[i].call = "preview" /\ p.queue[i].org = p.org /\ p.queue[i].file = p.file
             /\ \A k \in DOMAIN p.queue : p.queue[k].call = "preview" => k <= i
      BY <1>4 DEF Settling
    <2>2. i \in Nat /\ i # 1 /\ i - 1 \in DOMAIN f.queue
      BY <1>1, <2>1, QueueTail
    <2>3. f.queue[i - 1] = p.queue[i]
      BY <1>2, <2>2
    <2>4. \A k \in DOMAIN f.queue : f.queue[k].call = "preview" => k <= i - 1
      BY <1>2, <2>1, <2>2
    <2> QED BY <2>1, <2>2, <2>3, <2>4
  <1> QED BY <1>3, <1>4

\* A call is appended: a preview of what is selected now, or a save.
LEMMA PageAsks ==
    ASSUME NEW p \in Pages, PageOK(p), drawn'.save = drawn.save,
           NEW x \in Calls, x.call = "preview",
           NEW f \in Pages, f.queue = Append(p.queue, x), f.shown = p.shown, f.pc = p.pc,
           x.org = f.org, x.file = f.file
    PROVE  PageOK(f)'
  <1>1. PICK n : n = Len(p.queue) + 1
    OBVIOUS
  <1>2. /\ DOMAIN f.queue = DOMAIN p.queue \cup {n} /\ f.queue[n] = x /\ f.queue # <<>>
        /\ \A i \in DOMAIN p.queue : i \in Nat /\ i <= n /\ i # n /\ f.queue[i] = p.queue[i]
        /\ p.queue # <<>> => 1 \in DOMAIN p.queue
        /\ n \in Nat
    BY <1>1, PageTyped, QueueAppend
  <1>3. \A i \in DOMAIN f.queue : f.queue[i].call = "save" =>
           i \in DOMAIN p.queue /\ f.queue[i] = p.queue[i]
    BY <1>2
  <1>4. Settling(f)'
    BY <1>2 DEF Settling
  <1>5. f.pc # "start" => f.queue # <<>> /\ f.queue[1].call = "save"
    BY <1>2 DEF PageOK
  <1>6. \A q : Sound(q) => Sound(q)'
    BY DEF Sound
  <1>7. \A i \in DOMAIN f.queue : f.queue[i].call = "save" =>
          /\ Sound(f.queue[i].preview)'
          /\ 1 <= f.queue[i].save /\ f.queue[i].save <= drawn'.save
          /\ \A k \in DOMAIN f.queue : f.queue[k].call = "save" => k = i
    BY <1>3, <1>6 DEF PageOK
  <1> QED BY <1>4, <1>5, <1>6, <1>7 DEF PageOK

\* A page keeps its part of the invariant when it appends a save of what it
\* shows.
LEMMA PageSubmits ==
    ASSUME NEW p \in Pages, PageOK(p), drawn.save \in Nat, drawn'.save = drawn.save + 1,
           \A i \in DOMAIN p.queue : p.queue[i].call # "save",
           NEW x \in Calls, x.call = "save", x.preview = p.shown, x.save = drawn'.save,
           NEW f \in Pages, f.queue = Append(p.queue, x), f.shown = p.shown, f.pc = p.pc,
           f.org = p.org, f.file = p.file, f.error = p.error
    PROVE  PageOK(f)'
  <1>1. PICK n : n = Len(p.queue) + 1
    OBVIOUS
  <1>2. /\ DOMAIN f.queue = DOMAIN p.queue \cup {n} /\ f.queue[n] = x /\ f.queue # <<>>
        /\ \A i \in DOMAIN p.queue : i \in Nat /\ i <= n /\ i # n /\ f.queue[i] = p.queue[i]
        /\ p.queue # <<>> => 1 \in DOMAIN p.queue
        /\ n \in Nat
    BY <1>1, PageTyped, QueueAppend
  <1>3. \A i \in DOMAIN f.queue : f.queue[i].call = "save" => i = n
    BY <1>2
  <1>4. \A i \in DOMAIN f.queue : f.queue[i].call = "preview" =>
           i \in DOMAIN p.queue /\ f.queue[i] = p.queue[i]
    BY <1>2
  <1>5. \A i \in DOMAIN p.queue : i \in DOMAIN f.queue /\ f.queue[i] = p.queue[i]
    BY <1>2
  <1>6. Settling(f)'
    BY <1>4, <1>5 DEF Settling, PageOK
  <1>7. p.pc = "start"
    BY <1>2 DEF PageOK
  <1>8. \A q : Sound(q) => Sound(q)'
    BY DEF Sound
  <1>9. \A i \in DOMAIN f.queue : f.queue[i].call = "save" =>
          /\ Sound(f.queue[i].preview)'
          /\ 1 <= f.queue[i].save /\ f.queue[i].save <= drawn'.save
          /\ \A k \in DOMAIN f.queue : f.queue[k].call = "save" => k = i
    BY <1>2, <1>3, <1>8 DEF PageOK
  <1> QED BY <1>6, <1>7, <1>8, <1>9 DEF PageOK

\* The save at the head goes on.
LEMMA PageGoesOn ==
    ASSUME NEW p \in Pages, PageOK(p), p.queue # <<>>, p.queue[1].call = "save",
           drawn'.save = drawn.save,
           NEW f \in Pages, f.queue = p.queue, f.shown = p.shown,
           f.org = p.org, f.file = p.file, f.error = p.error
    PROVE  PageOK(f)'
  BY DEF PageOK, Sound, Settling

\* The selection changes to no file.
LEMMA PageEmptied ==
    ASSUME NEW p \in Pages, PageOK(p), drawn'.save = drawn.save,
           NEW f \in Pages, f.queue = p.queue, f.shown = p.shown, f.pc = p.pc, f.file = NoFile
    PROVE  PageOK(f)'
  BY DEF PageOK, Sound, Settling

\* What the classification offers to save is known.
LEMMA PreviewIsSound ==
    ASSUME NEW rows, NEW org, NEW file \in Files \cup {NoFile}
    PROVE  /\ Sound(Preview(rows, org, file))
           /\ org \in Orgs => Preview(rows, org, file) \in Previews
           /\ Preview(rows, org, file).org = org /\ Preview(rows, org, file).file = file
  <1>1. PICK status : status = [i \in DOMAIN file |-> Classify(rows, org, file[i])]
    OBVIOUS
  <1>2. PICK p : p = Preview(rows, org, file)
    OBVIOUS
  <1>3. p.org = org /\ p.file = file /\ p.status = status
        /\ p = [org |-> org, file |-> file, status |-> status]
    BY <1>1, <1>2 DEF Preview
  <1>4. /\ DOMAIN status = DOMAIN file
        /\ \A i \in DOMAIN status : status[i] = Classify(rows, org, file[i])
    BY <1>1
  <1>5. \A i \in DOMAIN status : status[i] \in {"insert", "update"} => file[i].kind # "unlisted"
    BY <1>4 DEF Classify
  <1>6. Sound(p)
    BY <1>3, <1>4, <1>5 DEF Sound
  <1>7. status \in Seq({"invalid", "insert", "skip", "update"})
    <2>1. Len(file) \in Nat /\ DOMAIN file = 1..Len(file)
      BY FileTyped
    <2>2. \A i \in DOMAIN file : Classify(rows, org, file[i]) \in {"invalid", "insert", "skip", "update"}
      BY DEF Classify
    <2>3. status \in [1..Len(file) -> {"invalid", "insert", "skip", "update"}]
      BY <1>1, <2>1, <2>2
    <2> QED BY <2>1, <2>3
  <1>8. org \in Orgs => p \in Previews
    BY <1>3, <1>7 DEF Previews
  <1> QED BY <1>2, <1>3, <1>6, <1>8

-----------------------------------------------------------------------------
(* The saves and their updates                                             *)

\* What the invariant says of pages, updates and tables.
LEMMA ImportFacts ==
    ASSUME ImportInv
    PROVE  /\ drawn \in [row : Nat, choice : Nat, save : Nat, delete : Nat, fault : Nat]
           /\ drawn.row \in Nat /\ drawn.save \in Nat /\ drawn.delete \in Nat
           /\ \A c \in Clients : /\ page[c] \in Pages /\ PageOK(page[c]) /\ Progress(c)
                                 /\ page[c].queue \in Seq(Calls)
           /\ \A j \in jobs : j \in Updates /\ Aimed(j)
           /\ db \in SUBSET Stored /\ Keyed(db, drawn.row) /\ SavesApart
  BY PageTyped DEF ImportInv, Shapes

\* A page of the next state from its value.
LEMMA PageOKNext ==
    ASSUME NEW c, NEW f, f = page'[c], PageOK(f)'
    PROVE  PageOK(page[c])'
  BY DEF PageOK, Sound, Settling

\* The invariant of the next state from its parts.
LEMMA ImportInvNext ==
    ASSUME Shapes', Keyed(db, drawn.row)', SavesApart', \A j \in jobs' : Aimed(j)',
           \A c \in Clients : PageOK(page[c])' /\ Progress(c)'
    PROVE  ImportInv'
  BY DEF ImportInv

\* Saves are numbered apart as long as a new one has a new number.
LEMMA ApartStays ==
    ASSUME ImportInv, NEW b \in Clients,
           \A c \in Clients : \A i \in DOMAIN page'[c].queue : page'[c].queue[i].call = "save" =>
              \/ \E k \in DOMAIN page[c].queue : page[c].queue[k] = page'[c].queue[i]
              \/ c = b /\ page'[c].queue[i].save > drawn.save
    PROVE  SavesApart'
  <1> SUFFICES ASSUME NEW c \in Clients, NEW d \in Clients,
                      NEW i \in DOMAIN page'[c].queue, NEW k \in DOMAIN page'[d].queue,
                      page'[c].queue[i].call = "save", page'[d].queue[k].call = "save",
                      page'[c].queue[i].save = page'[d].queue[k].save
               PROVE  c = d
    BY DEF SavesApart
  <1>1. \A e \in Clients : \A h \in DOMAIN page[e].queue : page[e].queue[h].call = "save" =>
           page[e].queue[h].save \in Nat /\ page[e].queue[h].save <= drawn.save
    <2> SUFFICES ASSUME NEW e \in Clients, NEW h \in DOMAIN page[e].queue,
                        page[e].queue[h].call = "save"
                 PROVE  page[e].queue[h].save \in Nat /\ page[e].queue[h].save <= drawn.save
      OBVIOUS
    <2>1. page[e].queue[h] \in Calls
      BY ImportFacts
    <2> QED BY <2>1, ImportFacts, CallTyped DEF PageOK
  <1>2. drawn.save \in Nat
    BY ImportFacts
  <1>3. CASE /\ \E h \in DOMAIN page[c].queue : page[c].queue[h] = page'[c].queue[i]
             /\ \E h \in DOMAIN page[d].queue : page[d].queue[h] = page'[d].queue[k]
    <2>1. PICK h \in DOMAIN page[c].queue : page[c].queue[h] = page'[c].queue[i]
      BY <1>3
    <2>2. PICK g \in DOMAIN page[d].queue : page[d].queue[g] = page'[d].queue[k]
      BY <1>3
    <2>3. /\ page[c].queue[h].call = "save" /\ page[d].queue[g].call = "save"
          /\ page[c].queue[h].save = page[d].queue[g].save
      BY <2>1, <2>2
    <2>4. SavesApart
      BY ImportFacts
    <2> QED BY <2>3, <2>4 DEF SavesApart
  <1>4. CASE /\ ~ \E h \in DOMAIN page[c].queue : page[c].queue[h] = page'[c].queue[i]
             /\ \E h \in DOMAIN page[d].queue : page[d].queue[h] = page'[d].queue[k]
    BY <1>1, <1>2, <1>4
  <1>5. CASE /\ \E h \in DOMAIN page[c].queue : page[c].queue[h] = page'[c].queue[i]
             /\ ~ \E h \in DOMAIN page[d].queue : page[d].queue[h] = page'[d].queue[k]
    BY <1>1, <1>2, <1>5
  <1>6. CASE /\ ~ \E h \in DOMAIN page[c].queue : page[c].queue[h] = page'[c].queue[i]
             /\ ~ \E h \in DOMAIN page[d].queue : page[d].queue[h] = page'[d].queue[k]
    BY <1>6
  <1> QED BY <1>3, <1>4, <1>5, <1>6

\* Only a delete-all takes the last row of a number away.
RowsStay == \A org, no : RowsAt(db, org, no) # {} => RowsAt(db', org, no) # {}
DeletesCount == drawn'.delete = 0 => drawn.delete = 0 /\ RowsStay

\* No update begins that is not of a new save, and none ends without its row,
\* as the saves of page c see it.
UpdatesBeside(c) ==
    /\ \A j \in jobs' :
          \/ \E h \in jobs : h.save = j.save
          \/ \A i \in DOMAIN page[c].queue :
                page[c].queue[i].call = "save" => j.save # page[c].queue[i].save
    /\ page[c].pc = "update" =>
          \A j \in jobs : j.save = Current(c).save =>
             \/ RowsAt(db', j.org, j.line.no) # {}
             \/ \E h \in jobs' : h.save = j.save /\ h.org = j.org /\ h.line.no = j.line.no

\* A save keeps what it has done when another's updates run.
LEMMA ProgressBeside ==
    ASSUME ImportInv, NEW c \in Clients, page'[c].queue = page[c].queue,
           page'[c].pc = page[c].pc, DeletesCount, UpdatesBeside(c)
    PROVE  Progress(c)'
  <1>1. PICK q : q = page[c].queue
    OBVIOUS
  <1>2. page'[c].queue = q /\ q \in Seq(Calls)
    BY <1>1, ImportFacts
  <1>3. \A i \in DOMAIN q : q[i].call = "save" /\ (i # 1 \/ page[c].pc \in {"start", "refresh"}) =>
           \A j \in jobs' : j.save # q[i].save
    BY <1>1, ImportFacts DEF Progress, UpdatesBeside
  <1>4. ASSUME page[c].pc # "start", drawn'.delete = 0
        PROVE  \A i \in Saveable(Head(q).preview, "insert") \cup Saveable(Head(q).preview, "update") :
                  InHand(Head(q), i)'
    <2>1. PICK x : x = Head(q)
      OBVIOUS
    <2>2. Current(c) = x
      BY <1>1, <2>1 DEF Current
    <2>3. q # <<>> /\ x = q[1] /\ x.call = "save" /\ 1 \in DOMAIN q
      BY <1>1, <1>2, <1>4, <2>1, ImportFacts, QueueTail DEF PageOK
    <2>4. ASSUME NEW i \in Saveable(x.preview, "insert") \cup Saveable(x.preview, "update")
          PROVE  InHand(x, i)'
      <3>1. PICK no : no = x.preview.file[i].no
        OBVIOUS
      <3>2. \/ RowsAt(db, x.org, no) # {}
            \/ \E j \in jobs : j.save = x.save /\ j.org = x.org /\ j.line.no = no
        BY <1>4, <2>2, <2>4, <3>1, ImportFacts DEF Progress, InHand, DeletesCount
      <3>3. CASE RowsAt(db, x.org, no) # {}
        <4>1. RowsAt(db', x.org, no) # {}
          BY <1>4, <3>3 DEF DeletesCount, RowsStay
        <4> QED BY <3>1, <4>1 DEF InHand, RowsAt
      <3>4. ASSUME NEW j \in jobs, j.save = x.save, j.org = x.org, j.line.no = no
            PROVE  InHand(x, i)'
        <4>1. page[c].pc = "update"
          <5>1. page[c].pc # "refresh"
            BY <1>1, <2>3, <3>4, ImportFacts DEF Progress
          <5> QED BY <1>4, <5>1, ImportFacts, PageTyped
        <4>2. \/ RowsAt(db', j.org, j.line.no) # {}
              \/ \E h \in jobs' : h.save = j.save /\ h.org = j.org /\ h.line.no = j.line.no
          BY <2>2, <3>4, <4>1 DEF UpdatesBeside
        <4>3. \/ RowsAt(db', x.org, no) # {}
              \/ \E h \in jobs' : h.save = x.save /\ h.org = x.org /\ h.line.no = no
          BY <3>4, <4>2
        <4> QED BY <3>1, <4>3 DEF InHand, RowsAt
      <3> QED BY <3>2, <3>3, <3>4
    <2> QED BY <2>1, <2>4
  <1>5. Current(c)' = Head(q)
    BY <1>2 DEF Current
  <1> QED BY <1>2, <1>3, <1>4, <1>5 DEF Progress, Saveable

\* A page that goes on to its next call has done nothing of it yet.
LEMMA ProgressShift ==
    ASSUME ImportInv, NEW c \in Clients, page[c].queue # <<>>,
           page'[c].queue = Tail(page[c].queue), page'[c].pc = "start",
           \A j \in jobs' : \E h \in jobs : h.save = j.save
    PROVE  Progress(c)'
  <1>1. PICK q : q = page[c].queue
    OBVIOUS
  <1>2. \A i \in DOMAIN Tail(q) : i + 1 \in DOMAIN q /\ i + 1 # 1 /\ Tail(q)[i] = q[i + 1]
    <2>1. q \in Seq(Calls) /\ q # <<>>
      BY <1>1, ImportFacts
    <2> QED BY <2>1, QueueTail
  <1>3. \A i \in DOMAIN Tail(q) : Tail(q)[i].call = "save" =>
           \A j \in jobs' : j.save # Tail(q)[i].save
    BY <1>1, <1>2, ImportFacts DEF Progress
  <1> QED BY <1>1, <1>3 DEF Progress

\* A save keeps what it has done when its page appends a call.
LEMMA ProgressAppend ==
    ASSUME ImportInv, NEW c \in Clients, NEW x \in Calls,
           page'[c].queue = Append(page[c].queue, x), page'[c].pc = page[c].pc,
           x.call = "save" => x.save > drawn.save,
           UNCHANGED <<db, jobs>>, drawn'.delete = drawn.delete
    PROVE  Progress(c)'
  <1>1. PICK q : q = page[c].queue
    OBVIOUS
  <1>2. PICK n : n = Len(q) + 1
    OBVIOUS
  <1>3. /\ DOMAIN Append(q, x) = DOMAIN q \cup {n} /\ Append(q, x)[n] = x
        /\ \A i \in DOMAIN q : Append(q, x)[i] = q[i]
        /\ q # <<>> => 1 \in DOMAIN q
        /\ Append(q, x) \in Seq(Calls) /\ Append(q, x) # <<>> /\ q \in Seq(Calls)
    BY <1>1, <1>2, ImportFacts, QueueAppend
  <1>4. \A j \in jobs : j.save <= drawn.save /\ j.save \in Nat
    BY ImportFacts DEF Aimed, Updates
  <1>5. x.call = "save" => \A j \in jobs : j.save # x.save
    BY <1>4, ImportFacts
  <1>6. \A i \in DOMAIN Append(q, x) :
           Append(q, x)[i].call = "save" /\ (i # 1 \/ page[c].pc \in {"start", "refresh"}) =>
              \A j \in jobs : j.save # Append(q, x)[i].save
    <2>1. \A i \in DOMAIN q : q[i].call = "save" /\ (i # 1 \/ page[c].pc \in {"start", "refresh"}) =>
             \A j \in jobs : j.save # q[i].save
      BY <1>1, ImportFacts DEF Progress
    <2> QED BY <1>3, <1>5, <2>1
  <1>7. page[c].pc # "start" => Head(Append(q, x)) = Head(q)
    <2>1. page[c].pc # "start" => q # <<>>
      BY <1>1, ImportFacts DEF PageOK
    <2>2. q # <<>> => Head(Append(q, x)) = Head(q)
      BY <1>3, QueueTail
    <2> QED BY <2>1, <2>2
  <1>8. page[c].pc # "start" => Current(c)' = Current(c)
    BY <1>1, <1>7 DEF Current
  <1>9. ASSUME page[c].pc # "start", drawn.delete = 0
        PROVE  \A i \in Saveable(Current(c).preview, "insert")
                        \cup Saveable(Current(c).preview, "update") : InHand(Current(c), i)'
    <2>1. PICK y : y = Current(c)
      OBVIOUS
    <2>2. \A i \in Saveable(y.preview, "insert") \cup Saveable(y.preview, "update") : InHand(y, i)
      BY <1>9, <2>1, ImportFacts DEF Progress
    <2>3. \A i : InHand(y, i) => InHand(y, i)'
      BY DEF InHand, RowsAt
    <2>4. Current(c)' = y
      BY <1>8, <1>9, <2>1
    <2> QED BY <2>1, <2>2, <2>3, <2>4 DEF InHand, RowsAt
  <1>10. page'[c].pc # "start" /\ drawn'.delete = 0 =>
          \A i \in Saveable(Current(c)'.preview, "insert")
                    \cup Saveable(Current(c)'.preview, "update") : InHand(Current(c), i)'
    BY <1>8, <1>9
  <1> QED BY <1>1, <1>6, <1>10 DEF Progress, Saveable

-----------------------------------------------------------------------------
(* The steps of a page                                                     *)

Drawn == [row : Nat, choice : Nat, save : Nat, delete : Nat, fault : Nat]

\* One page changes and nothing is stored.
LEMMA OnePageKeeps ==
    ASSUME ImportInv, NEW c \in Clients, NEW f \in Pages,
           page' = [page EXCEPT ![c] = f], UNCHANGED <<db, jobs>>, drawn' \in Drawn,
           drawn'.row = drawn.row, drawn.save <= drawn'.save, drawn'.delete = drawn.delete,
           \A i \in DOMAIN f.queue : f.queue[i].call = "save" =>
              \/ \E k \in DOMAIN page[c].queue : page[c].queue[k] = f.queue[i]
              \/ f.queue[i].save > drawn.save,
           PageOK(f)', Progress(c)'
    PROVE  ImportInv'
  <1>1. page'[c] = f /\ \A d \in Clients \ {c} : page'[d] = page[d]
    BY DEF ImportInv, Shapes
  <1>2. Shapes'
    BY DEF ImportInv, Shapes, Drawn
  <1>3. Keyed(db, drawn.row)'
    BY ImportFacts DEF Keyed
  <1>4. SavesApart'
    <2>1. \A d \in Clients : \A i \in DOMAIN page'[d].queue : page'[d].queue[i].call = "save" =>
             \/ \E k \in DOMAIN page[d].queue : page[d].queue[k] = page'[d].queue[i]
             \/ d = c /\ page'[d].queue[i].save > drawn.save
      <3> SUFFICES ASSUME NEW d \in Clients, NEW i \in DOMAIN page'[d].queue,
                          page'[d].queue[i].call = "save"
                   PROVE  \/ \E k \in DOMAIN page[d].queue : page[d].queue[k] = page'[d].queue[i]
                          \/ d = c /\ page'[d].queue[i].save > drawn.save
        OBVIOUS
      <3>1. CASE d = c
        BY <1>1, <3>1
      <3>2. CASE d # c
        BY <1>1, <3>2
      <3> QED BY <3>1, <3>2
    <2> QED BY <2>1, ApartStays
  <1>5. \A j \in jobs' : Aimed(j)'
    <2> SUFFICES ASSUME NEW j \in jobs PROVE Aimed(j)'
      OBVIOUS
    <2>1. Aimed(j) /\ j.save \in Nat /\ drawn.save \in Nat /\ drawn'.save \in Nat
      BY ImportFacts DEF Updates, Drawn
    <2> QED BY <2>1 DEF Aimed
  <1>6. DeletesCount
    BY DEF DeletesCount, RowsStay
  <1>7. ASSUME NEW d \in Clients \ {c}
        PROVE  PageOK(page[d])' /\ Progress(d)'
    <2>1. UpdatesBeside(d)
      BY DEF UpdatesBeside
    <2>2. Progress(d)'
      BY <1>1, <1>6, <2>1, ProgressBeside
    <2>3. PICK g : g = page'[d]
      OBVIOUS
    <2>4. g \in Pages /\ PageOK(g) /\ drawn'.save \in Nat
      BY <1>1, <2>3, ImportFacts DEF Drawn
    <2>5. PageOK(g)'
      BY <2>4, ImportFacts, PageStays
    <2> QED BY <2>2, <2>3, <2>5, PageOKNext
  <1>8. PageOK(page[c])'
    BY <1>1, PageOKNext
  <1> QED BY <1>2, <1>3, <1>4, <1>5, <1>7, <1>8, ImportInvNext

\* A choice of organization or file keeps the invariant.
LEMMA ChooseKeeps ==
    ASSUME ImportInv, NEW c \in Clients, NEW org \in Orgs, NEW file \in Files \cup {NoFile},
           Choose(c, org, file)
    PROVE  ImportInv'
  <1>1. PICK x : x = [call |-> "preview", org |-> org, file |-> file]
    OBVIOUS
  <1>2. x \in Calls /\ x.call = "preview" /\ x.org = org /\ x.file = file
    BY <1>1 DEF Calls
  <1>3. PICK p : p = page[c]
    OBVIOUS
  <1>4. p \in Pages /\ PageOK(p) /\ p.queue \in Seq(Calls)
    BY <1>3, ImportFacts
  <1>5. PICK f : f = [p EXCEPT !.org = org, !.file = file, !.error = FALSE,
                               !.queue = IF file = NoFile THEN @ ELSE Append(@, x)]
    OBVIOUS
  <1>6. /\ page' = [page EXCEPT ![c] = f] /\ drawn' = [drawn EXCEPT !.choice = @ + 1]
        /\ UNCHANGED <<db, jobs>>
    BY <1>1, <1>3, <1>5 DEF Choose, SetPage
  <1>7. Append(p.queue, x) \in Seq(Calls)
    BY <1>2, <1>4, QueueAppend
  <1>8. /\ f \in Pages /\ f.org = org /\ f.file = file /\ f.shown = p.shown /\ f.pc = p.pc
        /\ f.queue = IF file = NoFile THEN p.queue ELSE Append(p.queue, x)
    BY <1>4, <1>5, <1>7 DEF Pages
  <1>9. /\ drawn' \in Drawn /\ drawn'.row = drawn.row /\ drawn'.save = drawn.save
        /\ drawn'.delete = drawn.delete /\ drawn.save <= drawn'.save
    BY <1>6, ImportFacts DEF Drawn
  <1>10. page'[c] = f
    BY <1>6 DEF ImportInv, Shapes
  <1>11. CASE file = NoFile
    <2>1. PageOK(f)'
      BY <1>4, <1>8, <1>9, <1>11, PageEmptied
    <2>2. DeletesCount /\ UpdatesBeside(c)
      BY <1>6, <1>9 DEF DeletesCount, RowsStay, UpdatesBeside
    <2>3. Progress(c)'
      BY <1>3, <1>8, <1>10, <1>11, <2>2, ProgressBeside
    <2> QED BY <1>3, <1>6, <1>8, <1>9, <1>11, <2>1, <2>3, OnePageKeeps
  <1>12. CASE file # NoFile
    <2>1. PageOK(f)'
      BY <1>2, <1>4, <1>8, <1>9, <1>12, PageAsks
    <2>2. Progress(c)'
      BY <1>2, <1>3, <1>6, <1>8, <1>9, <1>10, <1>12, ProgressAppend
    <2>3. \A i \in DOMAIN f.queue : f.queue[i].call = "save" =>
             \E k \in DOMAIN p.queue : p.queue[k] = f.queue[i]
      BY <1>2, <1>4, <1>8, <1>12, QueueAppend
    <2> QED BY <1>3, <1>6, <1>8, <1>9, <2>1, <2>2, <2>3, OnePageKeeps
  <1> QED BY <1>11, <1>12

\* A click on save keeps the invariant.
LEMMA SubmitKeeps ==
    ASSUME ImportInv, NEW c \in Clients, Submit(c)
    PROVE  ImportInv'
  <1>1. PICK p : p = page[c]
    OBVIOUS
  <1>2. p \in Pages /\ PageOK(p) /\ p.queue \in Seq(Calls) /\ p.org \in Orgs /\ p.shown \in Previews
    BY <1>1, ImportFacts, PageTyped
  <1>3. PICK x : x = [call |-> "save", org |-> p.org, preview |-> p.shown, save |-> drawn'.save]
    OBVIOUS
  <1>4. /\ drawn' \in Drawn /\ drawn'.row = drawn.row /\ drawn'.save = drawn.save + 1
        /\ drawn'.delete = drawn.delete /\ drawn'.save > drawn.save
        /\ drawn'.save \in Nat
    <2>1. drawn' = [drawn EXCEPT !.save = @ + 1]
      BY DEF Submit
    <2> QED BY <2>1, ImportFacts DEF Drawn
  <1>5. x \in Calls /\ x.call = "save" /\ x.preview = p.shown /\ x.save = drawn'.save
    BY <1>2, <1>3, <1>4 DEF Calls
  <1>6. PICK f : f = [p EXCEPT !.queue = Append(@, x)]
    OBVIOUS
  <1>7. page' = [page EXCEPT ![c] = f] /\ UNCHANGED <<db, jobs>>
    BY <1>1, <1>3, <1>6 DEF Submit, SetPage
  <1>8. Append(p.queue, x) \in Seq(Calls)
    BY <1>2, <1>5, QueueAppend
  <1>9. /\ f \in Pages /\ f.org = p.org /\ f.file = p.file /\ f.shown = p.shown /\ f.pc = p.pc
        /\ f.error = p.error /\ f.queue = Append(p.queue, x)
    BY <1>2, <1>6, <1>8 DEF Pages
  <1>10. \A i \in DOMAIN p.queue : p.queue[i].call # "save"
    BY <1>1 DEF Submit, Uploading
  <1>11. PageOK(f)'
    BY <1>2, <1>4, <1>5, <1>9, <1>10, ImportFacts, PageSubmits
  <1>12. page'[c] = f
    BY <1>7 DEF ImportInv, Shapes
  <1>13. Progress(c)'
    BY <1>1, <1>4, <1>5, <1>7, <1>9, <1>12, ProgressAppend
  <1>14. \A i \in DOMAIN f.queue : f.queue[i].call = "save" =>
            \/ \E k \in DOMAIN p.queue : p.queue[k] = f.queue[i]
            \/ f.queue[i].save > drawn.save
    BY <1>2, <1>4, <1>5, <1>9, QueueAppend
  <1>15. drawn.save <= drawn'.save
    BY <1>4, ImportFacts
  <1> QED BY <1>1, <1>4, <1>7, <1>9, <1>11, <1>13, <1>14, <1>15, OnePageKeeps

\* The first call of a page is answered or broken off, and nothing is stored.
LEMMA AnsweredKeeps ==
    ASSUME ImportInv, NEW c \in Clients, page[c].queue # <<>>, NEW f \in Pages,
           page' = [page EXCEPT ![c] = f], UNCHANGED <<db, jobs>>,
           drawn' \in Drawn, drawn'.row = drawn.row, drawn'.save = drawn.save,
           drawn'.delete = drawn.delete,
           f.queue = Tail(page[c].queue), f.pc = "start", Sound(f.shown), Settling(f)
    PROVE  ImportInv'
  <1>1. PICK p : p = page[c]
    OBVIOUS
  <1>2. p \in Pages /\ PageOK(p) /\ p.queue \in Seq(Calls) /\ p.queue # <<>>
    BY <1>1, ImportFacts
  <1>3. PageOK(f)'
    BY <1>1, <1>2, PageAnswered
  <1>4. page'[c] = f
    BY DEF ImportInv, Shapes
  <1>5. Progress(c)'
    BY <1>4, ProgressShift
  <1>6. \A i \in DOMAIN f.queue : \E k \in DOMAIN p.queue : p.queue[k] = f.queue[i]
    BY <1>1, <1>2, QueueTail
  <1>7. drawn.save <= drawn'.save
    BY ImportFacts
  <1> QED BY <1>1, <1>3, <1>5, <1>6, <1>7, OnePageKeeps

\* A save that ends in an error.
LEMMA FailedPage ==
    ASSUME NEW p \in Pages, PageOK(p), p.queue # <<>>, p.queue[1].call = "save",
           NEW f, f = SaveFailed(p)
    PROVE  /\ f \in Pages /\ f.queue = Tail(p.queue) /\ f.pc = "start"
           /\ Sound(f.shown) /\ Settling(f)
  <1>1. Tail(p.queue) \in Seq(Calls)
    BY PageTyped, QueueTail
  <1>2. /\ f \in Pages /\ f.queue = Tail(p.queue) /\ f.pc = "start" /\ f.shown = p.shown
        /\ f.org = p.org /\ f.file = p.file /\ f.error = p.error
    BY <1>1 DEF Pages, SaveFailed, Answered
  <1>3. Settling(f)
    BY <1>2, SettlesSave DEF PageOK
  <1> QED BY <1>2, <1>3 DEF PageOK

\* A call that breaks off.
LEMMA BrokenPage ==
    ASSUME NEW p \in Pages, PageOK(p), p.queue # <<>>, NEW f, f = Broken(p)
    PROVE  /\ f \in Pages /\ f.queue = Tail(p.queue) /\ f.pc = "start"
           /\ Sound(f.shown) /\ Settling(f)
  <1>1. Tail(p.queue) \in Seq(Calls)
    BY PageTyped, QueueTail
  <1>2. CASE p.queue[1].call = "save"
    BY <1>2, FailedPage DEF Broken
  <1>3. CASE p.queue[1].call # "save"
    <2>1. f = [[p EXCEPT !.queue = Tail(@)] EXCEPT !.error = TRUE]
      BY <1>3 DEF Broken, Answered
    <2>2. /\ f \in Pages /\ f.queue = Tail(p.queue) /\ f.pc = p.pc /\ f.shown = p.shown
          /\ f.error = TRUE
      BY <1>1, <2>1 DEF Pages
    <2>3. p.pc = "start"
      BY <1>3 DEF PageOK
    <2> QED BY <2>2, <2>3 DEF PageOK, Settling
  <1> QED BY <1>2, <1>3

\* The answer of a preview keeps the invariant.
LEMMA PreviewAnswerKeeps ==
    ASSUME ImportInv, NEW c \in Clients, PreviewAnswer(c)
    PROVE  ImportInv'
  <1>1. PICK p : p = page[c]
    OBVIOUS
  <1>2. PICK x : x = Current(c)
    OBVIOUS
  <1>3. p \in Pages /\ PageOK(p) /\ p.queue \in Seq(Calls) /\ p.queue # <<>>
    BY <1>1, ImportFacts DEF PreviewAnswer, Calling
  <1>4. x = p.queue[1] /\ x \in Calls /\ x.call = "preview" /\ Tail(p.queue) \in Seq(Calls)
    BY <1>1, <1>2, <1>3, QueueTail DEF PreviewAnswer, Current
  <1>5. x.org \in Orgs /\ x.file \in Files \cup {NoFile}
    BY <1>4, CallTyped
  <1>6. PICK s : /\ s = Preview(db, x.org, x.file)
                    \/ s = [org |-> x.org, file |-> x.file, status |-> <<>>]
                 /\ page' = [page EXCEPT ![c] = [Answered(p) EXCEPT !.shown = s]]
                 /\ drawn' = drawn \/ drawn' = [drawn EXCEPT !.fault = @ + 1]
                 /\ UNCHANGED <<db, jobs>>
    BY <1>1, <1>2 DEF PreviewAnswer, SetPage
  <1>7. s \in Previews /\ Sound(s) /\ s.org = x.org /\ s.file = x.file
    <2>1. CASE s = Preview(db, x.org, x.file)
      BY <1>5, <2>1, PreviewIsSound
    <2>2. CASE s = [org |-> x.org, file |-> x.file, status |-> <<>>]
      <3>1. <<>> \in Seq({"invalid", "insert", "skip", "update"}) /\ DOMAIN <<>> = {}
        OBVIOUS
      <3>2. s.status = <<>> /\ s.org = x.org /\ s.file = x.file
        BY <2>2
      <3>3. s \in Previews
        BY <1>5, <2>2, <3>1 DEF Previews
      <3> QED BY <3>1, <3>2, <3>3 DEF Sound
    <2> QED BY <1>6, <2>1, <2>2
  <1>8. PICK f : f = [Answered(p) EXCEPT !.shown = s]
    OBVIOUS
  <1>9. /\ f \in Pages /\ f.queue = Tail(p.queue) /\ f.shown = s /\ f.pc = p.pc
        /\ f.org = p.org /\ f.file = p.file /\ f.error = p.error
    BY <1>3, <1>4, <1>7, <1>8 DEF Answered, Pages
  <1>10. f.pc = "start"
    BY <1>3, <1>4, <1>9 DEF PageOK
  <1>11. Settling(f)
    BY <1>3, <1>4, <1>7, <1>9, SettlesPreview DEF PageOK
  <1>12. /\ drawn' \in Drawn /\ drawn'.row = drawn.row /\ drawn'.save = drawn.save
         /\ drawn'.delete = drawn.delete
    BY <1>6, ImportFacts DEF Drawn
  <1> QED BY <1>1, <1>3, <1>6, <1>7, <1>8, <1>9, <1>10, <1>11, <1>12, AnsweredKeeps

\* A call that is lost keeps the invariant.
LEMMA CallLostKeeps ==
    ASSUME ImportInv, NEW c \in Clients, CallLost(c)
    PROVE  ImportInv'
  <1>1. PICK p : p = page[c]
    OBVIOUS
  <1>2. p \in Pages /\ PageOK(p) /\ p.queue # <<>>
    BY <1>1, ImportFacts DEF CallLost, Calling
  <1>3. PICK f : f = Broken(p)
    OBVIOUS
  <1>4. page' = [page EXCEPT ![c] = f] /\ UNCHANGED <<db, jobs>>
        /\ drawn' = [drawn EXCEPT !.fault = @ + 1]
    BY <1>1, <1>3 DEF CallLost, SetPage
  <1>5. /\ drawn' \in Drawn /\ drawn'.row = drawn.row /\ drawn'.save = drawn.save
        /\ drawn'.delete = drawn.delete
    BY <1>4, ImportFacts DEF Drawn
  <1> QED BY <1>1, <1>2, <1>3, <1>4, <1>5, BrokenPage, AnsweredKeeps

\* A page whose save is under way.
LEMMA SavingFacts ==
    ASSUME ImportInv, NEW c \in Clients, NEW pc, Saving(c, pc)
    PROVE  /\ page[c].queue # <<>> /\ Current(c) = page[c].queue[1] /\ 1 \in DOMAIN page[c].queue
           /\ Current(c) \in Calls /\ Current(c).call = "save"
           /\ Current(c).org \in Orgs /\ Current(c).preview \in Previews
           /\ Current(c).save \in Nat /\ 1 <= Current(c).save /\ Current(c).save <= drawn.save
           /\ Sound(Current(c).preview) /\ page[c].pc = pc
  <1>1. page[c].queue # <<>> /\ page[c].queue \in Seq(Calls) /\ Current(c).call = "save"
        /\ page[c].pc = pc
    BY ImportFacts DEF Saving, Calling
  <1>2. Current(c) = page[c].queue[1] /\ 1 \in DOMAIN page[c].queue /\ Current(c) \in Calls
    BY <1>1, QueueTail DEF Current
  <1>3. Current(c).org \in Orgs /\ Current(c).preview \in Previews /\ Current(c).save \in Nat
    BY <1>1, <1>2, CallTyped
  <1> QED BY <1>1, <1>2, <1>3, ImportFacts DEF PageOK

\* The refresh of the cache that ends a save keeps the invariant.
LEMMA SaveRefreshKeeps ==
    ASSUME ImportInv, NEW c \in Clients, SaveRefresh(c)
    PROVE  ImportInv'
  <1>1. PICK p : p = page[c]
    OBVIOUS
  <1>2. p \in Pages /\ PageOK(p) /\ p.queue # <<>> /\ p.queue \in Seq(Calls)
    BY <1>1, ImportFacts DEF SaveRefresh, Saving, Calling
  <1>3. PICK f : f = [Answered(p) EXCEPT !.pc = "start", !.file = NoFile,
                                         !.shown = NoPreview, !.error = FALSE]
    OBVIOUS
  <1>4. page' = [page EXCEPT ![c] = f] /\ UNCHANGED <<db, jobs, drawn>>
    BY <1>1, <1>3 DEF SaveRefresh, SaveDone, SetPage
  <1>5. Tail(p.queue) \in Seq(Calls)
    BY <1>2, QueueTail
  <1>6. NoPreview \in Previews /\ Sound(NoPreview)
    <2>1. NoPreview.status = <<>> /\ DOMAIN <<>> = {} /\ <<>> \in Seq({"invalid", "insert", "skip", "update"})
      BY DEF NoPreview
    <2>2. NoPreview \in Previews
      BY <2>1 DEF NoPreview, Previews
    <2> QED BY <2>1, <2>2 DEF Sound
  <1>7. f \in Pages /\ f.queue = Tail(p.queue) /\ f.pc = "start" /\ f.shown = NoPreview
        /\ f.file = NoFile
    BY <1>2, <1>3, <1>5, <1>6 DEF Answered, Pages
  <1>8. Settling(f)
    BY <1>7 DEF Settling
  <1>9. drawn' \in Drawn /\ drawn'.row = drawn.row /\ drawn'.save = drawn.save
        /\ drawn'.delete = drawn.delete
    BY <1>4, ImportFacts DEF Drawn
  <1> QED BY <1>1, <1>2, <1>4, <1>6, <1>7, <1>8, <1>9, AnsweredKeeps

\* A save whose updates have all ended keeps the invariant.
LEMMA SaveUpdatedKeeps ==
    ASSUME ImportInv, NEW c \in Clients, SaveUpdated(c)
    PROVE  ImportInv'
  <1>1. PICK p : p = page[c]
    OBVIOUS
  <1>2. p \in Pages /\ PageOK(p) /\ p.queue # <<>> /\ p.queue[1].call = "save" /\ p.pc = "update"
        /\ Current(c) = p.queue[1] /\ \A j \in jobs : j.save # p.queue[1].save
    BY <1>1, ImportFacts, SavingFacts DEF SaveUpdated
  <1>3. PICK f : f = [p EXCEPT !.pc = "refresh"]
    OBVIOUS
  <1>4. page' = [page EXCEPT ![c] = f] /\ UNCHANGED <<db, jobs, drawn>>
    BY <1>1, <1>3 DEF SaveUpdated, SetPage
  <1>5. /\ f \in Pages /\ f.queue = p.queue /\ f.shown = p.shown /\ f.pc = "refresh"
        /\ f.org = p.org /\ f.file = p.file /\ f.error = p.error
    BY <1>2, <1>3 DEF Pages
  <1>6. PageOK(f)'
    BY <1>2, <1>4, <1>5, PageGoesOn
  <1>7. drawn' \in Drawn /\ drawn'.row = drawn.row /\ drawn.save <= drawn'.save
        /\ drawn'.delete = drawn.delete
    BY <1>4, ImportFacts DEF Drawn
  <1>8. page'[c] = f
    BY <1>4 DEF ImportInv, Shapes
  <1>9. Progress(c)'
    <2>1. PICK x : x = Current(c)
      OBVIOUS
    <2>2. Current(c)' = x
      BY <1>1, <1>5, <1>8, <2>1 DEF Current
    <2>3. drawn.delete = 0 =>
            \A i \in Saveable(x.preview, "insert") \cup Saveable(x.preview, "update") : InHand(x, i)
      BY <1>1, <1>2, <2>1, ImportFacts DEF Progress
    <2>4. \A i : InHand(x, i) => InHand(x, i)'
      BY <1>4 DEF InHand, RowsAt
    <2>5. \A i \in DOMAIN p.queue : p.queue[i].call = "save" => \A j \in jobs' : j.save # p.queue[i].save
      BY <1>1, <1>2, <1>4, ImportFacts DEF PageOK
    <2> QED BY <1>4, <1>5, <1>8, <2>2, <2>3, <2>4, <2>5 DEF Progress, Saveable
  <1> QED BY <1>1, <1>4, <1>5, <1>6, <1>7, <1>9, OnePageKeeps

-----------------------------------------------------------------------------
(* The bulk INSERT                                                         *)

Rank(lines, i) == Cardinality({j \in lines : j <= i})

\* The rank of a line among finitely many: from 1 to their number, in their
\* order.
LEMMA RankFacts ==
    ASSUME NEW lines \in SUBSET Nat, IsFiniteSet(lines), NEW i \in lines
    PROVE  /\ Rank(lines, i) \in Nat /\ 1 <= Rank(lines, i)
           /\ Cardinality(lines) \in Nat /\ Rank(lines, i) <= Cardinality(lines)
           /\ \A k \in lines : i < k => Rank(lines, i) < Rank(lines, k)
  <1> DEFINE upto(k) == {j \in lines : j <= k}
  <1>1. \A k \in lines : upto(k) \in SUBSET lines /\ k \in upto(k)
    OBVIOUS
  <1>2. \A k \in lines : IsFiniteSet(upto(k)) /\ Cardinality(upto(k)) \in Nat
                         /\ Cardinality(upto(k)) <= Cardinality(lines)
    BY <1>1, FS_Subset, FS_CardinalityType
  <1>3. Cardinality(lines) \in Nat
    BY FS_CardinalityType
  <1>4. 1 <= Cardinality(upto(i))
    <2>1. Cardinality(upto(i)) # 0
      BY <1>1, <1>2, FS_EmptySet
    <2> QED BY <1>2, <2>1
  <1>5. ASSUME NEW k \in lines, i < k
        PROVE  Cardinality(upto(i)) < Cardinality(upto(k))
    <2>1. upto(i) \in SUBSET upto(k) /\ upto(i) # upto(k)
      <3>1. \A j \in upto(i) : j \in upto(k)
        BY <1>5
      <3>2. k \notin upto(i) /\ k \in upto(k)
        BY <1>5
      <3> QED BY <3>1, <3>2
    <2>2. Cardinality(upto(i)) <= Cardinality(upto(k)) /\ Cardinality(upto(i)) # Cardinality(upto(k))
      BY <1>2, <2>1, FS_Subset
    <2> QED BY <1>2, <2>2
  <1>6. \A k \in lines : Rank(lines, k) = Cardinality(upto(k))
    BY DEF Rank
  <1> HIDE DEF upto
  <1> QED BY <1>2, <1>3, <1>4, <1>5, <1>6

\* Two lines have two ranks.
LEMMA RanksDiffer ==
    ASSUME NEW lines \in SUBSET Nat, IsFiniteSet(lines), NEW i \in lines, NEW k \in lines,
           Rank(lines, i) = Rank(lines, k)
    PROVE  i = k
  <1>1. ~(i < k) /\ ~(k < i)
    BY RankFacts
  <1> QED BY <1>1

\* The lines a preview offers to save are lines of its file with a type.
LEMMA SaveableFacts ==
    ASSUME NEW p \in Previews, Sound(p), NEW status, status \in {"insert", "update"},
           NEW lines, lines = Saveable(p, status)
    PROVE  /\ lines \in SUBSET Nat /\ IsFiniteSet(lines) /\ lines \subseteq DOMAIN p.file
           /\ \A i \in lines : p.file[i] \in Line /\ p.file[i].kind = "typed"
  <1>1. p.status \in Seq({"invalid", "insert", "skip", "update"}) /\ p.file \in Files \cup {NoFile}
    BY DEF Previews
  <1>2. DOMAIN p.status = 1..Len(p.status) /\ Len(p.status) \in Nat
    BY <1>1
  <1>3. IsFiniteSet(DOMAIN p.status)
    <2>1. 1 \in Int /\ Len(p.status) \in Int
      BY <1>2
    <2> QED BY <1>2, <2>1, FS_Interval
  <1>4. lines \in SUBSET DOMAIN p.status
    BY DEF Saveable
  <1>5. lines \in SUBSET Nat /\ IsFiniteSet(lines)
    BY <1>2, <1>3, <1>4, FS_Subset
  <1>6. lines \subseteq DOMAIN p.file
    BY <1>4 DEF Sound
  <1>7. ASSUME NEW i \in lines
        PROVE  p.file[i] \in Line /\ p.file[i].kind = "typed"
    <2>1. p.file[i] \in Line
      BY <1>1, <1>6, FileTyped
    <2>2. p.file[i].kind # "untyped" /\ p.file[i].kind # "unlisted"
      BY DEF Saveable, Sound
    <2> QED BY <2>1, <2>2 DEF Line, Kinds
  <1> QED BY <1>5, <1>6, <1>7

\* A new row, by the line it comes from.
NewRow(r, i, org, file, lines, last) ==
    /\ r = Row(last + Rank(lines, i), org, file[i])
    /\ r.id = last + Rank(lines, i)
    /\ r.org = org /\ r.no = file[i].no /\ r.kind = "typed"
    /\ r.id \in Nat /\ last < r.id /\ r.id <= last + Cardinality(lines)

\* The rows a save inserts: stored ones, one for each of its lines.
LEMMA InsertedFacts ==
    ASSUME NEW org \in Orgs, NEW file, NEW lines \in SUBSET Nat, IsFiniteSet(lines),
           \A i \in lines : file[i] \in Line /\ file[i].kind = "typed",
           NEW last \in Nat, NEW rows, rows = InsertedRows(org, file, lines, last)
    PROVE  /\ \A r \in rows : r \in Stored
           /\ \A r \in rows : \E i \in lines : NewRow(r, i, org, file, lines, last)
           /\ \A i \in lines : \E r \in rows : r.org = org /\ r.no = file[i].no
  <1>1. rows = {Row(last + Rank(lines, i), org, file[i]) : i \in lines}
    BY DEF InsertedRows, Rank
  <1>2. ASSUME NEW i \in lines, NEW r, r = Row(last + Rank(lines, i), org, file[i])
        PROVE  r \in Stored /\ NewRow(r, i, org, file, lines, last)
               /\ r.org = org /\ r.no = file[i].no
    <2>1. PICK n : n = last + Rank(lines, i)
      OBVIOUS
    <2>2. n \in Nat /\ last < n /\ n <= last + Cardinality(lines)
      <3>1. /\ Rank(lines, i) \in Nat /\ 1 <= Rank(lines, i)
            /\ Cardinality(lines) \in Nat /\ Rank(lines, i) <= Cardinality(lines)
        BY RankFacts
      <3> QED BY <2>1, <3>1
    <2>3. file[i] \in Line /\ file[i].kind = "typed"
      OBVIOUS
    <2>4. r \in Stored /\ r.id = n /\ r.org = org /\ r.no = file[i].no /\ r.kind = "typed"
      BY <1>2, <2>1, <2>2, <2>3 DEF Row, Hash, Stored, Line
    <2> QED BY <1>2, <2>1, <2>2, <2>4 DEF NewRow
  <1>3. \A r \in rows : r \in Stored
    BY <1>1, <1>2
  <1>4. \A i \in lines : \E r \in rows : r.org = org /\ r.no = file[i].no
    BY <1>1, <1>2
  <1>5. \A r \in rows : \E i \in lines : NewRow(r, i, org, file, lines, last)
    BY <1>1, <1>2
  <1> QED BY <1>3, <1>4, <1>5

\* The ids and the numbers of the rows stay keys when a save inserts rows that
\* conflict with none.
LEMMA SaveInsertKeepsKeys ==
    ASSUME ImportInv, NEW org \in Orgs, NEW file, NEW lines \in SUBSET Nat, IsFiniteSet(lines),
           \A i \in lines : file[i] \in Line /\ file[i].kind = "typed",
           ~Conflict(org, file, lines),
           NEW rows, rows = InsertedRows(org, file, lines, drawn.row),
           db' = db \cup rows, drawn'.row = drawn.row + Cardinality(lines)
    PROVE  Keyed(db, drawn.row)'
  <1>1. /\ rows \in SUBSET Stored
        /\ \A r \in rows : \E i \in lines :
              /\ r.id = drawn.row + Rank(lines, i)
              /\ r = Row(drawn.row + Rank(lines, i), org, file[i])
              /\ r.org = org /\ r.no = file[i].no /\ r.kind = "typed"
              /\ r.id \in Nat /\ drawn.row < r.id /\ r.id <= drawn.row + Cardinality(lines)
    <2>1. PICK last \in Nat : last = drawn.row
      BY ImportFacts
    <2>2. rows = InsertedRows(org, file, lines, last)
      BY <2>1
    <2>3. \A r \in rows : r \in Stored
      BY <2>2, InsertedFacts
    <2>4. \A r \in rows : \E i \in lines : NewRow(r, i, org, file, lines, last)
      BY <2>2, InsertedFacts
    <2> QED BY <2>1, <2>3, <2>4 DEF NewRow
  <1>2. drawn.row \in Nat /\ Cardinality(lines) \in Nat
    BY ImportFacts, FS_CardinalityType
  <1>3. \A r \in db : r.id \in Nat /\ 1 <= r.id /\ r.id <= drawn.row /\ r.kind = "typed"
    BY ImportFacts DEF Keyed, Stored
  <1>4. \A r \in db' : 1 <= r.id /\ r.id <= drawn'.row /\ r.kind = "typed"
    BY <1>1, <1>2, <1>3
  <1>5. ASSUME NEW r \in db, NEW s \in rows
        PROVE  r.id # s.id /\ ~(r.org = s.org /\ r.no = s.no)
    <2>1. PICK i \in lines : s.org = org /\ s.no = file[i].no /\ drawn.row < s.id /\ s.id \in Nat
      BY <1>1
    <2>2. r.id # s.id
      BY <1>2, <1>3, <2>1
    <2>3. RowsAt(db, org, file[i].no) = {}
      BY DEF Conflict
    <2>4. ~(r.org = org /\ r.no = file[i].no)
      BY <2>3 DEF RowsAt
    <2> QED BY <2>1, <2>2, <2>4
  <1>6. ASSUME NEW r \in rows, NEW s \in rows, r.id = s.id \/ (r.org = s.org /\ r.no = s.no)
        PROVE  r = s
    <2>1. PICK i \in lines : r.id = drawn.row + Rank(lines, i) /\ r.no = file[i].no
                             /\ r = Row(drawn.row + Rank(lines, i), org, file[i])
      BY <1>1
    <2>2. PICK k \in lines : s.id = drawn.row + Rank(lines, k) /\ s.no = file[k].no
                             /\ s = Row(drawn.row + Rank(lines, k), org, file[k])
      BY <1>1
    <2>3. CASE r.id = s.id
      <3>1. Rank(lines, i) \in Nat /\ Rank(lines, k) \in Nat
        BY RankFacts
      <3>2. Rank(lines, i) = Rank(lines, k)
        BY <1>2, <2>1, <2>2, <2>3, <3>1
      <3>3. i = k
        BY <3>2, RanksDiffer
      <3> QED BY <2>1, <2>2, <3>3
    <2>4. CASE r.no = s.no
      <3>1. i = k
        BY <2>1, <2>2, <2>4 DEF Conflict
      <3> QED BY <2>1, <2>2, <3>1
    <2> QED BY <1>6, <2>3, <2>4
  <1>7. ASSUME NEW r \in db, NEW s \in db, r.id = s.id \/ (r.org = s.org /\ r.no = s.no)
        PROVE  r = s
    BY <1>7, ImportFacts DEF Keyed
  <1>8. \A r, s \in db' : r.id = s.id \/ (r.org = s.org /\ r.no = s.no) => r = s
    BY <1>5, <1>6, <1>7
  <1> QED BY <1>4, <1>8 DEF Keyed

\* What a save that the database lets in stores and starts.
UpdatesOf(call, lines) ==
    {[save |-> call.save, org |-> call.org, index |-> i, pc |-> "find",
      line |-> call.preview.file[i], id |-> 0] : i \in lines}
Inserted(c, call, inserts, updates) ==
    /\ ~Conflict(call.org, call.preview.file, inserts)
    /\ db' = db \cup InsertedRows(call.org, call.preview.file, inserts, drawn.row)
    /\ drawn' = [drawn EXCEPT !.row = @ + Cardinality(inserts)]
    /\ jobs' = jobs \cup UpdatesOf(call, updates)
    /\ SetPage(c, [page[c] EXCEPT !.pc = "update"])

\* The updates of a save: one for each of its lines to be updated.
LEMMA UpdatesOfFacts ==
    ASSUME NEW call, NEW lines \in SUBSET Nat, call.save \in Nat, call.org \in Orgs,
           \A i \in lines : call.preview.file[i] \in Line /\ call.preview.file[i].kind = "typed"
    PROVE  /\ UpdatesOf(call, lines) \in SUBSET Updates
           /\ \A j \in UpdatesOf(call, lines) :
                 j.save = call.save /\ j.org = call.org /\ j.pc = "find" /\ j.line.kind = "typed"
           /\ \A i \in lines : \E j \in UpdatesOf(call, lines) :
                 j.save = call.save /\ j.org = call.org /\ j.line.no = call.preview.file[i].no
  <1>1. ASSUME NEW i \in lines,
               NEW j, j = [save |-> call.save, org |-> call.org, index |-> i, pc |-> "find",
                           line |-> call.preview.file[i], id |-> 0]
        PROVE  /\ j \in Updates /\ j.save = call.save /\ j.org = call.org /\ j.pc = "find"
               /\ j.line.kind = "typed" /\ j.line.no = call.preview.file[i].no
    BY <1>1 DEF Updates
  <1> QED BY <1>1 DEF UpdatesOf

\* The insert of a save keeps the invariant.
LEMMA SaveInsertKeeps ==
    ASSUME ImportInv, NEW c \in Clients, SaveInsert(c)
    PROVE  ImportInv'
  <1>1. PICK p : p = page[c]
    OBVIOUS
  <1>2. PICK call : call = Current(c)
    OBVIOUS
  <1>3. PICK inserts : inserts = Saveable(call.preview, "insert")
    OBVIOUS
  <1>4. PICK updates : updates = Saveable(call.preview, "update")
    OBVIOUS
  <1>5. Saving(c, "start")
    BY DEF SaveInsert
  <1>6. /\ p \in Pages /\ PageOK(p) /\ p.queue # <<>> /\ p.queue \in Seq(Calls)
        /\ call = p.queue[1] /\ 1 \in DOMAIN p.queue /\ call \in Calls /\ call.call = "save"
        /\ p.pc = "start"
    BY <1>1, <1>2, <1>5, ImportFacts, SavingFacts
  <1>7. /\ call.org \in Orgs /\ call.preview \in Previews /\ Sound(call.preview)
        /\ call.save \in Nat /\ 1 <= call.save /\ call.save <= drawn.save
    BY <1>2, <1>5, SavingFacts
  <1>8. /\ inserts \in SUBSET Nat /\ IsFiniteSet(inserts)
        /\ \A i \in inserts : call.preview.file[i] \in Line /\ call.preview.file[i].kind = "typed"
    BY <1>3, <1>7, SaveableFacts
  <1>9. /\ updates \in SUBSET Nat
        /\ \A i \in updates : call.preview.file[i] \in Line /\ call.preview.file[i].kind = "typed"
    BY <1>4, <1>7, SaveableFacts
  <1>10. \/ Inserted(c, call, inserts, updates)
         \/ SetPage(c, SaveFailed(p)) /\ UNCHANGED <<db, jobs, drawn>>
    BY <1>1, <1>2, <1>3, <1>4 DEF SaveInsert, Inserted, UpdatesOf
  <1>11. CASE SetPage(c, SaveFailed(p)) /\ UNCHANGED <<db, jobs, drawn>>
    <2>1. PICK f : f = SaveFailed(p)
      OBVIOUS
    <2>2. /\ f \in Pages /\ f.queue = Tail(p.queue) /\ f.pc = "start"
          /\ Sound(f.shown) /\ Settling(f)
      BY <1>6, <2>1, FailedPage
    <2>3. page' = [page EXCEPT ![c] = f]
      BY <1>11, <2>1 DEF SetPage
    <2>4. drawn' \in Drawn /\ drawn' = drawn
      BY <1>11, ImportFacts DEF Drawn
    <2> QED BY <1>1, <1>6, <1>11, <2>2, <2>3, <2>4, AnsweredKeeps
  <1>12. CASE Inserted(c, call, inserts, updates)
    <2>1. PICK rows : rows = InsertedRows(call.org, call.preview.file, inserts, drawn.row)
      OBVIOUS
    <2>2. PICK f : f = [p EXCEPT !.pc = "update"]
      OBVIOUS
    <2>3. PICK new : new = UpdatesOf(call, updates)
      OBVIOUS
    <2>4. /\ ~Conflict(call.org, call.preview.file, inserts)
          /\ db' = db \cup rows /\ jobs' = jobs \cup new
          /\ drawn' = [drawn EXCEPT !.row = @ + Cardinality(inserts)]
          /\ page' = [page EXCEPT ![c] = f]
      BY <1>1, <1>12, <2>1, <2>2, <2>3 DEF Inserted, SetPage
    <2>5. Cardinality(inserts) \in Nat
      BY <1>8, FS_CardinalityType
    <2>6. /\ drawn' \in Drawn /\ drawn'.save = drawn.save /\ drawn'.delete = drawn.delete
          /\ drawn'.row = drawn.row + Cardinality(inserts)
      BY <2>4, <2>5, ImportFacts DEF Drawn
    <2>7. Keyed(db, drawn.row)'
      BY <1>7, <1>8, <2>1, <2>4, <2>6, SaveInsertKeepsKeys
    <2>8. /\ rows \in SUBSET Stored
          /\ \A r \in rows : r.id \in Nat /\ drawn.row < r.id
          /\ \A i \in inserts : \E r \in rows : r.org = call.org /\ r.no = call.preview.file[i].no
      <3>1. PICK last \in Nat : last = drawn.row
        BY ImportFacts
      <3>2. PICK file : file = call.preview.file
        OBVIOUS
      <3>3. PICK org \in Orgs : org = call.org
        BY <1>7
      <3>4. rows = InsertedRows(org, file, inserts, last)
        BY <2>1, <3>1, <3>2, <3>3
      <3>5. \A i \in inserts : file[i] \in Line /\ file[i].kind = "typed"
        BY <1>8, <3>2
      <3>6. \A r \in rows : r \in Stored
        BY <1>8, <3>4, <3>5, InsertedFacts
      <3>8. \A r \in rows : \E i \in inserts : NewRow(r, i, org, file, inserts, last)
        BY <1>8, <3>4, <3>5, InsertedFacts
      <3>7. \A i \in inserts : \E r \in rows : r.org = org /\ r.no = file[i].no
        BY <1>8, <3>4, <3>5, InsertedFacts
      <3> QED BY <3>1, <3>2, <3>3, <3>6, <3>7, <3>8 DEF NewRow
    <2>9. /\ new \in SUBSET Updates
          /\ \A j \in new :
                j.save = call.save /\ j.org = call.org /\ j.pc = "find" /\ j.line.kind = "typed"
          /\ \A i \in updates : \E j \in new :
                j.save = call.save /\ j.org = call.org /\ j.line.no = call.preview.file[i].no
      BY <1>7, <1>9, <2>3, UpdatesOfFacts
    <2>10. /\ f \in Pages /\ f.queue = p.queue /\ f.shown = p.shown /\ f.pc = "update"
           /\ f.org = p.org /\ f.file = p.file /\ f.error = p.error
      BY <1>6, <2>2 DEF Pages
    <2>11. page'[c] = f /\ \A d \in Clients \ {c} : page'[d] = page[d]
      BY <2>4 DEF ImportInv, Shapes
    <2>12. Shapes'
      BY <2>4, <2>6, <2>8, <2>9, <2>10 DEF ImportInv, Shapes, Drawn
    <2>13. SavesApart'
      <3>1. \A d \in Clients : page'[d].queue = page[d].queue
        BY <1>1, <2>10, <2>11
      <3> QED BY <3>1, ApartStays
    <2>14. \A j \in jobs' : Aimed(j)'
      <3>1. ASSUME NEW j \in jobs PROVE Aimed(j)'
        <4>1. Aimed(j) /\ j.id \in Nat /\ drawn.row \in Nat
          BY ImportFacts DEF Updates
        <4>2. j.pc = "write" => j.id <= drawn'.row
          BY <2>5, <2>6, <4>1 DEF Aimed
        <4>3. j.pc = "write" => \A r \in db' : r.id = j.id => r.org = j.org /\ r.no = j.line.no
          BY <2>4, <2>8, <4>1 DEF Aimed
        <4> QED BY <2>6, <4>1, <4>2, <4>3 DEF Aimed
      <3>2. ASSUME NEW j \in new PROVE Aimed(j)'
        BY <1>7, <2>6, <2>9 DEF Aimed
      <3> QED BY <2>4, <3>1, <3>2
    <2>15. DeletesCount
      BY <2>4, <2>6 DEF DeletesCount, RowsStay, RowsAt
    <2>16. ASSUME NEW d \in Clients \ {c}
           PROVE  PageOK(page[d])' /\ Progress(d)'
      <3>1. UpdatesBeside(d)
        <4>1. \A i \in DOMAIN page[d].queue :
                 page[d].queue[i].call = "save" => call.save # page[d].queue[i].save
          <5>1. SavesApart
            BY ImportFacts
          <5> QED BY <1>1, <1>6, <5>1 DEF SavesApart
        <4> QED BY <2>4, <2>9, <4>1 DEF UpdatesBeside
      <3>2. Progress(d)'
        BY <2>11, <2>15, <3>1, ProgressBeside
      <3>3. PICK g : g = page'[d]
        OBVIOUS
      <3>4. g \in Pages /\ PageOK(g)
        BY <2>11, <3>3, ImportFacts
      <3>5. PageOK(g)'
        BY <2>6, <3>4, ImportFacts, PageStays
      <3> QED BY <3>2, <3>3, <3>5, PageOKNext
    <2>17. PageOK(page[c])'
      <3>1. PageOK(f)'
        BY <1>6, <2>6, <2>10, PageGoesOn
      <3> QED BY <2>11, <3>1, PageOKNext
    <2>18. Progress(c)'
      <3>1. \A i \in DOMAIN p.queue : p.queue[i].call = "save" => i = 1
        BY <1>6 DEF PageOK
      <3>2. Current(c)' = call
        BY <1>1, <1>2, <2>10, <2>11 DEF Current
      <3>3. ASSUME NEW i \in inserts \cup updates
            PROVE  InHand(call, i)'
        <4>1. CASE i \in inserts
          BY <2>4, <2>8, <4>1 DEF InHand, RowsAt
        <4>2. CASE i \in updates
          BY <2>4, <2>9, <4>2 DEF InHand
        <4> QED BY <4>1, <4>2
      <3> QED BY <1>3, <1>4, <2>10, <2>11, <3>1, <3>2, <3>3 DEF Progress, Saveable
    <2> QED BY <2>7, <2>11, <2>12, <2>13, <2>14, <2>16, <2>17, <2>18, ImportInvNext
  <1> QED BY <1>10, <1>11, <1>12

-----------------------------------------------------------------------------
(* The updates, the delete-all and the restart                             *)

\* The first call of a page has ended.
Ended(c) ==
    /\ page[c].queue # <<>> /\ page'[c].queue = Tail(page[c].queue) /\ page'[c].pc = "start"
    /\ page'[c] \in Pages /\ Sound(page'[c].shown) /\ Settling(page'[c])

\* No call comes to a page, and no update that is not of a save under way.
LEMMA PagesKeep ==
    ASSUME ImportInv, drawn' \in Drawn, drawn'.save = drawn.save, DeletesCount,
           \A c \in Clients : Ended(c) \/ (page'[c] = page[c] /\ UpdatesBeside(c)),
           \A j \in jobs' : \E h \in jobs : h.save = j.save
    PROVE  SavesApart' /\ \A c \in Clients : PageOK(page[c])' /\ Progress(c)'
  <1>1. ASSUME NEW c \in Clients
        PROVE  PageOK(page[c])' /\ Progress(c)'
    <2>1. PICK p : p = page[c]
      OBVIOUS
    <2>2. PICK f : f = page'[c]
      OBVIOUS
    <2>3. p \in Pages /\ PageOK(p) /\ drawn.save \in Nat /\ drawn'.save \in Nat
      BY <2>1, ImportFacts
    <2>4. CASE Ended(c)
      <3>1. PageOK(f)'
        BY <2>1, <2>2, <2>3, <2>4, PageAnswered DEF Ended
      <3>2. Progress(c)'
        BY <2>4, ProgressShift DEF Ended
      <3> QED BY <2>2, <3>1, <3>2, PageOKNext
    <2>5. CASE page'[c] = page[c] /\ UpdatesBeside(c)
      <3>1. PageOK(f)'
        BY <2>1, <2>2, <2>3, <2>5, PageStays
      <3>2. Progress(c)'
        BY <2>5, ProgressBeside
      <3> QED BY <2>2, <3>1, <3>2, PageOKNext
    <2> QED BY <2>4, <2>5
  <1>2. ASSUME NEW c \in Clients, NEW i \in DOMAIN page'[c].queue
        PROVE  \E k \in DOMAIN page[c].queue : page[c].queue[k] = page'[c].queue[i]
    <2>1. CASE Ended(c)
      <3>1. PICK q : q = page[c].queue
        OBVIOUS
      <3>2. q \in Seq(Calls) /\ q # <<>> /\ page'[c].queue = Tail(q)
        BY <2>1, <3>1, ImportFacts DEF Ended
      <3>3. \A k \in DOMAIN Tail(q) : k + 1 \in DOMAIN q /\ Tail(q)[k] = q[k + 1]
        BY <3>2, QueueTail
      <3> QED BY <1>2, <3>1, <3>2, <3>3
    <2>2. CASE page'[c] = page[c]
      BY <2>2
    <2> QED BY <2>1, <2>2
  <1>3. SavesApart'
    <2>1. CASE Clients = {}
      BY <2>1 DEF SavesApart
    <2>2. CASE Clients # {}
      BY <1>2, <2>2, ApartStays
    <2> QED BY <2>1, <2>2
  <1> QED BY <1>1, <1>3

\* The row found becomes the row the update aims at.
LEMMA JobFindKeeps ==
    ASSUME ImportInv, NEW j \in jobs, NEW r \in RowsAt(db, j.org, j.line.no),
           NEW k, k = [j EXCEPT !.pc = "write", !.id = r.id],
           jobs' = (jobs \ {j}) \cup {k}, UNCHANGED <<db, page, drawn>>
    PROVE  ImportInv'
  <1>1. j \in Updates /\ Aimed(j) /\ r \in db /\ r \in Stored /\ r.org = j.org /\ r.no = j.line.no
    BY ImportFacts DEF RowsAt
  <1>2. /\ k \in Updates /\ k.save = j.save /\ k.org = j.org /\ k.line = j.line
        /\ k.pc = "write" /\ k.id = r.id
    BY <1>1 DEF Updates, Stored
  <1>3. drawn' \in Drawn /\ drawn'.save = drawn.save
    BY ImportFacts DEF Drawn
  <1>4. DeletesCount
    BY DEF DeletesCount, RowsStay
  <1>5. \A h \in jobs' : \E g \in jobs : g.save = h.save
    BY <1>2
  <1>6. \A h \in jobs : \E g \in jobs' : g.save = h.save /\ g.org = h.org /\ g.line.no = h.line.no
    BY <1>2
  <1>7. \A c \in Clients : UpdatesBeside(c)
    BY <1>5, <1>6 DEF UpdatesBeside
  <1>8. SavesApart' /\ \A c \in Clients : PageOK(page[c])' /\ Progress(c)'
    BY <1>3, <1>4, <1>5, <1>7, PagesKeep
  <1>9. \A h \in jobs' : Aimed(h)'
    <2>1. \A h \in jobs : Aimed(h)'
      BY ImportFacts DEF Aimed
    <2>2. Aimed(k)'
      BY <1>1, <1>2, ImportFacts DEF Aimed, Keyed
    <2> QED BY <2>1, <2>2
  <1>10. Shapes'
    BY <1>2, <1>3 DEF ImportInv, Shapes, Drawn
  <1>11. Keyed(db, drawn.row)'
    BY ImportFacts DEF Keyed
  <1> QED BY <1>8, <1>9, <1>10, <1>11, ImportInvNext

\* An update that fails keeps the invariant.
LEMMA RejectKeeps ==
    ASSUME ImportInv, NEW j \in jobs, Reject(j), db' = db, drawn' \in Drawn,
           drawn'.row = drawn.row, drawn'.save = drawn.save, drawn'.delete = drawn.delete
    PROVE  ImportInv'
  <1>1. jobs' = jobs \ {j}
    BY DEF Reject
  <1>2. DeletesCount
    BY DEF DeletesCount, RowsStay
  <1>3. ASSUME NEW c \in Clients
        PROVE  Ended(c) \/ (page'[c] = page[c] /\ UpdatesBeside(c))
    <2>1. page'[c] = IF Saving(c, "update") /\ Current(c).save = j.save
                     THEN SaveFailed(page[c]) ELSE page[c]
      BY DEF Reject
    <2>2. PICK p : p = page[c]
      OBVIOUS
    <2>3. CASE Saving(c, "update") /\ Current(c).save = j.save
      <3>1. /\ p \in Pages /\ PageOK(p) /\ p.queue # <<>> /\ p.queue[1].call = "save"
        BY <2>2, <2>3, ImportFacts, SavingFacts
      <3>2. PICK f : f = SaveFailed(p)
        OBVIOUS
      <3>3. page'[c] = f
        BY <2>1, <2>2, <2>3, <3>2
      <3>4. /\ f \in Pages /\ f.queue = Tail(p.queue) /\ f.pc = "start"
            /\ Sound(f.shown) /\ Settling(f)
        BY <3>1, <3>2, FailedPage
      <3> QED BY <2>2, <3>1, <3>3, <3>4 DEF Ended
    <2>4. CASE ~(Saving(c, "update") /\ Current(c).save = j.save)
      <3>1. ASSUME page[c].pc = "update"
            PROVE  Current(c).save # j.save
        <4>1. Calling(c) /\ page[c].queue[1].call = "save" /\ page[c].queue \in Seq(Calls)
          BY <3>1, ImportFacts DEF PageOK, Calling
        <4>2. Current(c) = page[c].queue[1]
          BY <4>1, QueueTail DEF Current, Calling
        <4> QED BY <2>4, <3>1, <4>1, <4>2 DEF Saving
      <3>2. UpdatesBeside(c)
        BY <1>1, <3>1 DEF UpdatesBeside
      <3> QED BY <2>1, <2>4, <3>2
    <2> QED BY <2>3, <2>4
  <1>4. \A h \in jobs' : \E g \in jobs : g.save = h.save
    BY <1>1
  <1>5. SavesApart' /\ \A c \in Clients : PageOK(page[c])' /\ Progress(c)'
    BY <1>2, <1>3, <1>4, PagesKeep
  <1>6. \A h \in jobs' : Aimed(h)'
    BY <1>1, ImportFacts DEF Aimed
  <1>7. page' \in [Clients -> Pages]
    <2>1. \A c \in Clients : page'[c] \in Pages
      BY <1>3, ImportFacts DEF Ended
    <2>2. page' = [c \in Clients |-> page'[c]]
      BY DEF Reject
    <2> QED BY <2>1, <2>2
  <1>8. Shapes'
    BY <1>1, <1>7 DEF ImportInv, Shapes, Drawn
  <1>9. Keyed(db, drawn.row)'
    BY ImportFacts DEF Keyed
  <1> QED BY <1>5, <1>6, <1>8, <1>9, ImportInvNext

\* Every row of the table keeps its id, organization and number.
LEMMA OverwriteFacts ==
    ASSUME NEW r \in Stored, NEW l \in Line
    PROVE  /\ Overwrite(r, l) \in Stored /\ Overwrite(r, l).id = r.id
           /\ Overwrite(r, l).org = r.org /\ Overwrite(r, l).no = l.no
           /\ Overwrite(r, l).kind = l.kind /\ Overwrite(r, l).hash = Hash(l)
  <1>1. Hash(l) \in [no : STRING, data : STRING, date : {"good", "bad"}, kind : Kinds]
    BY DEF Hash, Line
  <1> QED BY <1>1 DEF Overwrite, Stored, Line

\* What an update does to the rows: one row has the new content, ids and
\* numbers stay.
LEMMA WriteEffect ==
    ASSUME ImportInv, NEW j \in jobs, j.pc = "write",
           db' = {IF r.id = j.id THEN Overwrite(r, j.line) ELSE r : r \in db}
    PROVE  /\ \A s \in db' : /\ s \in Stored /\ s.kind = "typed"
                             /\ \E r \in db : /\ s.id = r.id /\ s.org = r.org /\ s.no = r.no
                                              /\ s = IF r.id = j.id THEN Overwrite(r, j.line) ELSE r
           /\ \A r \in db : \E s \in db' : s.id = r.id /\ s.org = r.org /\ s.no = r.no
  <1>1. ASSUME NEW r \in db, NEW s, s = IF r.id = j.id THEN Overwrite(r, j.line) ELSE r
        PROVE  s \in Stored /\ s.kind = "typed" /\ s.id = r.id /\ s.org = r.org /\ s.no = r.no
    <2>1. r \in Stored /\ r.kind = "typed" /\ j.line \in Line /\ Aimed(j)
      BY ImportFacts DEF Keyed, Updates
    <2>2. CASE r.id = j.id
      <3>1. r.no = j.line.no /\ j.line.kind = "typed"
        BY <2>1, <2>2 DEF Aimed
      <3> QED BY <1>1, <2>1, <2>2, <3>1, OverwriteFacts
    <2>3. CASE r.id # j.id
      BY <1>1, <2>1, <2>3
    <2> QED BY <2>2, <2>3
  <1> QED BY <1>1

\* The write of an update keeps the invariant.
LEMMA JobWriteKeeps ==
    ASSUME ImportInv, NEW j \in jobs, j.pc = "write", NEW r0 \in db, r0.id = j.id,
           db' = {IF r.id = j.id THEN Overwrite(r, j.line) ELSE r : r \in db},
           jobs' = jobs \ {j}, UNCHANGED <<page, drawn>>
    PROVE  ImportInv'
  <1>1. /\ \A s \in db' : s \in Stored /\ s.kind = "typed"
        /\ \A s \in db' : \E r \in db : /\ s.id = r.id /\ s.org = r.org /\ s.no = r.no
                                        /\ s = IF r.id = j.id THEN Overwrite(r, j.line) ELSE r
        /\ \A r \in db : \E s \in db' : s.id = r.id /\ s.org = r.org /\ s.no = r.no
    BY WriteEffect
  <1>2. Keyed(db, drawn.row)'
    <2>1. \A s \in db' : 1 <= s.id /\ s.id <= drawn'.row /\ s.kind = "typed"
      BY <1>1, ImportFacts DEF Keyed
    <2>2. ASSUME NEW s \in db', NEW t \in db', s.id = t.id \/ (s.org = t.org /\ s.no = t.no)
          PROVE  s = t
      <3>1. PICK r \in db : /\ s.id = r.id /\ s.org = r.org /\ s.no = r.no
                            /\ s = IF r.id = j.id THEN Overwrite(r, j.line) ELSE r
        BY <1>1
      <3>2. PICK q \in db : /\ t.id = q.id /\ t.org = q.org /\ t.no = q.no
                            /\ t = IF q.id = j.id THEN Overwrite(q, j.line) ELSE q
        BY <1>1
      <3>3. r = q
        BY <2>2, <3>1, <3>2, ImportFacts DEF Keyed
      <3> QED BY <3>1, <3>2, <3>3
    <2> QED BY <2>1, <2>2 DEF Keyed
  <1>3. drawn' \in Drawn /\ drawn'.save = drawn.save
    BY ImportFacts DEF Drawn
  <1>4. RowsStay
    <2>1. ASSUME NEW org, NEW no, RowsAt(db, org, no) # {}
          PROVE  RowsAt(db', org, no) # {}
      <3>1. PICK r \in db : r.org = org /\ r.no = no
        BY <2>1 DEF RowsAt
      <3>2. PICK s \in db' : s.org = org /\ s.no = no
        BY <1>1, <3>1
      <3> QED BY <3>2 DEF RowsAt
    <2> QED BY <2>1 DEF RowsStay
  <1>5. DeletesCount
    BY <1>4 DEF DeletesCount
  <1>6. RowsAt(db', j.org, j.line.no) # {}
    <2>1. r0.org = j.org /\ r0.no = j.line.no
      BY ImportFacts DEF Aimed
    <2>2. r0 \in RowsAt(db, j.org, j.line.no)
      BY <2>1 DEF RowsAt
    <2> QED BY <1>4, <2>2 DEF RowsStay
  <1>7. \A c \in Clients : UpdatesBeside(c)
    BY <1>6 DEF UpdatesBeside
  <1>8. \A h \in jobs' : \E g \in jobs : g.save = h.save
    OBVIOUS
  <1>9. SavesApart' /\ \A c \in Clients : PageOK(page[c])' /\ Progress(c)'
    BY <1>3, <1>5, <1>7, <1>8, PagesKeep
  <1>10. ASSUME NEW h \in jobs'
         PROVE  Aimed(h)'
    <2>1. Aimed(h)
      BY ImportFacts
    <2>2. ASSUME NEW s \in db', h.pc = "write", s.id = h.id
          PROVE  s.org = h.org /\ s.no = h.line.no
      <3>1. PICK r \in db : s.id = r.id /\ s.org = r.org /\ s.no = r.no
        BY <1>1
      <3> QED BY <2>1, <2>2, <3>1 DEF Aimed
    <2> QED BY <2>1, <2>2 DEF Aimed
  <1>11. Shapes'
    BY <1>1, <1>3 DEF ImportInv, Shapes, Drawn
  <1> QED BY <1>2, <1>9, <1>10, <1>11, ImportInvNext

\* Every step of an update keeps the invariant.
LEMMA RunJobKeeps ==
    ASSUME ImportInv, NEW j \in jobs, RunJob(j) \/ JobFails(j)
    PROVE  ImportInv'
  <1>1. CASE JobFails(j)
    <2>1. drawn' = [drawn EXCEPT !.fault = @ + 1] /\ Reject(j) /\ db' = db
      BY <1>1 DEF JobFails
    <2>2. /\ drawn' \in Drawn /\ drawn'.row = drawn.row /\ drawn'.save = drawn.save
          /\ drawn'.delete = drawn.delete
      BY <2>1, ImportFacts DEF Drawn
    <2> QED BY <2>1, <2>2, RejectKeeps
  <1>2. CASE RunJob(j) /\ Reject(j) /\ db' = db /\ drawn' = drawn
    <2>1. drawn' \in Drawn
      BY <1>2, ImportFacts DEF Drawn
    <2> QED BY <1>2, <2>1, RejectKeeps
  <1>3. CASE JobFind(j) /\ page' = page
    <2>1. CASE Reject(j)
      BY <1>2, <1>3, <2>1 DEF JobFind, RunJob
    <2>2. CASE ~Reject(j)
      <3>1. PICK r \in RowsAt(db, j.org, j.line.no) :
               jobs' = (jobs \ {j}) \cup {[j EXCEPT !.pc = "write", !.id = r.id]}
        BY <1>3, <2>2 DEF JobFind
      <3>2. PICK k : k = [j EXCEPT !.pc = "write", !.id = r.id]
        OBVIOUS
      <3>3. jobs' = (jobs \ {j}) \cup {k} /\ UNCHANGED <<db, page, drawn>>
        BY <1>3, <3>1, <3>2 DEF JobFind
      <3> QED BY <3>2, <3>3, JobFindKeeps
    <2> QED BY <2>1, <2>2
  <1>4. CASE JobWrite(j) /\ ~(Reject(j) /\ db' = db)
    <2>1. /\ j.pc = "write" /\ jobs' = jobs \ {j} /\ UNCHANGED <<page, drawn>>
          /\ db' = {IF r.id = j.id THEN Overwrite(r, j.line) ELSE r : r \in db}
      BY <1>4 DEF JobWrite
    <2>2. PICK r0 \in db : r0.id = j.id
      BY <1>4 DEF JobWrite
    <2> QED BY <2>1, <2>2, JobWriteKeeps
  <1> QED BY <1>1, <1>2, <1>3, <1>4 DEF RunJob, JobFind, JobWrite

\* The deletion of all transactions keeps the invariant.
LEMMA DeleteAllKeeps ==
    ASSUME ImportInv, NEW orgs, DeleteAll(orgs)
    PROVE  ImportInv'
  <1>1. /\ drawn' = [drawn EXCEPT !.delete = @ + 1] /\ UNCHANGED <<page, jobs>>
        /\ \A r \in db' : r \in db
    BY DEF DeleteAll
  <1>2. /\ drawn' \in Drawn /\ drawn'.row = drawn.row /\ drawn'.save = drawn.save
        /\ drawn'.delete # 0
    BY <1>1, ImportFacts DEF Drawn
  <1>3. DeletesCount
    BY <1>2 DEF DeletesCount
  <1>4. \A c \in Clients : UpdatesBeside(c)
    BY <1>1 DEF UpdatesBeside
  <1>5. \A h \in jobs' : \E g \in jobs : g.save = h.save
    BY <1>1
  <1>6. SavesApart' /\ \A c \in Clients : PageOK(page[c])' /\ Progress(c)'
    BY <1>1, <1>2, <1>3, <1>4, <1>5, PagesKeep
  <1>7. \A h \in jobs' : Aimed(h)'
    BY <1>1, <1>2, ImportFacts DEF Aimed
  <1>8. Shapes' /\ Keyed(db, drawn.row)'
    BY <1>1, <1>2 DEF ImportInv, Shapes, Drawn, Keyed
  <1> QED BY <1>6, <1>7, <1>8, ImportInvNext

\* A restart of the server keeps the invariant.
LEMMA RestartKeeps ==
    ASSUME ImportInv, Restart
    PROVE  ImportInv'
  <1>1. /\ drawn' = [drawn EXCEPT !.fault = @ + 1] /\ jobs' = {} /\ db' = db
        /\ page' = [c \in Clients |-> Broken(page[c])]
    BY DEF Restart
  <1>2. /\ drawn' \in Drawn /\ drawn'.row = drawn.row /\ drawn'.save = drawn.save
        /\ drawn'.delete = drawn.delete
    BY <1>1, ImportFacts DEF Drawn
  <1>3. DeletesCount
    BY <1>1, <1>2 DEF DeletesCount, RowsStay
  <1>4. ASSUME NEW c \in Clients
        PROVE  Ended(c) \/ (page'[c] = page[c] /\ UpdatesBeside(c))
    <2>1. PICK p : p = page[c]
      OBVIOUS
    <2>2. PICK f : f = Broken(p)
      OBVIOUS
    <2>3. page'[c] = f /\ p \in Pages /\ PageOK(p)
      BY <1>1, <2>1, <2>2, ImportFacts
    <2>4. CASE p.queue = <<>>
      <3>1. f = p /\ p.pc = "start"
        BY <2>2, <2>3, <2>4 DEF Broken, PageOK
      <3> QED BY <1>1, <2>1, <2>3, <3>1 DEF UpdatesBeside
    <2>5. CASE p.queue # <<>>
      <3>1. /\ f \in Pages /\ f.queue = Tail(p.queue) /\ f.pc = "start"
            /\ Sound(f.shown) /\ Settling(f)
        BY <2>2, <2>3, <2>5, BrokenPage
      <3> QED BY <2>1, <2>3, <2>5, <3>1 DEF Ended
    <2> QED BY <2>4, <2>5
  <1>5. SavesApart' /\ \A c \in Clients : PageOK(page[c])' /\ Progress(c)'
    BY <1>1, <1>2, <1>3, <1>4, PagesKeep
  <1>6. page' \in [Clients -> Pages]
    <2>1. \A c \in Clients : page'[c] \in Pages
      BY <1>4, ImportFacts DEF Ended
    <2> QED BY <1>1, <2>1
  <1>7. Shapes' /\ Keyed(db, drawn.row)' /\ \A h \in jobs' : Aimed(h)'
    BY <1>1, <1>2, <1>6 DEF ImportInv, Shapes, Drawn, Keyed
  <1> QED BY <1>5, <1>7, ImportInvNext

-----------------------------------------------------------------------------
(* The inductive invariant                                                 *)

\* The invariant holds at first.
LEMMA InitKeeps ==
    ASSUME Init
    PROVE  ImportInv
  <1>1. PICK f : f = [org |-> FirstOrg, file |-> NoFile, shown |-> NoPreview,
                      error |-> FALSE, queue |-> <<>>, pc |-> "start"]
    OBVIOUS
  <1>2. page = [c \in Clients |-> f] /\ db = {} /\ jobs = {}
        /\ drawn = [row |-> 0, choice |-> 0, save |-> 0, delete |-> 0, fault |-> 0]
    BY <1>1 DEF Init
  <1>3. DOMAIN <<>> = {} /\ <<>> \in Seq({"invalid", "insert", "skip", "update"}) /\ <<>> \in Seq(Calls)
    OBVIOUS
  <1>4. NoPreview \in Previews /\ Sound(NoPreview)
    <2>1. NoPreview.status = <<>>
      BY DEF NoPreview
    <2>2. NoPreview \in Previews
      BY <1>3 DEF NoPreview, Previews
    <2> QED BY <1>3, <2>1, <2>2 DEF Sound
  <1>5. f \in Pages /\ f.queue = <<>> /\ f.pc = "start" /\ f.shown = NoPreview /\ f.file = NoFile
    BY <1>1, <1>3, <1>4, DataImportAssumption DEF Pages
  <1>6. Shapes
    BY <1>2, <1>5 DEF Shapes
  <1>7. PageOK(f)
    BY <1>3, <1>4, <1>5 DEF PageOK, Settling
  <1>8. \A c \in Clients : page[c] = f
    BY <1>2
  <1>9. \A c \in Clients : Progress(c)
    BY <1>3, <1>5, <1>8 DEF Progress
  <1>10. SavesApart
    BY <1>3, <1>5, <1>8 DEF SavesApart
  <1> QED BY <1>2, <1>6, <1>7, <1>8, <1>9, <1>10 DEF ImportInv, Keyed

\* A step that changes nothing keeps the invariant.
LEMMA StutterKeeps ==
    ASSUME ImportInv, UNCHANGED vars
    PROVE  ImportInv'
  <1>1. UNCHANGED <<db, page, jobs, drawn>>
    BY DEF vars
  <1>2. drawn' \in Drawn /\ drawn'.save = drawn.save /\ DeletesCount
        /\ \A c \in Clients : UpdatesBeside(c)
    BY <1>1, ImportFacts DEF Drawn, DeletesCount, RowsStay, UpdatesBeside
  <1>3. SavesApart' /\ \A c \in Clients : PageOK(page[c])' /\ Progress(c)'
    BY <1>1, <1>2, PagesKeep
  <1>4. Shapes' /\ Keyed(db, drawn.row)' /\ \A j \in jobs' : Aimed(j)'
    BY <1>1 DEF ImportInv, Shapes, Keyed, Aimed
  <1> QED BY <1>3, <1>4, ImportInvNext

\* What the server does for a page.
LEMMA ServeKeeps ==
    ASSUME ImportInv, NEW c \in Clients, Serve(c)
    PROVE  ImportInv'
  BY PreviewAnswerKeeps, SaveInsertKeeps, SaveUpdatedKeeps, SaveRefreshKeeps DEF Serve

\* Every step keeps the invariant.
LEMMA NextKeeps ==
    ASSUME ImportInv, [Next]_vars
    PROVE  ImportInv'
  <1>1. CASE UNCHANGED vars
    BY <1>1, StutterKeeps
  <1>2. ASSUME NEW c \in Clients,
               \/ \E org \in Orgs, file \in Files \cup {NoFile} : Choose(c, org, file)
               \/ Submit(c) \/ Serve(c) \/ CallLost(c)
        PROVE  ImportInv'
    BY <1>2, ChooseKeeps, SubmitKeeps, ServeKeeps, CallLostKeeps
  <1>3. ASSUME NEW j \in jobs, RunJob(j) \/ JobFails(j)
        PROVE  ImportInv'
    BY <1>3, RunJobKeeps
  <1>4. ASSUME NEW orgs, DeleteAll(orgs)
        PROVE  ImportInv'
    BY <1>4, DeleteAllKeeps
  <1>5. CASE Restart
    BY <1>5, RestartKeeps
  <1> QED BY <1>1, <1>2, <1>3, <1>4, <1>5 DEF Next

\* The invariant holds however choices, answers, saves, updates, deletions,
\* broken connections and restarts interleave.
THEOREM ImportInductive == Spec => []ImportInv
  <1>1. Init => ImportInv
    BY InitKeeps
  <1>2. ImportInv /\ [Next]_vars => ImportInv'
    BY NextKeeps
  <1> QED BY <1>1, <1>2, PTL DEF Spec

-----------------------------------------------------------------------------
(* What follows                                                            *)

\* The types follow from the invariant.
LEMMA ImportTypes ==
    ASSUME ImportInv
    PROVE  TypeOK
  <1>1. \A r \in db : r.id \in 1 .. drawn.row /\ r.org \in Orgs /\ r.kind = "typed"
    <2>1. ASSUME NEW r \in db
          PROVE  r.id \in 1 .. drawn.row /\ r.org \in Orgs /\ r.kind = "typed"
      <3>1. r \in Stored /\ 1 <= r.id /\ r.id <= drawn.row /\ r.kind = "typed" /\ drawn.row \in Nat
        BY ImportFacts DEF Keyed
      <3> QED BY <3>1 DEF Stored
    <2> QED BY <2>1
  <1>2. \A r, s \in db : r # s => r.id # s.id /\ <<r.org, r.no>> # <<s.org, s.no>>
    BY ImportFacts DEF Keyed
  <1>3. ASSUME NEW c \in Clients
        PROVE  /\ page[c].org \in Orgs
               /\ page[c].file \in Files \cup {NoFile}
               /\ page[c].pc \in {"start", "update", "refresh"}
               /\ page[c].pc # "start" => Calling(c) /\ Current(c).call = "save"
               /\ \A i \in DOMAIN page[c].queue : page[c].queue[i].call \in {"preview", "save"}
    <2>1. PICK q : q = page[c].queue
      OBVIOUS
    <2>2. q \in Seq(Calls) /\ (page[c].pc # "start" => q # <<>> /\ q[1].call = "save")
      BY <2>1, ImportFacts DEF PageOK
    <2>3. page[c].pc # "start" => Calling(c) /\ Current(c).call = "save"
      BY <2>1, <2>2, QueueTail DEF Calling, Current
    <2>4. \A i \in DOMAIN q : q[i].call \in {"preview", "save"}
      <3>1. \A i \in DOMAIN q : q[i] \in Calls
        BY <2>2
      <3> QED BY <3>1, CallTyped
    <2>5. /\ page[c].org \in Orgs /\ page[c].file \in Files \cup {NoFile}
          /\ page[c].pc \in {"start", "update", "refresh"}
      BY ImportFacts, PageTyped
    <2> QED BY <2>1, <2>3, <2>4, <2>5
  <1>4. \A j \in jobs : j.save \in 1 .. drawn.save /\ j.pc \in {"find", "write"}
    <2>1. ASSUME NEW j \in jobs
          PROVE  j.save \in 1 .. drawn.save /\ j.pc \in {"find", "write"}
      <3>1. j \in Updates /\ 1 <= j.save /\ j.save <= drawn.save /\ drawn.save \in Nat
        BY ImportFacts DEF Aimed
      <3> QED BY <3>1 DEF Updates
    <2> QED BY <2>1
  <1> QED BY <1>1, <1>2, <1>3, <1>4 DEF TypeOK

\* Whatever the saves overlap with, a number stays unique in its organization,
\* no line without a type is stored, and only a save goes on beyond its start.
THEOREM ImportTyped == Spec => []TypeOK
  <1>1. ImportInv => TypeOK
    BY ImportTypes
  <1> QED BY <1>1, ImportInductive, PTL

\* Under the invariant, a page with no call left shows the preview of its
\* choice.
LEMMA SettledWhenQuiet ==
    ASSUME ImportInv
    PROVE  SettledPreviewIsCurrent
  <1>1. ASSUME NEW c \in Clients, NEW p, p = page[c],
               \A i \in DOMAIN p.queue : p.queue[i].call # "preview",
               ~p.error, p.file # NoFile
        PROVE  p.shown.org = p.org /\ p.shown.file = p.file
    BY <1>1, ImportFacts DEF PageOK, Settling
  <1> QED BY <1>1 DEF SettledPreviewIsCurrent

\* What an upload page shows, once its previews are answered and none failed, is
\* the preview of what it has selected: the administrator saves what is shown,
\* for any number of pages, selections and saves.
THEOREM PreviewsSettle == Spec => []SettledPreviewIsCurrent
  <1>1. ImportInv => SettledPreviewIsCurrent
    BY SettledWhenQuiet
  <1> QED BY <1>1, ImportInductive, PTL

\* Under the invariant, what a page calls saved is stored.
LEMMA SavedWhenDone ==
    ASSUME ImportInv
    PROVE  SuccessMeansSaved
  <1>1. ASSUME NEW c \in Clients, Saving(c, "refresh"), NEW call, call = Current(c),
               NEW lines, lines = Saveable(call.preview, "insert") \cup Saveable(call.preview, "update")
        PROVE  /\ \A j \in jobs : j.save # call.save
               /\ drawn.delete = 0 =>
                     \A i \in lines : RowsAt(db, call.org, call.preview.file[i].no) # {}
    <2>1. /\ call = page[c].queue[1] /\ 1 \in DOMAIN page[c].queue
          /\ call.call = "save" /\ page[c].pc = "refresh"
      BY <1>1, SavingFacts
    <2>2. \A j \in jobs : j.save # call.save
      BY <2>1, ImportFacts DEF Progress
    <2>3. drawn.delete = 0 => \A i \in lines : InHand(call, i)
      BY <1>1, <2>1, ImportFacts DEF Progress
    <2> QED BY <2>2, <2>3 DEF InHand
  <1> QED BY <1>1 DEF SuccessMeansSaved

\* A save reports success only after each of its lines was stored: no update of
\* it is left, and none was passed over, for any number of saves at once.
THEOREM SuccessIsSaved == Spec => []SuccessMeansSaved
  <1>1. ImportInv => SuccessMeansSaved
    BY SavedWhenDone
  <1> QED BY <1>1, ImportInductive, PTL

\* After a save, a line with a number, a type and a category has its row.
LEMMA SavedLineFound ==
    ASSUME ImportInv, NEW org \in Orgs, NEW file \in Seq(Line), NEW i \in DOMAIN file,
           \A k, m \in DOMAIN file : k # m => file[k].no # file[m].no,
           file[i].kind = "typed", file[i].tagged, file[i].no # NoNumber
    PROVE  \E r \in RowsAt(AfterSave(org, file), org, file[i].no) : r.hash = Hash(file[i])
  <1>1. PICK preview : preview = Preview(db, org, file)
    OBVIOUS
  <1>2. PICK updates : updates = Saveable(preview, "update")
    OBVIOUS
  <1>3. PICK inserts : inserts = Saveable(preview, "insert")
    OBVIOUS
  <1> DEFINE changed(r) == {k \in updates : r.org = org /\ r.no = file[k].no}
             kept == {IF changed(r) = {} THEN r ELSE Overwrite(r, file[CHOOSE k \in changed(r) : TRUE])
                         : r \in db}
  <1>4. AfterSave(org, file) = kept \cup InsertedRows(org, file, inserts, drawn.row)
    BY <1>1, <1>2, <1>3 DEF AfterSave
  <1>5. /\ DOMAIN preview.status = DOMAIN file /\ preview.file = file
        /\ \A k \in DOMAIN file : preview.status[k] = Classify(db, org, file[k])
    BY <1>1 DEF Preview
  <1>6. \A k \in DOMAIN file :
           /\ k \in updates <=> Classify(db, org, file[k]) = "update" /\ file[k].kind # "untyped"
           /\ k \in inserts <=> Classify(db, org, file[k]) = "insert" /\ file[k].kind # "untyped"
    BY <1>2, <1>3, <1>5 DEF Saveable
  <1>7. updates \subseteq DOMAIN file
    BY <1>2, <1>5 DEF Saveable
  <1>8. CASE RowsAt(db, org, file[i].no) = {}
    <2>1. i \in inserts
      BY <1>6, <1>8 DEF Classify, Existing
    <2>2. PICK n : n = drawn.row + Cardinality({j \in inserts : j <= i})
      OBVIOUS
    <2>3. Row(n, org, file[i]) \in InsertedRows(org, file, inserts, drawn.row)
      BY <2>1, <2>2 DEF InsertedRows
    <2>4. Row(n, org, file[i]).org = org /\ Row(n, org, file[i]).no = file[i].no
          /\ Row(n, org, file[i]).hash = Hash(file[i])
      BY DEF Row
    <2> QED BY <1>4, <2>3, <2>4 DEF RowsAt
  <1>9. CASE \E r \in RowsAt(db, org, file[i].no) : r.hash = Hash(file[i])
    <2>1. PICK r \in db : r.org = org /\ r.no = file[i].no /\ r.hash = Hash(file[i])
      BY <1>9 DEF RowsAt
    <2>2. i \notin updates
      BY <1>6, <1>9 DEF Classify, Existing
    <2>3. changed(r) = {}
      BY <1>7, <2>1, <2>2
    <2>4. r \in kept
      BY <2>3
    <2> QED BY <1>4, <2>1, <2>4 DEF RowsAt
  <1>10. CASE RowsAt(db, org, file[i].no) # {}
              /\ ~ \E r \in RowsAt(db, org, file[i].no) : r.hash = Hash(file[i])
    <2>1. PICK r \in db : r.org = org /\ r.no = file[i].no
      BY <1>10 DEF RowsAt
    <2>2. i \in updates
      BY <1>6, <1>10 DEF Classify, Existing
    <2>3. changed(r) = {i}
      BY <1>7, <2>1, <2>2
    <2>4. (CHOOSE k \in changed(r) : TRUE) = i
      BY <2>3
    <2>5. Overwrite(r, file[i]) \in kept
      BY <2>3, <2>4
    <2>6. r \in Stored /\ file[i] \in Line
      BY ImportFacts
    <2>7. Overwrite(r, file[i]).org = org /\ Overwrite(r, file[i]).no = file[i].no
          /\ Overwrite(r, file[i]).hash = Hash(file[i])
      BY <2>1, <2>6, OverwriteFacts
    <2> QED BY <1>4, <2>5, <2>7 DEF RowsAt
  <1> QED BY <1>8, <1>9, <1>10

\* The UNIQUE key refuses a preview whose numbers differ only for a line without
\* a number, which was looked for nowhere.
LEMMA RefusedForBlank ==
    ASSUME NEW org, NEW file \in Seq(Line),
           \A i, j \in DOMAIN file : i # j => file[i].no # file[j].no,
           Conflict(org, file, Saveable(Preview(db, org, file), "insert"))
    PROVE  RowsAt(db, org, NoNumber) # {} /\ \E i \in DOMAIN file : file[i].no = NoNumber
  <1>1. PICK inserts : inserts = Saveable(Preview(db, org, file), "insert")
    OBVIOUS
  <1>2. \A i \in inserts : i \in DOMAIN file /\ Classify(db, org, file[i]) = "insert"
    BY <1>1 DEF Saveable, Preview
  <1>3. PICK i \in inserts : RowsAt(db, org, file[i].no) # {}
    BY <1>1, <1>2 DEF Conflict
  <1>4. Existing(db, org, file[i].no) = {}
    BY <1>2, <1>3 DEF Classify
  <1> QED BY <1>2, <1>3, <1>4 DEF Existing

\* Under the invariant, a file that was saved has nothing left but what no save
\* stores and what no preview finds.
LEMMA NothingLeft ==
    ASSUME ImportInv
    PROVE  ReimportHasNothingLeft
  <1>1. \A file \in Files \cup Excerpts : file \in Seq(Line)
    <2>1. \A line \in Lines : line \in Line
      BY DataImportAssumption DEF Lines, Range
    <2>2. \A line, last \in Line : <<line>> \in Seq(Line) /\ <<line, last>> \in Seq(Line)
      OBVIOUS
    <2>3. \A file \in Excerpts : \E line, last \in Lines : file = <<line>> \/ file = <<line, last>>
      BY DEF Excerpts
    <2>4. \A file \in Excerpts : file \in Seq(Line)
      BY <2>1, <2>2, <2>3
    <2> QED BY <2>4, DataImportAssumption
  <1>2. ASSUME NEW org \in Orgs, NEW file \in Seq(Line), NEW i \in DOMAIN file,
               \A k, m \in DOMAIN file : k # m => file[k].no # file[m].no,
               Classify(AfterSave(org, file), org, file[i]) \in {"insert", "update"}
        PROVE  file[i].kind = "untyped" \/ file[i].no = NoNumber
    <2>1. file[i].kind # "unlisted" /\ file[i].tagged
      BY <1>2 DEF Classify
    <2>2. file[i].kind \in Kinds
      <3>1. file[i] \in Line
        OBVIOUS
      <3> QED BY <3>1 DEF Line
    <2>3. ASSUME file[i].kind = "typed", file[i].no # NoNumber
          PROVE  FALSE
      <3>1. \E r \in RowsAt(AfterSave(org, file), org, file[i].no) : r.hash = Hash(file[i])
        BY <1>2, <2>1, <2>3, SavedLineFound
      <3> QED BY <1>2, <2>3, <3>1 DEF Classify, Existing
    <2> QED BY <2>1, <2>2, <2>3 DEF Kinds
  <1>3. ASSUME NEW org \in Orgs, NEW file \in Files \cup Excerpts,
               \A i, j \in DOMAIN file : i # j => file[i].no # file[j].no
        PROVE  IF Conflict(org, file, Saveable(Preview(db, org, file), "insert"))
               THEN /\ RowsAt(db, org, NoNumber) # {}
                    /\ \E i \in DOMAIN file : file[i].no = NoNumber
               ELSE LET rows == AfterSave(org, file)
                    IN  \A i \in DOMAIN file :
                           Classify(rows, org, file[i]) \in {"insert", "update"}
                           => file[i].kind = "untyped" \/ file[i].no = NoNumber
    <2>1. file \in Seq(Line)
      BY <1>1
    <2> QED BY <1>2, <1>3, <2>1, RefusedForBlank
  <1> QED BY <1>3 DEF ReimportHasNothingLeft

\* Importing a file again finds nothing to do but its lines without a type or a
\* number, from every database the pages can reach and for every file whose numbers
\* differ; and the UNIQUE key refuses its save only over a stored line without a
\* number.
THEOREM ReimportsIdle == Spec => []ReimportHasNothingLeft
  <1>1. ImportInv => ReimportHasNothingLeft
    BY NothingLeft
  <1> QED BY <1>1, ImportInductive, PTL

\* Under the invariant, every row with an id drawn before the step was there
\* before it.
LEMMA NoRowReturns ==
    ASSUME ImportInv, [Next]_vars
    PROVE  \A s \in db' : s.id <= drawn.row => \E r \in db : r.id = s.id /\ r.org = s.org
  <1>1. CASE db' \subseteq db
    BY <1>1
  <1>2. ASSUME NEW c \in Clients, SaveInsert(c), db' # db
        PROVE  \A s \in db' : s.id <= drawn.row => \E r \in db : r.id = s.id /\ r.org = s.org
    <2>1. PICK call : call = Current(c)
      OBVIOUS
    <2>2. PICK inserts : inserts = Saveable(call.preview, "insert")
      OBVIOUS
    <2>3. PICK file : file = call.preview.file
      OBVIOUS
    <2>4. db' = db \cup InsertedRows(call.org, file, inserts, drawn.row)
      BY <1>2, <2>1, <2>2, <2>3 DEF SaveInsert
    <2>5. call.org \in Orgs /\ call.preview \in Previews /\ Sound(call.preview)
      BY <1>2, <2>1, SavingFacts DEF SaveInsert
    <2>6. /\ inserts \in SUBSET Nat /\ IsFiniteSet(inserts)
          /\ \A i \in inserts : file[i] \in Line /\ file[i].kind = "typed"
      BY <2>2, <2>3, <2>5, SaveableFacts
    <2>7. PICK org \in Orgs : org = call.org
      BY <2>5
    <2>8. PICK last \in Nat : last = drawn.row
      BY ImportFacts
    <2>9. PICK rows : rows = InsertedRows(org, file, inserts, last)
      OBVIOUS
    <2>10. \A r \in rows : \E i \in inserts : NewRow(r, i, org, file, inserts, last)
      BY <2>6, <2>9, InsertedFacts
    <2>11. \A r \in rows : r.id \in Nat /\ drawn.row < r.id
      BY <2>8, <2>10 DEF NewRow
    <2>12. db' = db \cup rows
      BY <2>4, <2>7, <2>8, <2>9
    <2> QED BY <2>8, <2>11, <2>12
  <1>3. ASSUME NEW j \in jobs, JobWrite(j), db' # db
        PROVE  \A s \in db' : s.id <= drawn.row => \E r \in db : r.id = s.id /\ r.org = s.org
    <2>1. j.pc = "write" /\ db' = {IF r.id = j.id THEN Overwrite(r, j.line) ELSE r : r \in db}
      BY <1>3 DEF JobWrite
    <2> QED BY <2>1, WriteEffect
  <1>4. ASSUME NEW orgs, DeleteAll(orgs)
        PROVE  db' \subseteq db
    BY <1>4 DEF DeleteAll
  <1>5. ASSUME NEW c \in Clients,
               \/ \E org \in Orgs, file \in Files \cup {NoFile} : Choose(c, org, file)
               \/ Submit(c) \/ Serve(c) \/ CallLost(c)
        PROVE  db' = db \/ SaveInsert(c)
    BY <1>5 DEF Choose, Submit, Serve, CallLost, PreviewAnswer, SaveUpdated, SaveRefresh
  <1>6. ASSUME NEW j \in jobs, RunJob(j) \/ JobFails(j)
        PROVE  db' = db \/ JobWrite(j)
    BY <1>6 DEF RunJob, JobFind, JobFails
  <1>7. CASE Restart \/ UNCHANGED vars
    BY <1>1, <1>7 DEF Restart, vars
  <1> QED BY <1>1, <1>2, <1>3, <1>4, <1>5, <1>6, <1>7 DEF Next

\* A deleted row does not come back: an update that found it before writes
\* nothing, and what a step adds has a new id.
THEOREM DeletedStayDeleted == Spec => DeletedRowsStayDeleted
  <1>1. ImportInv /\ [Next]_vars =>
           [\A s \in db' : s.id <= drawn.row => \E r \in db : r.id = s.id /\ r.org = s.org]_vars
    BY NoRowReturns
  <1> QED BY <1>1, ImportInductive, PTL DEF Spec, DeletedRowsStayDeleted

==============================================================================
