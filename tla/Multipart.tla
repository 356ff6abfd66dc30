------------------------------- MODULE Multipart -------------------------------
(***************************************************************************)
(* Uploads: the streaming parser of multipart/form-data, cut by the        *)
(* network where it likes, the reader that puts the parts where they       *)
(* belong, and uploads into one directory at the same time.                *)
(*                                                                         *)
(* A byte is one of the few that the parsers tell apart, or any other      *)
(* string.  A text of the headers which is compared byte by byte, and in   *)
(* which no delimiter can begin, is one byte.                              *)
(***************************************************************************)
EXTENDS Integers, SequencesExt, FiniteSets

CONSTANTS
    Uploads,      \* the requests
    Forms,        \* what each may send: sequences of parts
    Chunks,       \* and how many bytes of it may come at once
    FileNames,    \* the names of the files in the directory
    Bytes,        \* what may be sent, byte by byte
    Absent        \* no file

CR == "CR"
LF == "LF"
Dash == "-"
Boundary == "boundary"
Quote == "quote"
Semicolon == ";"

Disposition == "Disposition"
Filename == "Filename"
Type == "Type"
Plain == "text"

VARIABLES
    files,        \* what each file of the directory has in it
    dir,          \* whether the directory exists
    upload,       \* each request, with its reader
    crashed       \* the program has ended

vars == <<files, dir, upload, crashed>>

-----------------------------------------------------------------------------
(* What a client sends.  A part is a name, a file name or << >>, and a     *)
(* content. *)

IsFile(part) == part.file # << >>

EncodedPart(part) ==
    <<Disposition, part.name, Quote>>
    \o (IF IsFile(part) THEN <<Semicolon, Filename>> \o part.file \o <<Quote, CR, LF, Type, Plain>>
        ELSE << >>)
    \o <<CR, LF, CR, LF>> \o part.content

(* A delimiter: the line that every part begins behind, and that every     *)
(* part, once it has begun, ends at. *)
Preamble == <<Dash, Dash, Boundary, CR, LF>>

Encapsulation == <<CR, LF, Dash, Dash, Boundary>>

(* The request up to the delimiter behind its i-th part. *)
Upto(form) ==
    LET upto[i \in 0 .. Len(form)] ==
            IF i = 0 THEN Preamble
            ELSE upto[i - 1] \o (IF i = 1 THEN << >> ELSE <<CR, LF>>)
                             \o EncodedPart(form[i]) \o Encapsulation
    IN  upto

Encoded(form) == Upto(form)[Len(form)] \o <<Dash, Dash, CR, LF>>

AllForms == UNION {Forms[u] : u \in Uploads}

Sent == [form \in AllForms |-> Encoded(form)]

(* A form has a part or more, no two of them files of the same name.  A    *)
(* name that is quoted has no quote in it, and no part has the delimiter   *)
(* in it: a client chooses a boundary that none of them has. *)
Parts == [name : Bytes \ {Quote}, file : FileNames \cup {<< >>}, content : Seq(Bytes)]

Delimited(bytes) ==
    \E i \in 0 .. Len(bytes) - Len(Encapsulation) :
        \A j \in 1 .. Len(Encapsulation) : bytes[i + j] = Encapsulation[j]

WellFormed(form) ==
    /\ form \in Seq(Parts) /\ form # << >>
    /\ \A i, j \in 1 .. Len(form) : IsFile(form[i]) /\ form[i].file = form[j].file => i = j
    /\ \A i \in 1 .. Len(form) : ~Delimited(EncodedPart(form[i]))

ASSUME MultipartAssumption ==
    /\ {CR, LF, Dash, Boundary, Quote, Semicolon, Disposition, Filename, Type, Plain} \subseteq Bytes
    /\ FileNames \subseteq Seq(Bytes \ {Quote}) \ {<< >>}
    /\ Absent \notin Seq(Bytes \cup {"hole"})
    /\ \A u \in Uploads : Chunks[u] \subseteq Nat
    /\ \A form \in AllForms : WellFormed(form)

-----------------------------------------------------------------------------
(* knuth_morris_pratt_searcher *)

(* build_table: how much of the pattern still fits when it stops fitting.  *)
Table(pattern) ==
    LET table[pos \in 0 .. Len(pattern) - 1] ==
            IF pos = 0 THEN -1
            ELSE IF pos = 1 THEN 0
            ELSE LET condition[n \in 0 .. pos - 1] ==
                         IF pattern[pos] = pattern[n + 1] THEN n + 1
                         ELSE IF n > 0 THEN condition[table[n]]
                         ELSE 0
                 IN  condition[table[pos - 1]]
    IN  table

TableOf == [pattern \in {Preamble, Encapsulation} |-> Table(pattern)]

(* variant: a byte that does not fit is not tried again *)
StartsAnew(pattern, matched, c) ==
    IF pattern[matched + 1] = c THEN matched + 1 ELSE 0

(* partial_search: how much fits after one more byte *)
Search(pattern, matched, c) ==
    LET fits[i \in 0 .. matched] ==
            IF pattern[i + 1] = c THEN i + 1
            ELSE IF TableOf[pattern][i] > -1 THEN fits[TableOf[pattern][i]]
            ELSE 0
    IN  fits[matched]

-----------------------------------------------------------------------------
(* multipart_stream_parser: how many bytes are settled by one more byte,   *)
(* and whether a message begins or ends.                                   *)

Step(state, matched, advance, event) ==
    [state |-> state, matched |-> matched, advance |-> advance, event |-> event]

Bad == Step("error", 0, 0, "error")

Delimiter(state) == IF state = "preamble" THEN Preamble ELSE Encapsulation

(* tr_check, in the states preamble, first_message and encapsulation: n    *)
(* bytes of the delimiter have now been met *)
Check(state, matched, n) ==
    IF n < Len(Delimiter(state)) THEN Step(state, n, matched + 1 - n, "none")
    ELSE IF state = "preamble" THEN Step("first_message", 0, n, "message_begin")
    ELSE Step("maybe_end_or_encapsulation", 0, n, "message_end")

HandleChar(p, c) ==
    CASE p.state = "maybe_end_or_encapsulation" ->
            IF c = Dash THEN Step("maybe_end", 0, 0, "none")
            ELSE IF c = CR THEN Step("maybe_encapsulation", 0, 0, "none")
            ELSE Bad
      [] p.state = "maybe_end" ->
            IF c = Dash THEN Step("epilogue", 0, 2, "none") ELSE Bad
      [] p.state = "maybe_encapsulation" ->
            IF c = LF THEN Step("encapsulation", 0, 2, "message_begin") ELSE Bad
      [] p.state = "epilogue" -> Step("epilogue", 0, 1, "none")
      [] OTHER -> Check(p.state, p.matched, Search(Delimiter(p.state), p.matched, c))

-----------------------------------------------------------------------------
(* message_stream_parser: the headers of a part.  A text is compared up to *)
(* its i-th byte. *)

Text == [content_disposition |-> <<Disposition>>,
         filename |-> <<Filename>>,
         content_type |-> <<CR, LF, Type>>,
         pre_body |-> <<CR, LF, CR, LF>>]

AfterText == [content_disposition |-> <<"name", "begin_name">>,
              filename |-> <<"filename_body", "begin_filename">>,
              content_type |-> <<"content_type_body", "none">>,
              pre_body |-> <<"body", "begin_body">>]

At(state, i) == [state |-> state, i |-> i, event |-> "none"]

Go(state, event) == [state |-> state, i |-> 1, event |-> event]

Compare(h, c) ==
    IF c # Text[h.state][h.i] THEN [h EXCEPT !.event = "error"]
    ELSE IF h.i < Len(Text[h.state]) THEN At(h.state, h.i + 1)
    ELSE Go(AfterText[h.state][1], AfterText[h.state][2])

(* variant: the CR that ends a header is expected once more *)
HandleMessageCharTwice(h, c) ==
    CASE h.state \in DOMAIN Text -> Compare(h, c)
      [] h.state = "name" /\ c = Quote -> Go("maybe_filename", "end_name")
      [] h.state = "maybe_filename" /\ c = Semicolon -> At("filename", 1)
      [] h.state = "maybe_filename" /\ c = CR -> At("pre_body", 1)
      [] h.state = "maybe_filename" /\ c \notin {Semicolon, CR} -> [h EXCEPT !.event = "error"]
      [] h.state = "filename_body" /\ c = Quote -> Go("content_type", "end_filename")
      [] h.state = "content_type_body" /\ c = CR -> At("pre_body", 1)
      [] OTHER -> At(h.state, 1)

HandleMessageChar(h, c) ==
    CASE h.state \in DOMAIN Text -> Compare(h, c)
      [] h.state = "name" /\ c = Quote -> Go("maybe_filename", "end_name")
      [] h.state = "maybe_filename" /\ c = Semicolon -> At("filename", 1)
      [] h.state = "maybe_filename" /\ c = CR -> At("pre_body", 2)
      [] h.state = "maybe_filename" /\ c \notin {Semicolon, CR} -> [h EXCEPT !.event = "error"]
      [] h.state = "filename_body" /\ c = Quote -> Go("content_type", "end_filename")
      [] h.state = "content_type_body" /\ c = CR -> At("pre_body", 2)
      [] OTHER -> At(h.state, 1)

FirstHeader == At("content_disposition", 1)

-----------------------------------------------------------------------------
(* basic_multipart_form_body::reader.  A put in progress is a record w: the *)
(* upload up, the files, the bytes view (what was pending and what came),  *)
(* the first that is not settled (at), the first of the part that is not   *)
(* written (from), the files that it made or emptied (opened), what the    *)
(* disk does in this put (works), and whether there was an error. *)

(* Whether it takes what is written, and lets a file be closed, and the    *)
(* files that it opens: others are directories, or may not be written, or  *)
(* there is no room.                                                       *)
Works == [writes : BOOLEAN, closes : BOOLEAN, opens : SUBSET FileNames]

AllWorks == [writes |-> TRUE, closes |-> TRUE, opens |-> FileNames]

(* No error comes from the disk.  Any other comes then as well. *)
Serves(works) == works.closes /\ works.opens = FileNames

Fresh(status, form, mode) ==
    [status |-> status,
     form |-> form,
     mode |-> mode,
     sent |-> 0,           \* how much has come
     parser |-> [state |-> "preamble", matched |-> 0],
     message |-> FALSE,
     header |-> FirstHeader,
     state |-> "name",
     is_writable |-> FALSE,
     name |-> << >>,
     values |-> << >>,     \* values_, the last is current_content_
     file |-> Absent,      \* the name under which current_file_ is open
     offset |-> 0,         \* how much has been written to it
     pending |-> << >>,    \* pending_buffer_
     stale |-> FALSE,      \* a put has left some of it, and copied it wrong
     torn |-> FALSE,       \* what was copied wrong was part of a message
     short |-> FALSE,      \* the disk did not take something
     wrote |-> {},         \* the files that were made or emptied
     crossed |-> FALSE]    \* and that others have replaced or removed

Extended(data, offset, bytes) ==
    [i \in 1 .. (IF Len(data) > offset + Len(bytes) THEN Len(data) ELSE offset + Len(bytes)) |->
        IF i > offset /\ i <= offset + Len(bytes) THEN bytes[i - offset]
        ELSE IF i <= Len(data) THEN data[i]
        ELSE "hole"]

WriteFile(w, bytes) ==
    IF w.up.file = Absent \/ bytes = << >> THEN w
    ELSE IF ~w.works.writes THEN [w EXCEPT !.up.short = TRUE]
    ELSE [w EXCEPT !.files[w.up.file] = Extended(@, w.up.offset, bytes),
                   !.up.offset = @ + Len(bytes)]

Content(w) == w.up.values[Len(w.up.values)].content

WritePart(w) ==
    LET bytes == SubSeq(w.view, w.from, w.at - 1)
        w1 == [w EXCEPT !.from = w.at]
    IN  CASE w.up.state = "name" -> [w1 EXCEPT !.up.name = @ \o bytes]
          [] w.up.state \in {"filename", "content"} ->
                [w1 EXCEPT !.up.values[Len(w.up.values)].content = @ \o bytes]
          [] w.up.state = "file" -> WriteFile(w1, bytes)

Emplace(w, is_file) ==
    [w EXCEPT !.up.values = Append(@, [name |-> w.up.name, is_file |-> is_file,
                                       written |-> TRUE, content |-> << >>]),
              !.up.name = << >>]

(* What a part is put into begins behind the byte that is being looked at. *)
BeginPart(w) == [w EXCEPT !.up.is_writable = TRUE, !.from = w.at + 1]

EndPart(w) == [WritePart(w) EXCEPT !.up.is_writable = FALSE]

(* Not written: the mode says the file must be new, and it is not, or that *)
(* it must be there, and it is not, or that nothing is written.            *)
Refused(w, f) ==
    \/ w.up.mode = "ignore"
    \/ w.up.mode = "replace" /\ w.files[f] = Absent
    \/ w.up.mode = "add" /\ w.files[f] # Absent

(* variant: an add does not look whether the file is there *)
OpenAnyway(w, f) ==
    IF w.up.mode = "ignore" THEN [w EXCEPT !.up.values[Len(w.up.values)].written = FALSE]
    ELSE IF ~dir \/ f \notin w.works.opens THEN [w EXCEPT !.error = TRUE]
    ELSE [w EXCEPT !.files[f] = << >>, !.up.file = f, !.up.offset = 0,
                   !.up.wrote = @ \cup {f}, !.opened = @ \cup {f}]

(* The file is made, or emptied, or can not be opened. *)
Open(w, f) ==
    IF Refused(w, f) THEN [w EXCEPT !.up.values[Len(w.up.values)].written = FALSE]
    ELSE IF ~dir \/ f \notin w.works.opens THEN [w EXCEPT !.error = TRUE]
    ELSE [w EXCEPT !.files[f] = << >>, !.up.file = f, !.up.offset = 0,
                   !.up.wrote = @ \cup {f}, !.opened = @ \cup {f}]

EndFilename(w) == [Open(w, Content(w)) EXCEPT !.up.state = "file"]

(* The end of a body: a file that was opened is closed. *)
EndBody(w) ==
    LET open == w.up.state = "file" /\ w.up.values[Len(w.up.values)].written
    IN  [EndPart(w) EXCEPT !.error = @ \/ (open /\ ~w.works.closes),
                           !.up.file = Absent, !.up.state = "name"]

(* message_part_event *)
PartEvent(w, event) ==
    CASE event = "begin_name" -> BeginPart(w)
      [] event = "end_name" -> [EndPart(w) EXCEPT !.up.state = "content"]
      [] event = "begin_filename" -> BeginPart([Emplace(w, TRUE) EXCEPT !.up.state = "filename"])
      [] event = "end_filename" -> EndFilename(EndPart(w))
      [] event = "begin_body" ->
            BeginPart(IF w.up.state = "content" THEN Emplace(w, FALSE) ELSE w)
      [] event = "end_body" -> EndBody(w)
      [] event = "error" -> [w EXCEPT !.error = TRUE]
      [] event = "none" -> w

(* handle_message_end: a part that ends within its headers is an error,    *)
(* which is lost on the way. *)
EndMessage(w) ==
    LET w1 == [w EXCEPT !.up.message = FALSE]
    IN  IF w.up.header.state # "body" THEN w1
        ELSE PartEvent([w1 EXCEPT !.up.header = FirstHeader], "end_body")

(* advance: bytes are settled, those of a message are looked at. *)
Looked(w, h) ==
    PartEvent([w EXCEPT !.up.header = h,
                        !.up.torn = @ \/ (w.up.stale /\ w.at <= Len(w.up.pending))],
              h.event)

Settle(w) ==
    [(IF w.up.message THEN Looked(w, HandleMessageChar(w.up.header, w.view[w.at])) ELSE w)
        EXCEPT !.at = @ + 1]

Advance(w, n) ==
    LET settled[i \in 0 .. n] == IF i = 0 THEN w ELSE Settle(settled[i - 1])
    IN  settled[n]

(* on_parser_event, before or after the bytes are settled. *)
Handled(w, p) ==
    CASE p.event = "error" -> [w EXCEPT !.error = TRUE]
      [] p.event = "message_begin" -> [Advance(w, p.advance) EXCEPT !.up.message = TRUE]
      [] p.event = "message_end" -> Advance(EndMessage(w), p.advance)
      [] p.event = "none" -> Advance(w, p.advance)

Stepped(w, p) ==
    Handled([w EXCEPT !.up.parser = [state |-> p.state, matched |-> p.matched]], p)

Byte(w, c) == IF w.error THEN w ELSE Stepped(w, HandleChar(w.up.parser, c))

-----------------------------------------------------------------------------
(* put, up to the end of its bytes: what is left of a part is written, and *)
(* an error of that is forgotten. *)
Begun(u, n, works) ==
    LET up == upload[u]
    IN  [up |-> up, files |-> files, works |-> works, error |-> FALSE, opened |-> {},
         at |-> 1, from |-> 1, view |-> up.pending \o SubSeq(Sent[up.form], up.sent + 1, up.sent + n)]

Parsed(w, n) ==
    LET old == Len(w.up.pending)
        parsed[i \in 0 .. n] == IF i = 0 THEN w ELSE Byte(parsed[i - 1], w.view[old + i])
        flushed(w1) == IF w1.up.is_writable /\ ~w1.error THEN WritePart(w1) ELSE w1
    IN  flushed(parsed[n])

(* The end of put: bytes that are not settled are kept for the next one.   *)
(* If all that came belongs to a delimiter that began before, the first    *)
(* bytes of that are kept in place of those that came.                     *)
Pending(w, n) ==
    LET parsed == w.at - 1
        kept == SubSeq(w.up.pending, parsed + 1, Len(w.up.pending))
    IN  IF kept = << >> THEN SubSeq(w.view, w.at, Len(w.view))
        ELSE kept \o SubSeq(w.view, w.at, parsed + n)

Kept(w, n) ==
    [w.up EXCEPT !.pending = Pending(w, n),
                 !.stale = w.at <= Len(w.up.pending),
                 !.sent = @ + n]

Ended(up, status) ==
    [Fresh(status, up.form, up.mode) EXCEPT !.values = up.values, !.torn = up.torn,
        !.short = up.short, !.wrote = up.wrote, !.crossed = up.crossed]

(* A file that one upload replaces while another writes it, or after.      *)
Crossing(u, opened) ==
    [v \in Uploads |->
        v # u /\ upload[u].mode = "replace" /\ opened \cap upload[v].wrote # {}]

Meets(u, opened) == \E v \in Uploads \ {u} : upload[v].file \in opened

Receives(u, n) ==
    /\ ~crashed
    /\ upload[u].status = "reading"
    /\ upload[u].sent + n <= Len(Sent[upload[u].form])

Crossed(u, up, opened) ==
    [v \in Uploads |->
        IF v = u THEN [up EXCEPT !.crossed = @ \/ Meets(u, opened)]
        ELSE [upload[v] EXCEPT !.crossed = @ \/ Crossing(u, opened)[v]]]

(* An error in a put, which the disk may have caused or not. *)
Failure(works) == IF Serves(works) THEN "dropped" ELSE "disk_failed"

Put(u, n, works) ==
    /\ Receives(u, n)
    /\ \E w \in {Parsed(Begun(u, n, works), n)} :
          /\ files' = w.files
          /\ upload' = Crossed(u, IF w.error THEN Ended(w.up, Failure(works)) ELSE Kept(w, n), w.opened)
    /\ UNCHANGED <<dir, crashed>>

(* The program may end: init asserts that the directory is still there;    *)
(* and at the end of a put which comes to its end in the name of a part,   *)
(* write_part looks at a buffer behind the last.                           *)
Dies(u, n) ==
    /\ Receives(u, n)
    /\ \/ upload[u].sent = 0 /\ ~dir /\ upload[u].mode # "ignore"
       \/ \E w \in {Parsed(Begun(u, n, AllWorks), n)} :
             /\ ~w.error /\ w.up.is_writable /\ w.up.state = "name"
             /\ w.at > Len(w.view)
    /\ crashed' = TRUE
    /\ UNCHANGED <<files, dir, upload>>

-----------------------------------------------------------------------------
(* multipart_form_handler *)

(* upload and replace, once the header is read and the rights are checked. *)
Start(u, form, mode) ==
    /\ ~crashed
    /\ upload[u].status = "none"
    /\ upload' = [upload EXCEPT ![u] = Fresh("reading", form, IF dir THEN mode ELSE "ignore")]
    /\ UNCHANGED <<files, dir, crashed>>

Unwritten(up) == \E i \in 1 .. Len(up.values) : ~up.values[i].written

(* handle_body *)
Status(up) ==
    IF ~Unwritten(up) \/ up.mode = "ignore" THEN "ok"
    ELSE IF up.mode = "add" THEN "conflict" ELSE "not_found"

(* All has come: finish, and the answer. *)
Answer(u) ==
    /\ ~crashed
    /\ upload[u].status = "reading"
    /\ upload[u].sent = Len(Sent[upload[u].form])
    /\ LET status == IF upload[u].state = "name" THEN Status(upload[u]) ELSE "dropped"
       IN  upload' = [upload EXCEPT ![u] = Ended(@, status)]
    /\ UNCHANGED <<files, dir, crashed>>

(* The peer goes away, or the timer closes the socket.                     *)
BreaksOff(u) ==
    /\ ~crashed
    /\ upload[u].status = "reading"
    /\ upload' = [upload EXCEPT ![u] = Ended(@, "broken_off")]
    /\ UNCHANGED <<files, dir, crashed>>

-----------------------------------------------------------------------------
(* The handlers of module Projects, and others. *)

Lost(up, fs) ==
    [up EXCEPT !.file = IF @ \in fs THEN Absent ELSE @,
               !.crossed = @ \/ up.wrote \cap fs # {}]

Removed(f) ==
    /\ ~crashed
    /\ files[f] # Absent
    /\ files' = [files EXCEPT ![f] = Absent]
    /\ upload' = [u \in Uploads |-> Lost(upload[u], {f})]
    /\ UNCHANGED <<dir, crashed>>

DirectoryRemoved ==
    /\ ~crashed
    /\ dir
    /\ dir' = FALSE
    /\ files' = [f \in FileNames |-> Absent]
    /\ upload' = [u \in Uploads |-> [Lost(upload[u], FileNames) EXCEPT !.crossed = TRUE]]
    /\ UNCHANGED crashed

DirectoryMade ==
    /\ ~crashed
    /\ ~dir
    /\ dir' = TRUE
    /\ UNCHANGED <<files, upload, crashed>>

-----------------------------------------------------------------------------
NoUpload == Fresh("none", << >>, "add")

Init ==
    /\ files = [f \in FileNames |-> Absent]
    /\ dir \in BOOLEAN
    /\ upload = [u \in Uploads |-> NoUpload]
    /\ crashed = FALSE

OfUpload(u) ==
    \/ \E form \in Forms[u], mode \in {"add", "replace"} : Start(u, form, mode)
    \/ \E n \in Chunks[u], works \in Works : Put(u, n, works)
    \/ \E n \in Chunks[u] : Dies(u, n)
    \/ Answer(u)
    \/ BreaksOff(u)

Next ==
    \/ \E u \in Uploads : OfUpload(u)
    \/ \E f \in FileNames : Removed(f)
    \/ DirectoryRemoved
    \/ DirectoryMade

Spec == Init /\ [][Next]_vars

-----------------------------------------------------------------------------
(* Properties *)

Answered(up) == up.status \in {"ok", "conflict", "not_found"}

(* What is kept of a part is the part as it was sent. *)
PartIsKept(value, part) ==
    /\ value.name = <<part.name>>
    /\ value.is_file = IsFile(part)
    /\ value.content = IF IsFile(part) THEN part.file ELSE part.content
    /\ IsFile(part) /\ value.written => files[part.file] = part.content

(* Wherever the network cuts a request, and whatever other uploads and     *)
(* handlers do meanwhile: when it is answered, every part has been taken   *)
(* as it was sent, and every file that it was said to be written is on the *)
(* disk as it was sent.  Except when the disk did not take what was        *)
(* written, or a replace or a removal met the same file, or when bytes     *)
(* were torn: the beginning of what might have been a delimiter came in    *)
(* three puts or more.                                                     *)
AnsweredIsStored ==
    \A u \in Uploads :
        LET up == upload[u]
        IN  Answered(up) /\ ~up.torn /\ ~up.short /\ ~up.crossed =>
                /\ Len(up.values) = Len(up.form)
                /\ \A i \in 1 .. Len(up.form) : PartIsKept(up.values[i], up.form[i])

(* A request that is well formed is answered wherever it is cut, again     *)
(* unless it is torn, or another replaced or removed what it wrote, or its *)
(* directory has gone since, or the disk could not open or close a file    *)
(* that it has (then it is not "dropped" but "disk_failed").               *)
WellFormedIsAnswered ==
    \A u \in Uploads :
        upload[u].status = "dropped" => upload[u].torn \/ upload[u].crossed
==============================================================================
