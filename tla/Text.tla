-------------------------------- MODULE Text --------------------------------
(***************************************************************************)
(* One text element as the AT-SPI and the macOS source mirror it: read off *)
(* the application in several calls while it is typed in, cut into runs    *)
(* with their geometry, sent as a delta against what was sent before, and  *)
(* its caret set by the client through the runs it was sent                *)
(* (read_text_state in mirror.rs, build_text_runs to rebuild_text_node in  *)
(* mapping.rs, SetTextSelection in source.rs; on macOS text.rs, the walk,  *)
(* emit_refresh in source.rs and EmittedTree in delta.rs).                 *)
(*                                                                         *)
(* Only AT-SPI reads a text again when the application says that it or the *)
(* caret changed.  On macOS the element alone is then read: it is sent     *)
(* with its value and without runs, and the runs are those of the walks,   *)
(* which come with the reconciling of the window in front.                 *)
(*                                                                         *)
(* A character is the kind of it: "word", "space", "newline", or "wide",   *)
(* which takes four bytes, two UTF-16 units and two columns.  Texts are    *)
(* left to right, and their geometry can be read whenever it is asked for. *)
(***************************************************************************)
EXTENDS Naturals, Integers, Sequences, FiniteSets, SequencesExt, FiniteSetsExt

CONSTANTS
    Texts,          \* what may be typed
    WrapAt,         \* columns after which the application wraps a line
    MaxTextChars,   \* MAX_TEXT_CHARS
    MaxGeometry,    \* MAX_GEOMETRY_CHARS
    NoText,         \* absent: geometry, caret, selection, offset
    MaxTyped        \* bound: what happens to the text

ASSUME TextAssumption ==
    /\ \A t \in Texts : t \in Seq({"word", "space", "newline", "wide"})
    /\ {WrapAt, MaxTextChars, MaxGeometry} \subseteq Nat \ {0} /\ MaxTyped \in Nat

VARIABLES
    platform,   \* "atspi" or "ax"
    doc,        \* the application's text, anchor and caret
    news,       \* notifications not yet handled: "text", "cursor"
    reading,    \* read_text_state under way: the next call, and what was read
    sentText,   \* what the source keeps: runs, extents and the container
    clientText, \* what the client holds, and whether it was sent what it cannot apply
    typed

textVars == <<platform, doc, news, reading, sentText, clientText, typed>>

Lower(a, b) == IF a < b THEN a ELSE b
Upper(a, b) == IF a < b THEN b ELSE a
Sum(s) == FoldLeft(LAMBDA a, b : a + b, 0, s)

Clamp(text) == SubSeq(text, 1, Lower(Len(text), MaxTextChars))
Utf8(char) == IF char = "wide" THEN 4 ELSE 1
Utf16(char) == IF char = "wide" THEN 2 ELSE 1
IsSpace(char) == char \in {"space", "newline"}

-----------------------------------------------------------------------------
(* What the application draws: one box for each character, and all zeros   *)
(* for the newlines on AT-SPI, where they are not reported.                *)
Columns(char) == IF char = "newline" THEN 0 ELSE Utf16(char)
Drawn(text) ==
    LET Place(acc, char) ==
            LET wraps == acc.x + Columns(char) > WrapAt
                box   == [x |-> IF wraps THEN 0 ELSE acc.x, y |-> IF wraps THEN acc.y + 2 ELSE acc.y,
                          w |-> Columns(char), h |-> 2]
            IN  [boxes |-> Append(acc.boxes, box),
                 x |-> IF char = "newline" THEN 0 ELSE box.x + box.w,
                 y |-> IF char = "newline" THEN box.y + 2 ELSE box.y]
    IN  FoldLeft(Place, [boxes |-> <<>>, x |-> 0, y |-> 10], text).boxes

Unreported == [x |-> 0, y |-> 0, w |-> 0, h |-> 0]
Extents(text) ==
    LET drawn == Drawn(text)
    IN  [i \in DOMAIN text |->
            IF platform = "atspi" /\ text[i] = "newline" THEN Unreported ELSE drawn[i]]

-----------------------------------------------------------------------------
(* Runs.                                                                   *)

\* Runs start after newlines, and on macOS where the row changes as well.
SplitRuns(text) == {1} \cup {i + 1 : i \in {j \in DOMAIN text : text[j] = "newline"}}

StartsNewVisualLine(extents, i) ==
    LET rise == extents[i].y - extents[i - 1].y
    IN  Upper(rise, -rise) > Upper(Upper(extents[i].h, extents[i - 1].h) \div 2, 1)

LineStarts(text, extents) ==
    SplitRuns(text) \cup {i \in 2..Len(text) : extents # NoText /\ StartsNewVisualLine(extents, i)}

Spans(text, from) ==
    LET starts == SetToSortSeq(from, <)
    IN  [k \in DOMAIN starts |->
            <<starts[k], IF k = Len(starts) THEN Len(text) ELSE starts[k + 1] - 1>>]

\* word_starts: the two sources differ on a run that starts with a space.
AfterSpace(run) == {i \in DOMAIN run : i > 1 /\ IsSpace(run[i - 1]) /\ ~IsSpace(run[i])}
AtspiWordStarts(run) == AfterSpace(run) \cup ({1} \cap DOMAIN run)
AxWordStarts(run) == AfterSpace(run) \cup {i \in {1} \cap DOMAIN run : ~IsSpace(run[i])}

\* synthesize_extents: a character without box sits where the one before it ends.
Synthesized(extents) ==
    LET reported == {i \in DOMAIN extents : extents[i] # Unreported}
        Fill[i \in DOMAIN extents] ==
            IF i \in reported THEN extents[i]
            ELSE IF i < Min(reported) THEN [extents[Min(reported)] EXCEPT !.w = 0]
            ELSE [Fill[i - 1] EXCEPT !.x = @ + Fill[i - 1].w, !.w = 0]
    IN  IF reported = {} THEN NoText ELSE Fill

\* A run's box, and each character's left edge in it and width.  On AT-SPI an
\* empty run gets a caret after the one before it.
Boxed(boxes) ==
    LET left   == Min({b.x : b \in ToSet(boxes)})
        right  == Max({b.x + b.w : b \in ToSet(boxes)})
        top    == Min({b.y : b \in ToSet(boxes)})
        bottom == Max({b.y + b.h : b \in ToSet(boxes)})
    IN  [box |-> <<left, top, right, bottom>>,
         xs  |-> [i \in DOMAIN boxes |-> boxes[i].x - left],
         ws  |-> [i \in DOMAIN boxes |-> boxes[i].w]]

RunGeometry(boxes, prev) ==
    IF boxes # <<>> THEN Boxed(boxes)
    ELSE IF prev = NoText THEN NoText
    ELSE [box |-> <<prev.x + prev.w, prev.y, prev.x + prev.w, prev.y + prev.h>>,
          xs |-> <<>>, ws |-> <<>>]

ApplyGeometry(boxes) ==
    IF boxes = <<>> \/ \A b \in ToSet(boxes) : b.x + b.w <= Min({c.x : c \in ToSet(boxes)})
    THEN NoText ELSE Boxed(boxes)

\* The element's own box, where the caret of an empty text is put on AT-SPI.
Bounds == [box |-> <<0, 10, 0, 12>>, xs |-> <<>>, ws |-> <<>>]

Run(run, words, shape) ==
    [value |-> run, lengths |-> [i \in DOMAIN run |-> Utf8(run[i])], words |-> words, shape |-> shape]

Fitting(text, extents) ==
    IF extents = NoText THEN NoText ELSE IF Len(extents) # Len(text) THEN NoText ELSE extents

BuildTextRuns(text, extents) ==
    LET fitting == IF Fitting(text, extents) = NoText THEN NoText ELSE Synthesized(extents)
        spans   == Spans(text, SplitRuns(text))
        Shape(from, to) ==
            IF fitting # NoText
            THEN RunGeometry(SubSeq(fitting, from, to), IF from > 1 THEN fitting[from - 1] ELSE NoText)
            ELSE IF text = <<>> THEN Bounds ELSE NoText
    IN  [k \in DOMAIN spans |->
            LET run == SubSeq(text, spans[k][1], spans[k][2])
            IN  Run(run, AtspiWordStarts(run), Shape(spans[k][1], spans[k][2]))]

BuildRuns(text, extents) ==
    LET fitting == Fitting(text, extents)
        spans   == Spans(text, LineStarts(text, fitting))
        Shape(from, to) ==
            IF fitting = NoText THEN NoText ELSE ApplyGeometry(SubSeq(fitting, from, to))
    IN  [k \in DOMAIN spans |->
            LET run == SubSeq(text, spans[k][1], spans[k][2])
            IN  Run(run, AxWordStarts(run), Shape(spans[k][1], spans[k][2]))]

-----------------------------------------------------------------------------
(* Positions.  A layout is the number of characters of each run.           *)
LayoutOf(runs) == [k \in DOMAIN runs |-> Len(runs[k].lengths)]
Before(layout, k) == Sum(SubSeq(layout, 1, k - 1))

TextPosition(layout, offset) ==
    LET within == {k \in DOMAIN layout : offset < Before(layout, k) + layout[k]}
    IN  IF within = {} THEN <<Len(layout), Last(layout)>>
        ELSE <<Min(within), offset - Before(layout, Min(within))>>

TextOffset(layout, position) ==
    IF position[1] \in DOMAIN layout THEN Before(layout, position[1]) + position[2] ELSE NoText

CharToUtf16(text, index) == Sum([i \in 1..Lower(index, Len(text)) |-> Utf16(text[i])])
Utf16ToChar(text, offset) ==
    LET reached == {i \in 0..Len(text) - 1 : CharToUtf16(text, i) >= offset}
    IN  IF reached = {} THEN Len(text) ELSE Min(reached)

Placed(layout, ends) == <<TextPosition(layout, ends[1]), TextPosition(layout, ends[2])>>

\* The caret is the focus end.
TextSelection(read, layout) ==
    Placed(layout, CASE read.range = NoText -> <<read.caret, read.caret>>
                     [] OTHER -> IF read.caret = read.range[1]
                                 THEN <<read.range[2], read.range[1]>> ELSE read.range)

\* A range has no direction, and is in UTF-16 units.
Selection(read, layout) ==
    Placed(layout, <<Utf16ToChar(read.text, read.range[1]), Utf16ToChar(read.text, read.range[2])>>)

-----------------------------------------------------------------------------
(* What the element is now, and the delta from what it was.  An AT-SPI    *)
(* read without extents goes on with those of a text as long.              *)
RebuiltText(runs, extents, value, selection) ==
    [runs |-> runs, extents |-> extents,
     container |-> [value |-> value, kids |-> DOMAIN runs, selection |-> selection]]

RebuildTextNode(read) ==
    LET extents == IF read.extents # NoText THEN read.extents ELSE Fitting(read.text, sentText.extents)
        runs    == BuildTextRuns(read.text, extents)
    IN  RebuiltText(runs, extents, NoText, TextSelection(read, LayoutOf(runs)))

\* On macOS the element is a field, whose text is its value too.
WalkedText(read) ==
    IF platform = "ax"
    THEN LET runs == BuildRuns(Clamp(read.text), read.extents)
         IN  RebuiltText(runs, NoText, read.text, Selection(read, LayoutOf(runs)))
    ELSE LET runs == BuildTextRuns(read.text, read.extents)
         IN  RebuiltText(runs, read.extents, NoText, TextSelection(read, LayoutOf(runs)))

ChangedByValue(old, new) ==
    [container |-> IF new.container = old.container THEN NoText ELSE new.container,
     runs |-> {k \in DOMAIN new.runs :
                  k \in DOMAIN old.runs => old.runs[k].value # new.runs[k].value}]
Changed(old, new) ==
    [container |-> IF new.container = old.container THEN NoText ELSE new.container,
     runs |-> {k \in DOMAIN new.runs : k \in DOMAIN old.runs => old.runs[k] # new.runs[k]}]

\* A client replaces the nodes it is sent, and forgets those no longer listed.
\* One that is listed and was never sent ends it.
Received(held, delta, new) ==
    LET container == IF delta.container = NoText THEN held.container ELSE delta.container
        runs == [k \in DOMAIN held.runs \cup delta.runs |->
                    IF k \in delta.runs THEN new.runs[k] ELSE held.runs[k]]
    IN  [container |-> container, runs |-> [k \in container.kids \cap DOMAIN runs |-> runs[k]],
         faulted |-> held.faulted \/ container.kids \ DOMAIN runs # {}]

-----------------------------------------------------------------------------
NotReading == [next |-> "none", geometry |-> FALSE, count |-> 0, text |-> <<>>,
               caret |-> 0, range |-> NoText, extents |-> NoText]

EndsOf(d) == <<Lower(d.anchor, d.caret), Upper(d.anchor, d.caret)>>

\* The first selection, within the text read; the range in UTF-16 units.
ReadFirstSelection(d, count) ==
    LET within == <<Lower(EndsOf(d)[1], count), Lower(EndsOf(d)[2], count)>>
    IN  IF within[1] = within[2] THEN NoText ELSE within
SelectedRange(d) == <<CharToUtf16(d.text, EndsOf(d)[1]), CharToUtf16(d.text, EndsOf(d)[2])>>

\* Extents are asked for up to the limit, and are those of the text that is
\* there by then; one that is not there any more fails them all.
ReadCharExtents(text, now) ==
    IF Len(text) > MaxGeometry \/ Len(now) < Len(text) THEN NoText
    ELSE SubSeq(Extents(now), 1, Len(text))
ReadTextGeometry(text, now) == IF text = <<>> THEN NoText ELSE ReadCharExtents(text, now)

\* The walk that found it read what nobody was changing.
FirstRead(d) ==
    LET text == Clamp(d.text)
    IN  [NotReading EXCEPT
            !.text = IF platform = "ax" THEN d.text ELSE text, !.caret = Lower(d.caret, Len(text)),
            !.range = IF platform = "ax" THEN SelectedRange(d) ELSE ReadFirstSelection(d, Len(text)),
            !.extents = IF platform = "ax" THEN ReadTextGeometry(text, d.text)
                                           ELSE ReadCharExtents(text, d.text)]
TextInit ==
    /\ platform \in {"atspi", "ax"}
    /\ \E text \in Texts : doc = [text |-> text, anchor |-> 0, caret |-> 0]
    /\ news = <<>> /\ reading = NotReading /\ typed = 0
    /\ sentText = WalkedText(FirstRead(doc))
    /\ clientText = [container |-> sentText.container, runs |-> sentText.runs, faulted |-> FALSE]

(* The application.                                                        *)
Type(text) ==
    /\ typed < MaxTyped /\ typed' = typed + 1
    /\ text # doc.text
    /\ doc' = [text |-> text, anchor |-> Len(text), caret |-> Len(text)]
    /\ news' = news \o <<"text", "cursor">>
    /\ UNCHANGED <<platform, reading, sentText, clientText>>

MoveCaret(anchor, caret) ==
    /\ typed < MaxTyped /\ typed' = typed + 1
    /\ <<anchor, caret>> # <<doc.anchor, doc.caret>>
    /\ doc' = [doc EXCEPT !.anchor = anchor, !.caret = caret]
    /\ news' = Append(news, "cursor")
    /\ UNCHANGED <<platform, reading, sentText, clientText>>

(* The source: one handler at a time, its calls one after another.         *)
Continue(next) ==
    /\ reading' = next
    /\ UNCHANGED <<platform, doc, sentText, clientText, typed>>

\* What is read for a notification: on AT-SPI the text, and the boxes unless
\* the caret alone moved; on macOS the element.
BeginRead ==
    /\ reading.next = "none" /\ news # <<>>
    /\ news' = Tail(news)
    /\ Continue([NotReading EXCEPT !.next = "text", !.count = Len(doc.text),
                                   !.geometry = platform = "atspi" /\ Head(news) = "text"])

\* A walk of the window, on macOS.  It comes when it is due.
BeginWalk ==
    /\ reading.next = "none" /\ platform = "ax"
    /\ Continue([NotReading EXCEPT !.next = "text", !.geometry = TRUE])
    /\ UNCHANGED news

ReadText ==
    /\ reading.next = "text"
    /\ Continue(IF platform = "ax"
                THEN [reading EXCEPT !.next = IF reading.geometry THEN "range" ELSE "refresh",
                                     !.text = doc.text]
                ELSE LET counted == SubSeq(doc.text, 1, Lower(reading.count, Len(doc.text)))
                     IN  [reading EXCEPT !.next = "caret", !.text = Clamp(counted)])
    /\ UNCHANGED news

ReadCaret ==
    /\ reading.next = "caret"
    /\ Continue([reading EXCEPT !.next = "range", !.caret = Lower(doc.caret, Len(reading.text))])
    /\ UNCHANGED news

ReadRange ==
    /\ reading.next = "range"
    /\ Continue([reading EXCEPT
          !.next = "extents",
          !.range = IF platform = "ax" THEN SelectedRange(doc)
                    ELSE ReadFirstSelection(doc, Len(reading.text))])
    /\ UNCHANGED news

Sends(new) ==
    /\ sentText' = new
    /\ clientText' = Received(clientText, Changed(sentText, new), new)
    /\ reading' = NotReading
    /\ UNCHANGED <<platform, doc, news, typed>>

RereadText ==
    /\ reading.next = "extents" /\ platform = "atspi"
    /\ Sends(RebuildTextNode([reading EXCEPT
            !.extents = IF reading.geometry THEN ReadCharExtents(reading.text, doc.text)
                        ELSE NoText]))

WalkText ==
    /\ reading.next = "extents" /\ platform = "ax"
    /\ Sends(WalkedText([reading EXCEPT !.extents = ReadTextGeometry(Clamp(reading.text), doc.text)]))

\* emit_refresh: the element with the children it was walked with, of which a
\* text has none, and no selection.  The runs stay in the cache.
RefreshElement ==
    /\ reading.next = "refresh"
    /\ Sends([sentText EXCEPT
                 !.container = [value |-> reading.text, kids |-> {}, selection |-> NoText]])

(* The client puts the caret where the runs it holds say (handle_action);  *)
(* the application takes what lies beyond its text for its end.            *)
SetTextSelection(anchor, focus) ==
    /\ reading.next = "none"
    /\ typed < MaxTyped /\ typed' = typed + 1
    /\ LET layout == LayoutOf(sentText.runs)
           from   == TextOffset(layout, anchor)
           to     == TextOffset(layout, focus)
       IN  /\ from # NoText /\ to # NoText
           /\ doc' = [doc EXCEPT !.anchor = Lower(Lower(from, to), Len(doc.text)),
                                 !.caret = Lower(Upper(from, to), Len(doc.text))]
    /\ news' = Append(news, "cursor")
    /\ UNCHANGED <<platform, reading, sentText, clientText>>

Positions(held) == UNION {{<<k, i>> : i \in 0..Len(held.runs[k].value)} : k \in held.container.kids}

TextNext ==
    \/ \E text \in Texts : Type(text)
    \/ \E anchor, caret \in 0..Len(doc.text) : MoveCaret(anchor, caret)
    \/ BeginRead \/ BeginWalk \/ ReadText \/ ReadCaret \/ ReadRange
    \/ RereadText \/ WalkText \/ RefreshElement
    \/ platform = "atspi" /\ \E anchor, focus \in Positions(clientText) : SetTextSelection(anchor, focus)

-----------------------------------------------------------------------------
(* Properties.                                                             *)

Shown(held) == FlattenSeq([k \in 1..Cardinality(held.container.kids) |-> held.runs[k].value])
OffsetShown(held, position) ==
    Sum([k \in 1..position[1] - 1 |-> Len(held.runs[k].value)]) + position[2]

\* No refresh took the runs from the client since they were last sent.
RunsSent == clientText.container.kids # {} /\ ~clientText.faulted

\* The client's runs are the source's, and the selection is in them, whatever
\* the text became between two of the calls that read it: a run no longer
\* there is not named, and one whose geometry alone moved is not left out.
\* And a position the client asks for is taken for the offset it shows there.
\* On macOS that is said of the time from a walk it could apply to the next
\* refresh.
RunsHeld ==
    /\ platform = "atspi" => RunsSent
    /\ ~clientText.faulted => clientText.container = sentText.container
    /\ RunsSent =>
          /\ clientText.runs = sentText.runs
          /\ \A k \in {1, 2} :
                clientText.container.selection[k] \in Positions(clientText)
          /\ \A position \in Positions(clientText) :
                TextOffset(LayoutOf(sentText.runs), position) = OffsetShown(clientText, position)

(* The client reads the application's text and its caret, through bytes,   *)
(* UTF-16 units and runs; there is a run for a caret at the very end; and  *)
(* where the client is told where a character is drawn, it is drawn there. *)
RunsCurrent ==
    LET text == Clamp(doc.text)
        At(position) == OffsetShown(clientText, position)
        anchor == Lower(doc.anchor, MaxTextChars)
        caret  == Lower(doc.caret, MaxTextChars)
        sel    == clientText.container.selection
    IN  /\ Shown(clientText) = text
        /\ IF platform = "atspi" THEN At(sel[1]) = anchor /\ At(sel[2]) = caret
           ELSE At(sel[1]) = Lower(anchor, caret) /\ At(sel[2]) = Upper(anchor, caret)
        /\ text = <<>> \/ Last(text) = "newline" =>
              clientText.runs[Cardinality(clientText.container.kids)].value = <<>>
        /\ \A k \in DOMAIN clientText.runs :
              LET run == clientText.runs[k]
              IN  run.shape # NoText => \A i \in DOMAIN run.value :
                    LET drawn == Drawn(doc.text)[OffsetShown(clientText, <<k, i>>)]
                    IN  run.value[i] # "newline" =>
                          run.shape.box[1] + run.shape.xs[i] = drawn.x
                          /\ run.shape.ws[i] = drawn.w

TextAtRest == news = <<>> /\ reading.next = "none"

(* With nothing left to read the runs are current, as long as the client   *)
(* has them: always on AT-SPI, and on macOS from a walk it could apply to  *)
(* the next refresh.  And on macOS the value is.                           *)
TextCurrent ==
    TextAtRest => /\ RunsSent => RunsCurrent
                  /\ platform = "ax" => clientText.container.value = doc.text

\* TextMirrored: as long as no refresh took them away the client holds the
\* source's runs, and with nothing left to read the application's text, caret
\* and places (rebuild_text_node of AT-SPI; EmittedTree on macOS).
TextMirrored == RunsHeld /\ TextCurrent
=============================================================================
