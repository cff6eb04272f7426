------------------------------- MODULE Ingest -------------------------------
(***************************************************************************)
(* How a log file becomes the records the rules see, and what is said of   *)
(* the lines that become none: normalize.py sniffs a native format and     *)
(* loads it; where that does not cover the file, the universal parsers of  *)
(* log_analyzer.py (console, command line) or of formats_universal.py      *)
(* (safe intake) take over.  The console then loads the file again, its    *)
(* own way, to show the lines of a finished report.                        *)
(*                                                                         *)
(* A line is the grammar it is written in.  A file is read line by line,    *)
(* the rows of a table with cells over several lines included.             *)
(***************************************************************************)
EXTENDS Integers, Sequences, FiniteSets

CONSTANTS
    Files,          \* the files there are to read
    Modes,          \* "console", or the unrecognized_mode "honest" or "force"
    Probe,          \* probe_lines: how far the sniffers of normalize look
    EvtxInstalled   \* whether python-evtx can be imported

Syslogs == {"canonical", "syslog", "envelope", "foreignEnvelope", "rfc5424", "iso8601", "logcat"}
LoghubOrder == <<"apache", "log4j", "bgl", "thunderbird", "proxifier">>
Loghub == {LoghubOrder[j] : j \in DOMAIN LoghubOrder}

(* "event" is a JSON object with a message field, "object" one without,     *)
(* "scalar" other JSON; "foreign" syslog with no English month; "stamp",    *)
(* "code" (EventCode=) and "field" are of a Windows text export; a "row"    *)
(* has a cell for every column, a "short" row has not; "quote" has a cell   *)
(* that goes on in the next line, or ends one that came from the line       *)
(* before; "tag" begins with <.                                             *)
Kinds == Syslogs \cup Loghub \cup
    {"blank", "text", "comma", "foreign", "event", "object", "scalar",
     "stamp", "code", "field", "cbs", "log360Header", "authHeader", "row", "short", "quote", "tag"}

Json == {"event", "object", "scalar"}

(* A document (body other than "lines") has items, each of which begins on  *)
(* one of its lines; an empty file is none.                                 *)
ASSUME IngestAssumption ==
    /\ \A f \in Files :
          /\ DOMAIN f = {"lines", "ext", "sniffable", "body", "items"}
          /\ f.lines \in Seq(Kinds)
          /\ f.ext \in {".log", ".evtx", ".xml", ".html", ".jsonl", ".json", ".csv", ""}
          /\ f.sniffable \in BOOLEAN    \* what csv.Sniffer makes of its first lines
          /\ f.body \in {"lines", "json", "xml", "html", "evtx"}
          /\ f.items \in Seq(DOMAIN f.lines)
          /\ f.lines = <<>> => f.body = "lines"
    /\ Modes \subseteq {"console", "honest", "force"}
    /\ Probe \in Nat \ {0} /\ EvtxInstalled \in BOOLEAN

VARIABLES
    file, mode,
    phase,     \* "analysis", or "display": the console loading it again
    pc,        \* the step of the load
    fmt,       \* the format it is being read in
    pos,       \* the next line
    records,   \* the records so far: n, and the lines its raw text holds
    total, unparsed,   \* stats
    event,     \* parse_windows_text: the event it is in
    native,    \* what normalize.load returned
    report     \* what the analysis had, once it is through

counts == <<records, total, unparsed>>
vars == <<file, mode, phase, pc, fmt, pos, counts, event, native, report>>

Absent == "absent"
NoStats == [format |-> Absent, total |-> 0, unparsed |-> 0, records |-> {}]
NoEvent == [lines |-> {}, said |-> FALSE, open |-> FALSE]

-----------------------------------------------------------------------------
(* What the file looks like. *)
Lines == file.lines
NonBlank == {i \in DOMAIN Lines : Lines[i] # "blank"}
First(k) == {i \in NonBlank : Cardinality({j \in NonBlank : j <= i}) <= k}
Head1 == IF NonBlank = {} THEN "blank" ELSE Lines[CHOOSE i \in First(1) : TRUE]
Seen(k) == Cardinality(First(k))
Among(k, kinds) == Cardinality({i \in First(k) : Lines[i] \in kinds})
AtLeast(least, n) == IF n > least THEN n ELSE least
FirstOf(cases) == Head(SelectSeq(cases, LAMBDA case : case[2]))[1]

-----------------------------------------------------------------------------
(* The sniffers of normalize.py and console/formats, in their order.        *)
SniffsLog360Syslog ==
    LET matched == Among(Probe, {"envelope", "foreignEnvelope"})
    IN  matched > 0 /\ matched >= AtLeast(1, Seen(Probe) \div 2)

SniffsAuthCsv == Head1 = "authHeader"

SniffsLogcat ==
    LET matched == Among(Probe, {"logcat"})
    IN  matched > 0 /\ matched >= AtLeast(1, (2 * Seen(Probe)) \div 3)

SniffsRfc5424 == Seen(Probe) > 0 /\ 10 * Among(Probe, {"rfc5424"}) >= 6 * Seen(Probe)

SniffsIso8601 ==
    LET matched == Among(Probe, {"iso8601"})
    IN  matched > 0 /\ matched >= AtLeast(1, (2 * Seen(Probe)) \div 3)

SniffsJsonlog == Seen(Probe) > 0 /\ 10 * Among(Probe, {"event"}) >= 6 * Seen(Probe)

LoghubBest ==
    LET count == [j \in DOMAIN LoghubOrder |-> Among(Probe, {LoghubOrder[j]})]
        best == CHOOSE j \in DOMAIN LoghubOrder : \A k \in DOMAIN LoghubOrder :
                    count[j] > count[k] \/ (count[j] = count[k] /\ j <= k)
    IN  IF count[best] > 0 /\ count[best] >= AtLeast(1, (2 * Seen(Probe)) \div 3)
        THEN LoghubOrder[best] ELSE Absent

SniffFormat ==
    LET canonical == Among(Probe, {"canonical"})
        rfc3164 == Among(Probe, {"syslog", "foreign"})
    IN  FirstOf(<< <<"log360_csv", Head1 = "log360Header">>,
                   <<"log360_syslog", SniffsLog360Syslog>>,
                   <<"auth_csv", SniffsAuthCsv>>,
                   <<"logcat", SniffsLogcat>>,
                   <<"rfc5424", SniffsRfc5424>>,
                   <<"iso8601_syslog", SniffsIso8601>>,
                   <<"jsonlog", SniffsJsonlog>>,
                   <<LoghubBest, LoghubBest # Absent>>,
                   <<"empty", Seen(Probe) = 0>>,
                   <<"canonical", canonical > 0 /\ canonical >= rfc3164>>,
                   <<"rfc3164", rfc3164 > 0>>,
                   <<"unknown", TRUE>> >>)

-----------------------------------------------------------------------------
(* detect_input_format: what the universal parsers take the file for.       *)
LooksLikeWindowsExport == Among(80, {"stamp", "code"}) > 0

LooksLikeWindowsCbs ==
    LET hits == Among(20, {"cbs"})
    IN  hits >= 3 \/ (hits >= 2 /\ 2 * hits >= Seen(20))

LooksLikeLog4j == Among(20, {"log4j"}) >= AtLeast(2, Seen(20) \div 2)

WholeJson == file.body = "json" \/ (file.body = "lines" /\ Seen(2) = 1 /\ Head1 \in Json)

(* Lines with a comma in them are taken for CSV when csv.Sniffer says so.   *)
LooksLikeCsv ==
    /\ Among(5, {"comma", "cbs", "log4j", "row", "short", "quote", "authHeader", "log360Header",
                "event", "object"}) > 0
    /\ file.sniffable

DetectInputFormat ==
    LET curly == Head1 \in {"event", "object"} \/ file.body = "json"
    IN  FirstOf(<< <<"evtx", file.ext = ".evtx">>,
                   <<"xml", Head1 \in {"rfc5424", "tag"} \/ file.ext = ".xml">>,
                   <<"html", file.body = "html" \/ file.ext = ".html">>,
                   <<"jsonl", file.ext = ".jsonl">>,
                   <<"json", file.ext = ".json">>,
                   <<"csv", file.ext = ".csv">>,
                   <<"windows_event_text", LooksLikeWindowsExport>>,
                   <<"windows_cbs", LooksLikeWindowsCbs>>,
                   <<"generic_text", LooksLikeLog4j>>,
                   <<"json", curly /\ WholeJson>>,
                   <<"jsonl", curly /\ Head1 \in Json /\ Len(Lines) > 1>>,
                   <<"generic_text", file.ext # ".log">>,
                   <<"csv", LooksLikeCsv>>,
                   <<"generic_text", TRUE>> >>)

-----------------------------------------------------------------------------
(* Which of the two loaders is at work: log_analyzer's, or                  *)
(* formats_universal's, whose mode is unrecognized_mode.                    *)
Route == IF phase = "display" THEN "console" ELSE mode

Init ==
    /\ file \in Files /\ mode \in Modes
    /\ phase = "analysis" /\ pc = "run" /\ fmt = Absent /\ pos = 1
    /\ records = {} /\ total = 0 /\ unparsed = 0
    /\ event = NoEvent /\ native = NoStats /\ report = NoStats

(* run: an empty file is refused, but not in honest mode.                   *)
Run ==
    /\ pc = "run"
    /\ pc' = IF Lines = <<>> /\ mode # "honest" THEN "refused" ELSE "sniff"
    /\ UNCHANGED <<file, mode, phase, fmt, pos, counts, event, native, report>>

(* normalize.load *)
Sniff ==
    /\ pc = "sniff"
    /\ fmt' = SniffFormat /\ pc' = "native" /\ pos' = 1
    /\ UNCHANGED <<file, mode, phase, counts, event, native, report>>

LoadNothing ==
    /\ pc = "native" /\ fmt \in {"empty", "unknown"} /\ pos = 1
    /\ total' = Cardinality(NonBlank) /\ unparsed' = Cardinality(NonBlank)
    /\ pos' = Len(Lines) + 1
    /\ UNCHANGED <<file, mode, phase, pc, fmt, records, event, native, report>>

(* A loader that goes line by line: what it has no use for, it counts --    *)
(* unless "said" is FALSE, and the count is left behind.                    *)
(* Mutant: numbering the records, not the lines.                            *)
SingleNumbered(i, kinds) ==
    IF Lines[i] \in kinds THEN {[n |-> Cardinality(records) + 1, lines |-> {i}]} ELSE {}

Single(i, kinds) == IF Lines[i] \in kinds THEN {[n |-> i, lines |-> {i}]} ELSE {}

NativeLine(format, kinds, said) ==
    /\ pc = "native" /\ fmt = format /\ pos <= Len(Lines)
    /\ pos' = pos + 1
    /\ records' = records \cup Single(pos, kinds)
    /\ total' = IF Lines[pos] = "blank" THEN total ELSE total + 1
    /\ unparsed' = IF said /\ Lines[pos] \notin kinds \cup {"blank"} THEN unparsed + 1 ELSE unparsed
    /\ UNCHANGED <<file, mode, phase, pc, fmt, event, native, report>>

CanonicalLine == NativeLine("canonical", {"canonical"}, TRUE)
LogcatLine    == NativeLine("logcat", {"logcat"}, TRUE)
Iso8601Line   == NativeLine("iso8601_syslog", {"iso8601"}, TRUE)
Rfc5424Line   == NativeLine("rfc5424", {"rfc5424"}, FALSE)
JsonlogLine   == NativeLine("jsonlog", {"event", "object"}, FALSE)
LoghubLine    == \E format \in Loghub : NativeLine(format, {format}, TRUE)

Has(kind) == \E i \in DOMAIN Lines : Lines[i] = kind

Rfc3164Line == ~Has("foreign") /\ NativeLine("rfc3164", {"syslog"}, TRUE)
Log360Envelope == ~Has("foreignEnvelope") /\ NativeLine("log360_syslog", {"envelope"}, TRUE)

(* A month that is not English is a KeyError: the console goes on without   *)
(* the native loader, formats_universal does not.                           *)
MonthRaises ==
    /\ pc = "native"
    /\ \/ fmt = "rfc3164" /\ Has("foreign")
       \/ fmt = "log360_syslog" /\ Has("foreignEnvelope")
    /\ pc' = IF Route = "console" THEN "detect" ELSE "raised"
    /\ records' = {} /\ total' = 0 /\ unparsed' = 0
    /\ UNCHANGED <<file, mode, phase, fmt, pos, event, native, report>>

(* In a table the first line, blank or not, is the header; without its      *)
(* columns no row has the cells that are asked for.  A row is read with its *)
(* first line, and is numbered by it; a cell nobody ends takes the rest of  *)
(* the file, and with it the cells that should follow.                      *)
InCell(i) == Cardinality({j \in DOMAIN Lines : j < i /\ Lines[j] = "quote"}) % 2 = 1
RowAt(i) == {j \in DOMAIN Lines : i <= j /\ \A k \in (i + 1)..j : InCell(k)}
Ended(i) == \E k \in DOMAIN Lines : i < k /\ Lines[k] = "quote"

RowStarts(i) == i > 1 /\ Lines[i] # "blank" /\ ~InCell(i)

Row(i, kinds) ==
    IF Lines[1] # "blank" /\ (Lines[i] \in kinds \/ (Lines[i] = "quote" /\ Ended(i)))
    THEN {[n |-> i, lines |-> RowAt(i)]} ELSE {}

TableLine(format, kinds) ==
    /\ pc = "native" /\ fmt = format /\ pos <= Len(Lines)
    /\ pos' = pos + 1
    /\ IF RowStarts(pos)
       THEN /\ records' = records \cup Row(pos, kinds)
            /\ total' = total + 1
            /\ unparsed' = IF Row(pos, kinds) = {} THEN unparsed + 1 ELSE unparsed
       ELSE UNCHANGED counts
    /\ UNCHANGED <<file, mode, phase, pc, fmt, event, native, report>>

Log360Row == TableLine("log360_csv", {"row", "log360Header"})
AuthRow   == TableLine("auth_csv", {"row", "authHeader"})

Parsed == Cardinality(records)
Stats == [format |-> fmt, total |-> total, unparsed |-> unparsed, records |-> records]

NativeDone ==
    /\ pc = "native" /\ pos > Len(Lines)
    /\ native' = Stats /\ pc' = "route"
    /\ UNCHANGED <<file, mode, phase, fmt, pos, counts, event, report>>

-----------------------------------------------------------------------------
(* load_log_file: the console keeps a native parse that covers six lines in *)
(* ten; formats_universal keeps any, and an empty file as it is.            *)
Parsed9 == Parsed > 0 /\ 10 * Parsed >= 9 * total    \* mutant: another threshold
Covers == Parsed > 0 /\ 10 * Parsed >= 6 * total
Kept == IF Route = "console" THEN Covers ELSE Parsed > 0 \/ fmt = "empty"

KeepNative ==
    /\ pc = "route" /\ Kept
    /\ pc' = "loaded"
    /\ UNCHANGED <<file, mode, phase, fmt, pos, counts, event, native, report>>

GoUniversal ==
    /\ pc = "route" /\ ~Kept
    /\ pc' = "detect"
    /\ UNCHANGED <<file, mode, phase, fmt, pos, counts, event, native, report>>

Restart(format) ==
    /\ fmt' = format /\ pc' = "universal" /\ pos' = 1
    /\ records' = {} /\ total' = 0 /\ unparsed' = 0 /\ event' = NoEvent
    /\ UNCHANGED <<file, mode, phase, native, report>>

(* A document that is not one, and an .evtx nobody can open: the parser     *)
(* raises before it has a record.                                           *)
Raises(format) ==
    \/ format = "json" /\ ~WholeJson
    \/ format = "xml" /\ file.body # "xml"
    \/ format = "evtx" /\ (~EvtxInstalled \/ file.body # "evtx")

(* Where formats_universal ends without a record: as text, or as it was.    *)
Unrecognized ==
    IF Route = "force"
    THEN Restart("generic_text")
    ELSE /\ fmt' = native.format /\ total' = native.total /\ unparsed' = native.unparsed
         /\ records' = native.records /\ pc' = "loaded"
         /\ UNCHANGED <<file, mode, phase, pos, event, native, report>>

Detect ==
    /\ pc = "detect"
    /\ LET format == DetectInputFormat IN
       CASE ~Raises(format) /\ (format # "generic_text" \/ Route = "console") -> Restart(format)
         [] Raises(format) /\ Route = "console" -> Restart("generic_text")
         [] OTHER -> Unrecognized

(* Both loaders have every parser twice; only what they say of the lines    *)
(* they could not use differs.                                              *)
LineOf(format, kinds, missed) ==
    /\ pc = "universal" /\ fmt = format /\ pos <= Len(Lines)
    /\ pos' = pos + 1
    /\ records' = records \cup Single(pos, kinds \ {"blank"})
    /\ total' = total + 1
    /\ unparsed' = IF Lines[pos] \in missed THEN unparsed + 1 ELSE unparsed
    /\ UNCHANGED <<file, mode, phase, pc, fmt, event, native, report>>

TextLine == Route = "console" /\ LineOf("generic_text", Kinds, {"blank"})
ForcedTextLine == Route = "force" /\ LineOf("generic_text", Kinds, {})
CbsLineQuiet == LineOf("windows_cbs", {"cbs"}, {})    \* mutant: misses are not counted
CbsLine == LineOf("windows_cbs", {"cbs"}, Kinds \ {"cbs", "blank"})
JsonLine == Route = "console" /\ LineOf("jsonl", Json, Kinds \ (Json \cup {"blank"}))
UniversalJsonLine == Route # "console" /\ LineOf("jsonl", Json, Kinds \ (Json \cup {"blank"}))

(* csv.DictReader: the first row names the columns; the rows that are not   *)
(* blank are numbered, not their lines; without columns a record holds      *)
(* nothing of its row.                                                      *)
ReadRow ==
    /\ pc = "universal" /\ fmt = "csv" /\ pos <= Len(Lines)
    /\ pos' = pos + 1
    /\ IF RowStarts(pos)
       THEN LET n == Parsed + 2 IN
            /\ records' = records \cup
                  {[n |-> n, lines |-> IF Lines[1] = "blank" THEN {} ELSE RowAt(pos)]}
            /\ total' = n
       ELSE UNCHANGED <<records, total>>
    /\ UNCHANGED <<file, mode, phase, pc, fmt, unparsed, event, native, report>>

CsvRow == Route = "console" /\ ReadRow
UniversalCsvRow == Route # "console" /\ ReadRow

(* A document gives its items, numbered from one; an XML one without any is *)
(* a record itself.  The records of an event log have no lines.             *)
ReadDocument(format, items, lines) ==
    /\ pc = "universal" /\ fmt = format /\ pos = 1
    /\ records' = {[n |-> i, lines |-> items[i]] : i \in DOMAIN items}
    /\ total' = lines /\ pos' = Len(Lines) + 1
    /\ UNCHANGED <<file, mode, phase, pc, fmt, unparsed, event, native, report>>

Items == [i \in DOMAIN file.items |-> {file.items[i]}]
JsonItems == IF file.body = "json" THEN Items ELSE <<NonBlank>>
XmlItems == IF file.items = <<>> THEN <<NonBlank>> ELSE Items
HtmlItems == IF file.body = "html" THEN Items ELSE <<>>
EvtxItems == [i \in DOMAIN file.items |-> {}]

JsonDocument == Route = "console" /\ ReadDocument("json", JsonItems, 0)
UniversalJsonDocument == Route # "console" /\ ReadDocument("json", JsonItems, Len(JsonItems))
XmlDocument == Route = "console" /\ ReadDocument("xml", XmlItems, Len(Lines))
UniversalXmlDocument == Route # "console" /\ ReadDocument("xml", XmlItems, Len(Lines))
HtmlDocument == Route = "console" /\ ReadDocument("html", HtmlItems, 0)
UniversalHtmlDocument == Route # "console" /\ ReadDocument("html", HtmlItems, Len(HtmlItems))
EvtxDocument == Route = "console" /\ ReadDocument("evtx", EvtxItems, Len(EvtxItems))
UniversalEvtxDocument == Route # "console" /\ ReadDocument("evtx", EvtxItems, Len(EvtxItems))

(* parse_windows_text: a stamp begins an event, other lines join the one    *)
(* they are in or begin one; an event with neither stamp nor field is not   *)
(* flushed.                                                                 *)
FirstLine(lines) == CHOOSE i \in lines : \A j \in lines : i <= j
Flushed == IF event.said THEN records \cup {[n |-> FirstLine(event.lines), lines |-> event.lines]} ELSE records

WindowsStamp(line) ==
    /\ line = "stamp"
    /\ records' = Flushed
    /\ event' = [lines |-> {pos}, said |-> TRUE, open |-> TRUE]

WindowsText(line) ==
    /\ line \notin {"stamp", "blank"}
    /\ event' = [lines |-> event.lines \cup {pos}, open |-> TRUE,
                 said |-> event.said \/ line \in {"code", "field"}]
    /\ UNCHANGED records

WindowsBlank(line) ==
    /\ line = "blank"
    /\ event' = IF event.open THEN [event EXCEPT !.lines = @ \cup {pos}] ELSE event
    /\ UNCHANGED records

ReadWindowsLine ==
    /\ pc = "universal" /\ fmt = "windows_event_text" /\ pos <= Len(Lines)
    /\ \E line \in {Lines[pos]} : WindowsStamp(line) \/ WindowsText(line) \/ WindowsBlank(line)
    /\ pos' = pos + 1 /\ total' = total + 1
    /\ UNCHANGED <<file, mode, phase, pc, fmt, unparsed, native, report>>

ReadWindowsEnd(missed) ==
    /\ pc = "universal" /\ fmt = "windows_event_text" /\ pos > Len(Lines) /\ event.open
    /\ records' = Flushed /\ event' = NoEvent /\ unparsed' = missed
    /\ UNCHANGED <<file, mode, phase, pc, fmt, pos, total, native, report>>

WindowsLine == Route = "console" /\ ReadWindowsLine
UniversalWindowsLine == Route # "console" /\ ReadWindowsLine
WindowsEnd == Route = "console" /\ ReadWindowsEnd(AtLeast(0, total - Cardinality(Flushed)))
UniversalWindowsEnd == Route # "console" /\ ReadWindowsEnd(0)

UniversalDone ==
    /\ pc = "universal" /\ pos > Len(Lines) /\ ~event.open
    /\ IF Route = "console" \/ Parsed > 0 \/ fmt = "generic_text"
       THEN /\ pc' = "loaded"
            /\ UNCHANGED <<file, mode, phase, fmt, pos, counts, event, native, report>>
       ELSE Unrecognized

-----------------------------------------------------------------------------
(* The report is written; adapt shows the lines of one that parsed some.    *)
Report ==
    /\ pc = "loaded" /\ phase = "analysis"
    /\ report' = Stats /\ phase' = "display"
    /\ pc' = IF Parsed > 0 THEN "sniff" ELSE "shown"
    /\ fmt' = Absent /\ pos' = 1 /\ records' = {} /\ total' = 0 /\ unparsed' = 0
    /\ UNCHANGED <<file, mode, event, native>>

Show ==
    /\ pc = "loaded" /\ phase = "display"
    /\ pc' = "shown"
    /\ UNCHANGED <<file, mode, phase, fmt, pos, counts, event, native, report>>

Native ==
    \/ LoadNothing \/ CanonicalLine \/ Rfc3164Line \/ MonthRaises \/ LogcatLine
    \/ Iso8601Line \/ Rfc5424Line \/ JsonlogLine \/ Log360Envelope \/ LoghubLine
    \/ Log360Row \/ AuthRow \/ NativeDone

Universal ==
    \/ Detect \/ TextLine \/ ForcedTextLine \/ CbsLine \/ UniversalDone
    \/ JsonLine \/ UniversalJsonLine \/ CsvRow \/ UniversalCsvRow
    \/ JsonDocument \/ UniversalJsonDocument \/ XmlDocument \/ UniversalXmlDocument
    \/ HtmlDocument \/ UniversalHtmlDocument \/ EvtxDocument \/ UniversalEvtxDocument
    \/ WindowsLine \/ UniversalWindowsLine \/ WindowsEnd \/ UniversalWindowsEnd

Next == Run \/ Sniff \/ Native \/ KeepNative \/ GoUniversal \/ Universal \/ Report \/ Show

Spec == Init /\ [][Next]_vars

-----------------------------------------------------------------------------
Held == UNION {r.lines : r \in records}
Numbers(recs) == {r.n : r \in recs}
(* "Lines that match neither are counted and surfaced -- never silently     *)
(* dropped" (normalize.py:28): when a file is loaded, the lines no record   *)
(* holds are no more than unparsed says.  The code's exceptions are exactly *)
(* these: the two native loaders whose count is left behind; the header of  *)
(* a table, or all its rows when a blank line was taken for the header, and *)
(* the further lines of a row, which counts as one; and the lines a Windows *)
(* export has before its first event, in the copy of formats_universal.     *)
LossIsKnown ==
    pc = "loaded" /\ file.body = "lines" =>
        LET lost == NonBlank \ Held IN
        \/ Cardinality(lost) <= unparsed
        \/ fmt \in {"rfc5424", "jsonlog"}
        \/ fmt \in {"log360_csv", "auth_csv", "csv"}
              /\ Cardinality({i \in lost : ~InCell(i)}) <= unparsed + 1
        \/ fmt = "csv" /\ Lines[1] = "blank"
        \/ fmt = "html"
        \/ /\ fmt = "windows_event_text" /\ Route # "console"
           /\ \A i \in lost, j \in Held : i < j

(* What the console shows under a report are the lines the report was made  *)
(* of, though it loads the file again and its own way -- but where          *)
(* formats_universal kept a native parse of less than six lines in ten, or  *)
(* forced text out of a document without items.                             *)
EventsMatchReport ==
    pc = "loaded" /\ phase = "display" =>
        \/ Numbers(records) = Numbers(report.records)
        \/ /\ mode # "console" /\ report.format = SniffFormat
           /\ 10 * Cardinality(report.records) < 6 * report.total
        \/ mode = "force" /\ report.format = "generic_text" /\ records = {}

(* A finding's evidence is its line numbers: under its number a record has  *)
(* the physical line, or the first of its lines.  The code's exceptions are *)
(* exactly these: the CSV reader and whole-file JSON come short by the      *)
(* lines before it that are blank or go on with a row; and a document read  *)
(* as one is numbered by its items, wherever these begin.                   *)
Uncounted(i) == Cardinality({j \in DOMAIN Lines : j < i /\ (Lines[j] = "blank" \/ InCell(j))})

LinesAreTrue ==
    pc = "loaded" =>
        \A r \in records : r.lines # {} =>
            \/ r.n = FirstLine(r.lines)
            \/ fmt \in {"csv", "json"} /\ r.n + Uncounted(FirstLine(r.lines)) = FirstLine(r.lines)
            \/ fmt \in {"json", "xml", "html"} /\ fmt = file.body
                 /\ (file.items = <<>> \/ r.lines = {file.items[r.n]})
=============================================================================
