------------------------------ MODULE MCIngest ------------------------------
(* Every file of a few lines (MaxLines, or one less) of a family of grammars *)
(* that compete for it, under the names that matter to it, and documents.    *)
EXTENDS Ingest, SequencesExt

CONSTANT MaxLines

Plain(lines, ext, sniffable) ==
    [lines |-> lines, ext |-> ext, sniffable |-> sniffable, body |-> "lines", items |-> <<>>]

Family(kinds, exts, n) ==
    {Plain(lines, ext, s) : lines \in BoundedSeq(kinds, n), ext \in exts, s \in {FALSE}}

(* csv.Sniffer is asked about lines with a comma in them. *)
Tables(kinds, exts, n) ==
    {Plain(lines, ext, s) : lines \in BoundedSeq(kinds, n), ext \in exts, s \in BOOLEAN}

Documents ==
    {[lines |-> doc[1], ext |-> ext, sniffable |-> FALSE, body |-> doc[2], items |-> items] :
        doc \in
            {<< <<"tag", "text">>, "xml">>, << <<"text", "text">>, "json">>,
             << <<"scalar">>, "json">>, << <<"text", "tag">>, "html">>, << <<"text">>, "evtx">>},
        ext \in {".log", ".evtx", ".xml", ".html", ".json", ""},
        items \in BoundedSeq({1, 2}, 2)}

MCFiles ==
    Family({"blank", "canonical", "syslog", "foreign", "text"}, {".log"}, MaxLines)
    \cup Family({"blank", "canonical", "text"}, {".html"}, 2)
    \cup Family({"blank", "rfc5424", "event", "object", "text"}, {".log"}, MaxLines)
    \cup Family({"blank", "object", "text"}, {".jsonl"}, MaxLines - 1)
    \cup Family({"blank", "stamp", "code", "field", "text"}, {".log"}, MaxLines)
    \cup Family({"scalar", "object", "blank", "tag"}, {".log", ".json", ".jsonl", ".xml", ""}, MaxLines - 1)
    \cup Tables({"authHeader", "row", "short", "blank"}, {".log", ".csv"}, MaxLines - 1)
    \cup Tables({"authHeader", "quote", "blank", "row"}, {".csv"}, MaxLines)
    \cup Tables({"log360Header", "row", "blank", "comma", "quote"}, {".log"}, MaxLines - 1)
    \cup Tables({"cbs", "log4j", "comma", "text"}, {".log", ".csv"}, MaxLines - 1)
    \cup UNION {Family({kind, "text"}, {".log", ".evtx"}, MaxLines) :
                kind \in Loghub \cup {"envelope", "iso8601", "logcat"}}
    \cup Family({"envelope", "foreignEnvelope", "text"}, {".log"}, MaxLines - 1)
    \cup {f \in Documents : f.items \in Seq(DOMAIN f.lines)}
=============================================================================
