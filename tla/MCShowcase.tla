----------------------------- MODULE MCShowcase -----------------------------
(* One short log, published and asked about.                                *)
EXTENDS Showcase, MCDetection

MCQuestions ==
    {Question(names, asks, Severities) :
        names \in {{}, {a}, {h}}, asks \in {"dashboard", "incidents", "findings", "nothing"}}
=============================================================================
